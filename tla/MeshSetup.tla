----------------------------- MODULE MeshSetup ------------------------------
(***************************************************************************)
(* How the processes of the three parties come to hold a socket to each    *)
(* other before a protocol starts: the Go signing program and the C++ MPC  *)
(* programs (NetIOMP), each over the relay or by direct TCP connections.   *)
(* The relay is what Rendezvous promises of it, which Relay implements.    *)
(* Party 1 is GCP, 2 is AWS, 3 is Azure (partyInt + 1 in the Go code).     *)
(***************************************************************************)
EXTENDS Naturals, Sequences, FiniteSets

CONSTANTS
    Programs,   \* the set-ups under study
    Meshes,     \* Meshes[g]: NetIOMP objects the program creates in turn, one or two
    RelayKinds, \* arrays of a NetIOMP explored over the relay: ios, ios2
    Fragile,    \* Fragile[g]: parties whose process may be killed
    MaxFaults   \* processes killed and sessions cut in one behaviour

ASSUME MeshAssumption ==
    /\ Programs \subseteq {"goRelay", "goDirect", "cppRelay", "cppDirect"}
    /\ Meshes \in [Programs -> 1..2]
    /\ RelayKinds \subseteq {"ios", "ios2"}
    /\ Fragile \in [Programs -> SUBSET (1..3)]
    /\ MaxFaults \in Nat

VARIABLES
    prog,    \* the program all three parties run
    block,   \* block[p]: group of sockets party p is waiting for
    stat,    \* stat[e]: what has become of socket e
    asked, met, left,  \* the relay's clients, sessions and leavers
    cut,     \* relay sessions that broke while an end was in its handshake
    queue,   \* <<e, f>>: e is connected to the port f listens on, not accepted
    links,   \* {e, f}: direct connection accepted by f's process
    down,    \* parties whose process has ended
    short,   \* parties whose map counts an entry too few
    faults,  \* kills and cuts so far
    excuse   \* what went wrong that the set-up is not built to survive

relayVars == <<asked, met, left>>
vars == <<prog, block, stat, relayVars, cut, queue, links, down, short,
          faults, excuse>>

-----------------------------------------------------------------------------
(* What each program opens, in which order and where.  A socket is the
   slot it is stored in: whose, to whom, of which NetIOMP, ios or ios2.    *)

Party == 1..3
Go == prog \in {"goRelay", "goDirect"}
Relayed == prog \in {"goRelay", "cppRelay"}

End(p, q, m, k) == [me |-> p, peer |-> q, mesh |-> m, kind |-> k]
Mirror(e) == End(e.peer, e.me, e.mesh, e.kind)

AllEnds == {End(p, q, m, k) : p \in Party, q \in Party, m \in 1..2, k \in {"ios", "ios2"}}

\* Mutant: every party asks for the next one first.
RelayOrderCircular(p) == << <<2, 3>>, <<3, 1>>, <<1, 2>> >>[p]

\* setupTLSWithRelay: the order in which a party asks for the other two
RelayOrder(p) == << <<2, 3>>, <<3, 1>>, <<2, 1>> >>[p]

GoRelayBlocks(p) == [i \in 1..2 |-> {End(p, RelayOrder(p)[i], 1, "ios")}]

\* setupTLS: listeners run beside the dialling thread; GCP only dials
GoDirectBlocks(p) ==
    IF p = 1 THEN <<{End(1, 2, 1, "ios")}, {End(1, 3, 1, "ios")}>>
             ELSE <<{End(p, q, 1, "ios") : q \in Party \ {p}}>>

\* a thread per socket, all joined before the next NetIOMP is made
CppRelayBlocks(p) ==
    [m \in 1..Meshes[prog] |->
        {End(p, q, m, k) : q \in Party \ {p}, k \in RelayKinds}]

\* Mutant: ios2 is opened before ios.
CppDirectPairSwapped(p, q, m) == <<{End(p, q, m, "ios2")}, {End(p, q, m, "ios")}>>

CppDirectPair(p, q, m) == <<{End(p, q, m, "ios")}, {End(p, q, m, "ios2")}>>

\* one thread, in the order of the loops over i < j
CppDirectMesh(p, m) ==
    LET q == CHOOSE q \in Party \ {p} : \A r \in Party \ {p} : q <= r
        r == CHOOSE r \in Party \ {p} : \A s \in Party \ {p} : s <= r
    IN  CppDirectPair(p, q, m) \o CppDirectPair(p, r, m)

CppDirectBlocks(p) ==
    IF Meshes[prog] = 1 THEN CppDirectMesh(p, 1)
                        ELSE CppDirectMesh(p, 1) \o CppDirectMesh(p, 2)

Blocks(p) ==
    IF Relayed THEN IF Go THEN GoRelayBlocks(p) ELSE CppRelayBlocks(p)
               ELSE IF Go THEN GoDirectBlocks(p) ELSE CppDirectBlocks(p)

Ends(p) == UNION {Blocks(p)[i] : i \in 1..Len(Blocks(p))}

\* the lower party of a pair dials, the higher one listens
Dials(e) == e.me < e.peer
Low(e) == IF Dials(e) THEN e.me ELSE e.peer
High(e) == IF Dials(e) THEN e.peer ELSE e.me

\* port + 2i for ios, port + 2j + 1 for ios2, the next NetIOMP 2(nP + 1) higher
CppPort(e) == 8 * e.mesh + (IF e.kind = "ios" THEN 2 * Low(e) ELSE 2 * High(e) + 1)

\* Go listens on a port of its own for each dialler (AWSPort, AzurePort1, AzurePort2)
Port(e) == IF Go THEN Low(e) ELSE CppPort(e)

Tag(e) == <<e.mesh, e.kind, Low(e), High(e)>>

-----------------------------------------------------------------------------
(* The relay: every socket asks it once, for no failure is survived.       *)

AsksFor(e, f) == e.me = f.peer /\ e.peer = f.me /\ Tag(e) = Tag(f)

R == INSTANCE Rendezvous WITH Conn <- AllEnds, Mirrored <- AsksFor

SessionOf(e) == {s \in met : e \in s}
Held(p) == {e \in asked \ left : e.me = p}

\* the session of e broke, or its other end has gone
Lost(e) == \E s \in SessionOf(e) : s \in cut \/ s \cap left # {}

-----------------------------------------------------------------------------
Init ==
    /\ prog \in Programs
    /\ block = [p \in Party |-> 1]
    /\ stat = [e \in UNION {Ends(p) : p \in Party} |-> "idle"]
    /\ R!RInit
    /\ cut = {} /\ queue = {} /\ links = {}
    /\ down = {} /\ short = {} /\ faults = 0 /\ excuse = {}

Ready(p) == block[p] > Len(Blocks(p))
Current(p) == IF Ready(p) \/ p \in down THEN {} ELSE Blocks(p)[block[p]]
Turn(e) == stat[e] = "idle" /\ e \in Current(e.me)

\* a C++ thread writes its own slot of the array; Go still has to store in a map
Opened == IF Go THEN "held" ELSE "open"

(* Over the relay. *)

\* dialRelayTLS, NetIO: StartRelayAuth sends the name, the destination, the tag
Ask(e) ==
    /\ Relayed /\ Turn(e)
    /\ R!Arrive(e)
    /\ stat' = [stat EXCEPT ![e] = "asked"]
    /\ UNCHANGED <<prog, block, cut, queue, links, down, short, faults, excuse>>

Meet(e, f) ==
    /\ R!Meet(e, f)
    /\ UNCHANGED <<prog, block, stat, cut, queue, links, down, short, faults, excuse>>

\* GetSessionE2E: one end is done before the other; its peer may have gone when
\* what it had sent is read
Secure(e) ==
    /\ stat[e] = "asked" /\ e.me \notin down
    /\ SessionOf(e) \ cut # {}
    /\ stat' = [stat EXCEPT ![e] = Opened]
    /\ UNCHANGED <<prog, block, relayVars, cut, queue, links, down, short, faults, excuse>>

\* the session breaks under a handshake, one end of which may be done
Cut(s) ==
    /\ faults < MaxFaults
    /\ s \in met \ cut /\ s \cap left = {}
    /\ \E e \in s : stat[e] = "asked"
    /\ cut' = cut \cup {s}
    /\ faults' = faults + 1
    /\ excuse' = excuse \cup {"cut"}
    /\ UNCHANGED <<prog, block, stat, relayVars, queue, links, down, short>>

\* the process of p ends; the system closes what it held
Exit(p, why) ==
    /\ down' = down \cup {p}
    /\ left' = left \cup Held(p)
    /\ queue' = {x \in queue : x[1].me # p}
    /\ excuse' = excuse \cup why
    /\ UNCHANGED <<prog, block, stat, asked, met, cut, links, short>>

\* the handshake fails: tlsClient and tlsServer call log.Fatalf, NetIO abort,
\* and the loop of dialRelayTLS never goes round
Abort(e) ==
    /\ stat[e] = "asked" /\ e.me \notin down /\ Lost(e)
    /\ Exit(e.me, {"aborted"})
    /\ UNCHANGED faults

\* killed, or StartRelayAuthGo failed and Close is called on a nil connection
Kill(p) ==
    /\ faults < MaxFaults
    /\ p \in Fragile[prog] \ down /\ ~Ready(p)
    /\ Exit(p, {"killed"})
    /\ faults' = faults + 1

(* By direct connections. *)

Listening(f) == stat[f] = "listening" /\ f.me \notin down

\* bind, listen: a second listener on the port ends the process
Listen(f) ==
    /\ ~Relayed /\ Turn(f) /\ ~Dials(f)
    /\ IF \E g \in Ends(f.me) : Listening(g) /\ Port(g) = Port(f)
       THEN Exit(f.me, {}) /\ UNCHANGED faults
       ELSE /\ stat' = [stat EXCEPT ![f] = "listening"]
            /\ UNCHANGED <<prog, block, relayVars, cut, queue, links, down, short,
                           faults, excuse>>

\* connect is refused, and repeated, until somebody listens there
Connect(e) ==
    /\ ~Relayed /\ Turn(e) /\ Dials(e)
    /\ \E f \in Ends(e.peer) :
          /\ Listening(f) /\ Port(f) = Port(e)
          /\ queue' = queue \cup {<<e, f>>}
    /\ stat' = [stat EXCEPT ![e] = "queued"]
    /\ UNCHANGED <<prog, block, relayVars, cut, links, down, short, faults, excuse>>

\* Mutant: the Go listener stores the connection under its own index.
SlotOwn(f, e) == IF Go THEN End(f.me, f.me, 1, "ios") ELSE f

\* where the listener's process stores it: Go goes by the remote address
Slot(f, e) == IF Go THEN End(f.me, e.me, 1, "ios") ELSE f

\* accept and the TLS handshake.  NetIO closes its listener: whoever else had
\* connected is reset, which SSL_connect reports and the constructor ignores
Accept(f, e) ==
    LET others == IF Go THEN {} ELSE {x \in queue : x[2] = f /\ x[1] # e}
    IN  /\ Listening(f) /\ <<e, f>> \in queue
        /\ links' = links \cup {{e, Slot(f, e)}}
        /\ stat' = [g \in DOMAIN stat |->
                       IF g \in {e, Slot(f, e)} THEN Opened
                       ELSE IF <<g, f>> \in others THEN "reset" ELSE stat[g]]
        /\ queue' = queue \ ({<<e, f>>} \cup others)
        /\ UNCHANGED <<prog, block, relayVars, cut, down, short, faults, excuse>>

\* the listener's process ended: Go calls log.Fatalf, NetIO goes on
Reset(e) ==
    \E x \in queue :
        /\ x[1] = e /\ x[2].me \in down
        /\ IF Go THEN Exit(e.me, {"handshake"})
           ELSE /\ stat' = [stat EXCEPT ![e] = "reset"]
                /\ queue' = queue \ {x}
                /\ UNCHANGED <<prog, block, relayVars, cut, links, down, short, excuse>>
        /\ UNCHANGED faults

\* dialTLS: five seconds have passed, log.Fatalf
GiveUp(e) ==
    /\ prog = "goDirect" /\ Turn(e) /\ Dials(e)
    /\ Exit(e.me, {"gave up"})
    /\ UNCHANGED faults

(* The map of a Go party, written by several threads without a lock. *)

Store(e) ==
    /\ stat[e] = "held" /\ e.me \notin down
    /\ stat' = [stat EXCEPT ![e] = "open"]
    /\ UNCHANGED <<prog, block, relayVars, cut, queue, links, down, short, faults, excuse>>

\* two stores overlap: the runtime stops the process, or one entry overwrites
\* the other and the count may be one or two
StoreRace(d, e) ==
    /\ stat[d] = "held" /\ stat[e] = "held"
    /\ d # e /\ d.me = e.me /\ d.me \notin down
    /\ \/ Exit(d.me, {"map race"})
       \/ /\ stat' = [stat EXCEPT ![d] = "open", ![e] = "lost"]
          /\ short' \in {short, short \cup {d.me}}
          /\ excuse' = excuse \cup {"map race"}
          /\ UNCHANGED <<prog, block, relayVars, cut, queue, links, down>>
    /\ UNCHANGED faults

\* Mutant: goes on when one socket of the block is there.
ProceedEarly(p) ==
    /\ Current(p) # {} /\ p \notin short
    /\ \E e \in Current(p) : stat[e] \in {"open", "reset", "lost"}
    /\ block' = [block EXCEPT ![p] = @ + 1]
    /\ UNCHANGED <<prog, stat, relayVars, cut, queue, links, down, short, faults, excuse>>

\* the threads are joined; or the map has two entries
Proceed(p) ==
    /\ Current(p) # {} /\ p \notin short
    /\ \A e \in Current(p) : stat[e] \in {"open", "reset", "lost"}
    /\ block' = [block EXCEPT ![p] = @ + 1]
    /\ UNCHANGED <<prog, stat, relayVars, cut, queue, links, down, short, faults, excuse>>

Step(e) ==
    \/ Ask(e) \/ Secure(e) \/ Abort(e)
    \/ Listen(e) \/ Connect(e) \/ Reset(e) \/ Store(e)

RelayStep == \E e, f \in asked \ (left \cup UNION met) : Meet(e, f)
AcceptStep == \E x \in queue : Accept(x[2], x[1])

Next ==
    \/ \E e \in DOMAIN stat : Step(e)
    \/ RelayStep
    \/ AcceptStep
    \/ \E p \in Party : Proceed(p) \/ Kill(p)
    \/ \E s \in met : Cut(s)
    \/ \E e \in DOMAIN stat : GiveUp(e)
    \/ \E d, e \in DOMAIN stat : StoreRace(d, e)

\* threads run, refused dials go on, and the relay pairs those that ask for each
\* other; nothing makes a process fail, a dial time out or two stores overlap
Fairness ==
    /\ \A p \in Party : WF_vars(Proceed(p) \/ \E e \in DOMAIN stat : e.me = p /\ Step(e))
    /\ WF_vars(RelayStep)
    /\ WF_vars(AcceptStep)

Spec == Init /\ [][Next]_vars /\ Fairness

-----------------------------------------------------------------------------
(* Every variable has its type.  Sessions, connections and leavers are among
   those that asked, and a Go listener stores a connection under an index
   that stands for another party (getIndexByIP).                           *)
TypeOK ==
    /\ prog \in Programs
    /\ block \in [Party -> 1..9]
    /\ stat \in [UNION {Ends(p) : p \in Party} ->
                    {"idle", "asked", "listening", "queued", "held", "open", "reset", "lost"}]
    /\ asked \subseteq AllEnds /\ left \subseteq asked
    /\ met \subseteq {{e, f} : e \in asked, f \in asked} /\ cut \subseteq met
    /\ queue \subseteq (DOMAIN stat) \X (DOMAIN stat)
    /\ links \subseteq {{e, f} : e \in DOMAIN stat, f \in DOMAIN stat}
    /\ down \subseteq Party /\ short \subseteq Party
    /\ faults \in 0..MaxFaults

(***************************************************************************)
(* A socket leads where its slot says: the ios of p for q in one NetIOMP   *)
(* is the other end of the ios of q for p in the same one, over the relay  *)
(* and over ports that are listened on more than once, and no dialler is   *)
(* reset by a listener that took somebody else.                            *)
(***************************************************************************)
SocketsMatch ==
    /\ \A l \in links \cup met : \A e \in l : l = {e, Mirror(e)}
    /\ \A e \in DOMAIN stat : stat[e] = "reset" => e.peer \in down

(***************************************************************************)
(* A set-up that returns has a socket for every slot, joined to the same   *)
(* slot of the other party, whatever processes fail and sessions break on  *)
(* the way: all it may lack is a party that has ended, or whose handshake  *)
(* the break of the session is about to end.  The exception is a map that  *)
(* two threads of a Go party wrote at once.                                *)
(***************************************************************************)
ReadyHasAll ==
    "map race" \notin excuse =>
        \A p \in Party : Ready(p) =>
            \A e \in Ends(p) :
                \/ e.peer \in down
                \/ /\ stat[e] = "open"
                   /\ {e, Mirror(e)} \in links \cup met
                   /\ {e, Mirror(e)} \in cut => stat[Mirror(e)] = "asked"

(***************************************************************************)
(* Unless a process fails, a session breaks, a dial takes too long or a    *)
(* map is written by two threads at once, all three set-ups return: no     *)
(* order of listening, dialling and asking leaves the parties waiting in a *)
(* circle, although each blocks on its sockets in its own order.           *)
(***************************************************************************)
MeshCompletes == <>(excuse # {} \/ \A p \in Party : Ready(p))
=============================================================================
