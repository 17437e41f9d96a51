------------------------------- MODULE Relay -------------------------------
(***************************************************************************)
(* The relay (src/relay/pkg): parties of an MPC session that cannot accept *)
(* incoming connections dial the relay, name the party they want to talk   *)
(* to and a tag, and the relay joins the two TCP connections whose         *)
(* requests mirror each other.                                             *)
(*                                                                         *)
(* Three kinds of process run concurrently:                                *)
(*   - one accept loop (receiveWaitAndForward and authorize), which owns   *)
(*     pc, cur, dstConn and destTLS, its local variables;                  *)
(*   - one forwarder per joined pair (startForwarding), identified by the  *)
(*     connection whose arrival completed the pair;                        *)
(*   - the client process at the far end of every connection.              *)
(* They share the two maps of store.State and the sockets.                 *)
(*                                                                         *)
(* Every access to a map is a step of its own, because each takes and      *)
(* drops its own lock (or, for the "exists" checks, takes none).           *)
(***************************************************************************)
EXTENDS Naturals, FiniteSets

CONSTANTS
    Party,      \* the names in the parties' certificates
    Tags,       \* the tags the parties use
    Conn,       \* the connections that may be dialled, each at most once
    Req,        \* Req[c]: source, destination and tag of connection c
    Certified,  \* the connections whose client certificate the relay accepts
    Fragile,    \* the connections whose client may die before its session is up
    Reuse,      \* when a party may dial a tag again: see MayDial
    Nil         \* no connection

Key == [src : Party, dst : Party, tag : Tags]

ASSUME RelayAssumption ==
    /\ Req \in [Conn -> Key]
    /\ Certified \subseteq Conn
    /\ Fragile \subseteq Conn
    /\ Reuse \in {"released", "ended", "any"}
    /\ Nil \notin Conn

VARIABLES
    openConns,  \* store.State.openConns
    tlsConns,   \* store.State.tlsConns
    sock,       \* the relay's end of each TCP connection
    pc,         \* where the accept loop is
    cur,        \* accept loop: the connection it is serving
    dstConn,    \* authorize: the result of GetConnection
    destTLS,    \* authorize: the result of GetTLSConnection
    fwd,        \* where the forwarder started for a connection is
    fdst,       \* that forwarder's conn2
    fdtls,      \* that forwarder's sslConn2
    ready,      \* the mode in the Ready message sent on a connection
    client,     \* where the client process of a connection is
    gone        \* the connections whose client process has ended

store == <<openConns, tlsConns>>
loop == <<pc, cur, dstConn, destTLS>>
forwarders == <<fwd, fdst, fdtls>>
clients == <<client, gone>>
vars == <<store, sock, loop, forwarders, ready, clients>>

SockState == {"none", "queued", "open", "closed"}
LoopState == {"accept", "handshake", "read", "storeTLS", "storeConn",
              "getTLS", "ready1", "ready2", "fork", "crashed"}
FwdState == {"none", "run", "drain", "rmConn1", "rmConn2", "rmTLS1", "rmTLS2",
             "done"}
ClientState == {"idle", "dialed", "asked", "ready", "up"}
Mode == {"none", "server", "client"}

(* A map that holds no entry for a key is a function that is Nil there.    *)
(* authorize passes no nil connection to sendReady and startForwarding.    *)
TypeOK ==
    /\ openConns \in [Key -> Conn \cup {Nil}]
    /\ tlsConns \in [Key -> Conn \cup {Nil}]
    /\ sock \in [Conn -> SockState]
    /\ pc \in LoopState
    /\ cur \in Conn \cup {Nil}
    /\ dstConn \in Conn \cup {Nil}
    /\ destTLS \in Conn \cup {Nil}
    /\ fwd \in [Conn -> FwdState]
    /\ fdst \in [Conn -> Conn \cup {Nil}]
    /\ fdtls \in [Conn -> Conn \cup {Nil}]
    /\ ready \in [Conn -> Mode]
    /\ client \in [Conn -> ClientState]
    /\ gone \subseteq Conn
    /\ pc \in {"ready1", "ready2", "fork"} => {cur, dstConn, destTLS} \subseteq Conn

Init ==
    /\ openConns = [k \in Key |-> Nil]
    /\ tlsConns = [k \in Key |-> Nil]
    /\ sock = [c \in Conn |-> "none"]
    /\ pc = "accept"
    /\ cur = Nil
    /\ dstConn = Nil
    /\ destTLS = Nil
    /\ fwd = [c \in Conn |-> "none"]
    /\ fdst = [c \in Conn |-> Nil]
    /\ fdtls = [c \in Conn |-> Nil]
    /\ ready = [c \in Conn |-> "none"]
    /\ client = [c \in Conn |-> "idle"]
    /\ gone = {}

-----------------------------------------------------------------------------
(* Keys, and who holds a connection                                        *)

\* Mutant: sessions of the same parties under two tags get one key.
getKeyNoTag(s, d, t) == [src |-> s, dst |-> d, tag |-> CHOOSE x \in Tags : TRUE]

getKey(s, d, t) == [src |-> s, dst |-> d, tag |-> t]

\* The key a connection is stored under.
OwnKey(c) == getKey(Req[c].src, Req[c].dst, Req[c].tag)

\* Mutant: the other side is looked up with the parties in the same order.
PeerKeySameOrder(c) == getKey(Req[c].src, Req[c].dst, Req[c].tag)

\* The key authorize looks the other side up under: the two parties swapped.
PeerKey(c) == getKey(Req[c].dst, Req[c].src, Req[c].tag)

\* The requests of two connections ask for each other.
Mirrored(c, d) == /\ Req[c].src = Req[d].dst
                  /\ Req[c].dst = Req[d].src
                  /\ Req[c].tag = Req[d].tag

Running(f) == fwd[f] = "run"

Active(f) == fwd[f] \notin {"none", "done"}

\* The connections a forwarder reads from and writes to.
Ends(f) == {f, fdst[f]}

\* The relay holds nothing of connection c any more.
Released(c) ==
    /\ sock[c] = "closed"
    /\ \A k \in Key : openConns[k] # c /\ tlsConns[k] # c
    /\ \A f \in Conn : Active(f) => c \notin Ends(f) \cup {fdtls[f]}
    /\ c \notin {cur, dstConn, destTLS}

\* The relay has taken c as one side of a pair.
Joined(c) == \/ c \in {dstConn, destTLS}
             \/ \E f \in Conn : fwd[f] # "none" /\ c \in Ends(f) \cup {fdtls[f]}

(***************************************************************************)
(* Tags are reused by every operation of a user.  A party may dial a tag   *)
(* again                                                                   *)
(*   "released"  when the relay has let go of its last connection under    *)
(*               the tag and of every joined connection of the other side, *)
(*   "ended"     when its own earlier clients under the tag have ended,    *)
(*               which is all that a party can know,                       *)
(*   "any"       at any time: two operations of the user overlap.          *)
(***************************************************************************)
MayDial(c) ==
    LET earlier == {d \in Conn \ {c} : client[d] # "idle" /\ Req[d] = Req[c]}
        peers == {d \in Conn \ {c} : Joined(d) /\ Mirrored(c, d)}
    IN  CASE Reuse = "released" -> \A d \in earlier \cup peers : Released(d)
          [] Reuse = "ended"    -> earlier \subseteq gone
          [] OTHER              -> TRUE

-----------------------------------------------------------------------------
(* The accept loop                                                         *)

AcceptNext == /\ pc' = "accept"
              /\ cur' = Nil
              /\ dstConn' = Nil
              /\ destTLS' = Nil

\* tlsConn.Close() and back to Accept.
RejectCurrent == /\ sock' = [sock EXCEPT ![cur] = "closed"]
                 /\ AcceptNext

\* acceptor.Accept() returns any connection that has arrived.
Accept(c) ==
    /\ pc = "accept"
    /\ sock[c] = "queued"
    /\ pc' = "handshake"
    /\ cur' = c
    /\ sock' = [sock EXCEPT ![c] = "open"]
    /\ UNCHANGED <<store, dstConn, destTLS, forwarders, ready, clients>>

\* tlsConn.Handshake() and GetPartyName succeed.  The loop waits for the
\* client: nobody else is accepted meanwhile.
Handshake ==
    /\ pc = "handshake"
    /\ cur \in Certified \ gone
    /\ pc' = "read"
    /\ UNCHANGED <<store, sock, cur, dstConn, destTLS, forwarders, ready, clients>>

HandshakeFails ==
    /\ pc = "handshake"
    /\ cur \notin Certified \/ cur \in gone
    /\ RejectCurrent
    /\ UNCHANGED <<store, forwarders, ready, clients>>

\* authorize: the request has arrived, and GetConnection looks up the mirror key.
GetConnection ==
    /\ pc = "read"
    /\ client[cur] = "asked"
    /\ dstConn' = openConns[PeerKey(cur)]
    /\ pc' = IF dstConn' = Nil THEN "storeTLS" ELSE "getTLS"
    /\ UNCHANGED <<store, sock, cur, destTLS, forwarders, ready, clients>>

\* authorize: the client died before it sent its request.
ReadFails ==
    /\ pc = "read"
    /\ client[cur] = "dialed" /\ cur \in gone
    /\ RejectCurrent
    /\ UNCHANGED <<store, forwarders, ready, clients>>

\* StoreTLSConnection: an existing entry stays, and authorize drops the error.
StoreTLSConnection ==
    /\ pc = "storeTLS"
    /\ tlsConns' = IF tlsConns[OwnKey(cur)] = Nil
                   THEN [tlsConns EXCEPT ![OwnKey(cur)] = cur]
                   ELSE tlsConns
    /\ pc' = "storeConn"
    /\ UNCHANGED <<openConns, sock, cur, dstConn, destTLS, forwarders, ready, clients>>

\* StoreConnection: an existing entry is an error, and the connection is closed.
StoreConnection ==
    /\ pc = "storeConn"
    /\ IF openConns[OwnKey(cur)] = Nil
       THEN /\ openConns' = [openConns EXCEPT ![OwnKey(cur)] = cur]
            /\ AcceptNext
            /\ UNCHANGED sock
       ELSE /\ RejectCurrent
            /\ UNCHANGED openConns
    /\ UNCHANGED <<tlsConns, forwarders, ready, clients>>

\* Mutant: the error of GetTLSConnection is dropped too.
GetTLSUnchecked ==
    /\ pc = "getTLS"
    /\ destTLS' = tlsConns[PeerKey(cur)]
    /\ pc' = "ready1"
    /\ UNCHANGED <<store, sock, cur, dstConn, forwarders, ready, clients>>

\* GetTLSConnection: no entry is an error, and the arriving connection is closed.
GetTLSConnection ==
    /\ pc = "getTLS"
    /\ IF tlsConns[PeerKey(cur)] = Nil
       THEN RejectCurrent
       ELSE /\ destTLS' = tlsConns[PeerKey(cur)]
            /\ pc' = "ready1"
            /\ UNCHANGED <<sock, cur, dstConn>>
    /\ UNCHANGED <<store, forwarders, ready, clients>>

\* sendReady writes the mode.  The write fails, and the error is dropped, on a
\* closed socket and on a TLS session that an earlier sendReady has shut.
sendReady(c, mode) ==
    ready' = IF sock[c] = "open" /\ ready[c] = "none"
             THEN [ready EXCEPT ![c] = mode]
             ELSE ready

\* sendReady's last Read returns: the client has shut its side too, or is gone.
Acked(c) == \/ ready[c] = "none" \/ client[c] # "asked"
            \/ c \in gone \/ sock[c] = "closed"

\* Mutant: the arriving side is told to be the client as well.
SendReadySameMode ==
    /\ pc = "ready1"
    /\ sendReady(cur, "client")
    /\ pc' = "ready2"
    /\ UNCHANGED <<store, sock, cur, dstConn, destTLS, forwarders, clients>>

SendReadyServer ==
    /\ pc = "ready1"
    /\ sendReady(cur, "server")
    /\ pc' = "ready2"
    /\ UNCHANGED <<store, sock, cur, dstConn, destTLS, forwarders, clients>>

SendReadyClient ==
    /\ pc = "ready2"
    /\ Acked(cur)
    /\ sendReady(destTLS, "client")
    /\ pc' = "fork"
    /\ UNCHANGED <<store, sock, cur, dstConn, destTLS, forwarders, clients>>

\* go s.startForwarding(...), and back to Accept.
Fork ==
    /\ pc = "fork"
    /\ Acked(destTLS)
    /\ fwd' = [fwd EXCEPT ![cur] = "run"]
    /\ fdst' = [fdst EXCEPT ![cur] = dstConn]
    /\ fdtls' = [fdtls EXCEPT ![cur] = destTLS]
    /\ AcceptNext
    /\ UNCHANGED <<store, sock, ready, clients>>

(***************************************************************************)
(* The "exists" checks of StoreConnection and StoreTLSConnection read the  *)
(* map without its lock.  When a forwarder's delete runs at the same time, *)
(* the Go runtime may stop the whole process ("concurrent map read and map *)
(* write"): both steps are enabled, so they may coincide.                  *)
(***************************************************************************)
MapRace ==
    /\ \/ pc = "storeTLS" /\ \E f \in Conn : fwd[f] \in {"rmTLS1", "rmTLS2"}
       \/ pc = "storeConn" /\ \E f \in Conn : fwd[f] \in {"rmConn1", "rmConn2"}
    /\ pc' = "crashed"
    /\ cur' = Nil /\ dstConn' = Nil /\ destTLS' = Nil
    /\ openConns' = [k \in Key |-> Nil]
    /\ tlsConns' = [k \in Key |-> Nil]
    /\ sock' = [c \in Conn |-> IF sock[c] = "none" THEN "none" ELSE "closed"]
    /\ fwd' = [f \in Conn |-> IF Active(f) THEN "done" ELSE fwd[f]]
    /\ UNCHANGED <<fdst, fdtls, ready, clients>>

-----------------------------------------------------------------------------
(* Forwarders                                                              *)

CloseAll(S) == sock' = [c \in Conn |-> IF c \in S THEN "closed" ELSE sock[c]]

ForwarderStep(f, from, to) == /\ fwd[f] = from
                              /\ fwd' = [fwd EXCEPT ![f] = to]

\* Mutant: a read deadline left on a socket ends the pump of a live session.
PumpTimesOut(f) ==
    /\ ForwarderStep(f, "run", "drain")
    /\ CloseAll(Ends(f))
    /\ UNCHANGED <<store, loop, fdst, fdtls, ready, clients>>

\* A pump's Read or Write fails because an end is closed, here or at the far
\* side, and closeConnections closes both.
PumpEnds(f) ==
    /\ ForwarderStep(f, "run", "drain")
    /\ \E c \in Ends(f) : c \in gone \/ sock[c] = "closed"
    /\ CloseAll(Ends(f))
    /\ UNCHANGED <<store, loop, fdst, fdtls, ready, clients>>

\* The other pump fails too, wg.Wait() returns, and both TLS objects are closed.
ForwardingFinished(f) ==
    /\ ForwarderStep(f, "drain", "rmConn1")
    /\ CloseAll(Ends(f) \cup {fdtls[f]})
    /\ UNCHANGED <<store, loop, fdst, fdtls, ready, clients>>

\* Mutant: the second removal repeats the first key.
RemoveOneSide(f) ==
    /\ \/ ForwarderStep(f, "rmConn1", "rmConn2")
       \/ ForwarderStep(f, "rmConn2", "rmTLS1")
    /\ openConns' = [openConns EXCEPT ![OwnKey(f)] = Nil]
    /\ UNCHANGED <<tlsConns, sock, loop, fdst, fdtls, ready, clients>>

\* RemoveConnection(srcParty, dstParty, tag), then with the parties swapped.
RemoveConnection(f) ==
    /\ \/ /\ ForwarderStep(f, "rmConn1", "rmConn2")
          /\ openConns' = [openConns EXCEPT ![OwnKey(f)] = Nil]
       \/ /\ ForwarderStep(f, "rmConn2", "rmTLS1")
          /\ openConns' = [openConns EXCEPT ![PeerKey(f)] = Nil]
    /\ UNCHANGED <<tlsConns, sock, loop, fdst, fdtls, ready, clients>>

\* RemoveTLSConnection(srcParty, dstParty, tag), then with the parties swapped.
RemoveTLSConnection(f) ==
    /\ \/ /\ ForwarderStep(f, "rmTLS1", "rmTLS2")
          /\ tlsConns' = [tlsConns EXCEPT ![OwnKey(f)] = Nil]
       \/ /\ ForwarderStep(f, "rmTLS2", "done")
          /\ tlsConns' = [tlsConns EXCEPT ![PeerKey(f)] = Nil]
    /\ UNCHANGED <<openConns, sock, loop, fdst, fdtls, ready, clients>>

startForwarding(f) ==
    \/ PumpEnds(f)
    \/ ForwardingFinished(f)
    \/ RemoveConnection(f)
    \/ RemoveTLSConnection(f)

-----------------------------------------------------------------------------
(* Clients                                                                 *)

relayVars == <<store, sock, loop, forwarders, ready>>

Dial(c) ==
    /\ pc # "crashed"
    /\ client[c] = "idle"
    /\ MayDial(c)
    /\ client' = [client EXCEPT ![c] = "dialed"]
    /\ sock' = [sock EXCEPT ![c] = "queued"]
    /\ UNCHANGED <<store, loop, forwarders, ready, gone>>

\* requestAuth: the TLS session with the relay is up, the request is written.
Ask(c) ==
    /\ c \notin gone
    /\ client[c] = "dialed"
    /\ pc = "read" /\ cur = c
    /\ client' = [client EXCEPT ![c] = "asked"]
    /\ UNCHANGED <<relayVars, gone>>

\* requestAuth: the Ready message and the close notification are read.
RecvReady(c) ==
    /\ c \notin gone
    /\ client[c] = "asked"
    /\ ready[c] # "none"
    /\ client' = [client EXCEPT ![c] = "ready"]
    /\ UNCHANGED <<relayVars, gone>>

\* GetSessionE2E on both ends: the two TLS handshakes meet through forwarder f.
SessionE2E(f) ==
    /\ Running(f)
    /\ \A c \in Ends(f) : client[c] = "ready" /\ c \notin gone /\ sock[c] = "open"
    /\ {ready[c] : c \in Ends(f)} = {"server", "client"}
    /\ client' = [c \in Conn |-> IF c \in Ends(f) THEN "up" ELSE client[c]]
    /\ UNCHANGED <<relayVars, gone>>

\* Two forwarders pump the same socket: each takes part of the stream, and the
\* TLS session of any end of the two may fail on what it receives.
Crossed(c) == \E f, g \in Conn :
                 /\ f # g /\ Running(f) /\ Running(g)
                 /\ Ends(f) \cap Ends(g) # {}
                 /\ c \in Ends(f) \cup Ends(g)

\* The client's connection is closed.  Every path ends the process: log.Fatalf
\* in tlsClient and tlsServer, a Close on the nil connection in dialRelayTLS,
\* abort() in the C++ client; on a session that is up, the application ends.
SeeClosed(c) ==
    /\ c \notin gone
    /\ client[c] # "idle"
    /\ sock[c] = "closed"
    /\ gone' = gone \cup {c}
    /\ UNCHANGED <<relayVars, client>>

\* The client's TLS session rejects a stream that was mixed up on the way.
SeeGarbage(c) ==
    /\ c \notin gone
    /\ Crossed(c)
    /\ gone' = gone \cup {c}
    /\ UNCHANGED <<relayVars, client>>

\* The application ends its session and closes the connection.
Finish(c) ==
    /\ c \notin gone
    /\ client[c] = "up"
    /\ gone' = gone \cup {c}
    /\ UNCHANGED <<relayVars, client>>

\* The client process dies early: killed by its platform, or by the panic that
\* follows the 500 ms deadline on the close notification.
Die(c) ==
    /\ c \in Fragile \ gone
    /\ client[c] \in {"dialed", "asked", "ready"}
    /\ gone' = gone \cup {c}
    /\ UNCHANGED <<relayVars, client>>

-----------------------------------------------------------------------------
(* The specification                                                       *)

\* One turn of receiveWaitAndForward.
receiveWaitAndForward ==
    \/ \E c \in Conn : Accept(c)
    \/ Handshake
    \/ HandshakeFails
    \/ ReadFails
    \/ GetConnection
    \/ StoreTLSConnection
    \/ StoreConnection
    \/ GetTLSConnection
    \/ SendReadyServer
    \/ SendReadyClient
    \/ Fork

ClientStep(c) ==
    \/ Ask(c)
    \/ RecvReady(c)
    \/ SeeClosed(c)
    \/ Finish(c)

Next ==
    \/ receiveWaitAndForward
    \/ MapRace
    \/ \E f \in Conn : startForwarding(f)
    \/ \E f \in Conn : SessionE2E(f)
    \/ \E c \in Conn : Dial(c)
    \/ \E c \in Conn : ClientStep(c)
    \/ \E c \in Conn : SeeGarbage(c)
    \/ \E c \in Conn : Die(c)

(***************************************************************************)
(* The accept loop and the forwarders are goroutines that the Go scheduler *)
(* runs; a client that is alive goes on with its protocol, and ends its    *)
(* session.  Nothing obliges a party to dial or a process to die.          *)
(***************************************************************************)
Fairness ==
    /\ WF_vars(receiveWaitAndForward)
    /\ \A f \in Conn : WF_vars(startForwarding(f)) /\ WF_vars(SessionE2E(f))
    /\ \A c \in Conn : WF_vars(ClientStep(c))

Spec == Init /\ [][Next]_vars

FairSpec == Spec /\ Fairness

-----------------------------------------------------------------------------
(* Properties                                                              *)

(***************************************************************************)
(* The relay joins two connections only if their requests mirror each      *)
(* other: the source of one is the destination of the other, under one     *)
(* tag.  It holds for every interleaving of arrivals and clean-ups.        *)
(***************************************************************************)
JoinsMatch ==
    \A f \in Conn : fwd[f] # "none" =>
        /\ fdst[f] \in Conn \ {f}
        /\ Mirrored(f, fdst[f])

(***************************************************************************)
(* The relay implements Rendezvous: for its clients, whatever happens to   *)
(* sockets, maps and forwarders inside, all that ever happens is that they *)
(* arrive, that two of them that ask for each other get a session, each at *)
(* most one in its life, and that they leave.                              *)
(***************************************************************************)
Sessions == {Ends(f) : f \in {g \in Conn : /\ fwd[g] # "none"
                                            /\ \A c \in Ends(g) : client[c] = "up"}}

R == INSTANCE Rendezvous WITH
         asked <- {c \in Conn : client[c] # "idle"},
         met <- Sessions,
         left <- gone

ImplementsRendezvous == R!RSpec

(***************************************************************************)
(* authorize tells one end of a pair to be the TLS server and the other to *)
(* be the client.  No connection that was stored to wait is ever told to   *)
(* be the server, and none whose arrival completed a pair the client.      *)
(***************************************************************************)
RolesDiffer ==
    \A f \in Conn : fwd[f] # "none" =>
        ready[f] \in {"none", "server"} /\ ready[fdst[f]] \in {"none", "client"}

(***************************************************************************)
(* A socket is pumped by one forwarder only: the bytes of a session never  *)
(* reach a third connection.                                               *)
(***************************************************************************)
OneForwarderPerSocket ==
    \A f, g \in Conn : f # g /\ Running(f) /\ Running(g) => Ends(f) \cap Ends(g) = {}

(***************************************************************************)
(* A connection stored to wait can be paired: its entry in openConns comes *)
(* with its own entry in tlsConns until the clean-up of its session.       *)
(***************************************************************************)
WaiterComplete ==
    \A k \in Key : openConns[k] # Nil => tlsConns[k] = openConns[k]

(***************************************************************************)
(* The relay closes a session that is up only after one of its two ends    *)
(* has ended, unless the whole relay goes down.                            *)
(***************************************************************************)
SessionEndsByItsEnds ==
    [][\A f \in Conn : (/\ Running(f) /\ client[f] = "up"
                        /\ sock[f] = "open" /\ sock'[f] = "closed" /\ pc' # "crashed")
                       => Ends(f) \cap gone # {}]_vars

\* The client of c waits for the relay, which has not turned it away.
Waiting(c) == /\ client[c] \in {"dialed", "asked"}
              /\ c \notin gone
              /\ sock[c] # "closed"

(***************************************************************************)
(* relay/README.md: "When both funcs connect to the relay, an end-to-end   *)
(* connection is established".  When two connections that ask for each     *)
(* other wait at the relay, at least one of them gets a session, unless    *)
(* one dies early on its own or the relay goes down.                       *)
(***************************************************************************)
Established ==
    \A c, d \in Certified : c # d /\ Mirrored(c, d) =>
        (Waiting(c) /\ Waiting(d)) ~>
            \/ "up" \in {client[c], client[d]}
            \/ {c, d} \cap Fragile \cap gone # {}
            \/ pc = "crashed"

(***************************************************************************)
(* startForwarding's clean-up is complete: once the client of a joined     *)
(* connection has ended, the relay comes to hold nothing of it: no socket, *)
(* no forwarder, no entry in either map.                                   *)
(***************************************************************************)
JoinedIsReleased ==
    \A c \in Conn : (c \in gone /\ Joined(c)) ~> Released(c)

=============================================================================
