------------------------------ MODULE TssRounds ------------------------------
(***************************************************************************)
(* The message loop of KeyGenParty and SigningParty (src/internal/signing),*)
(* which carries the messages of a threshold-signature protocol between    *)
(* the parties over one ordered connection per pair.                       *)
(*                                                                         *)
(* tss-lib (external) hands each party its outgoing messages in a fixed    *)
(* order through outCh: round by round, a point-to-point message to every  *)
(* other party in the order of their indices, or one broadcast.  It starts *)
(* a round when every message of the round before has been through         *)
(* party.Update, which the loop calls in a goroutine per message.          *)
(*                                                                         *)
(* For every outgoing message the loop sends and then waits for the other  *)
(* side's message, which must have the same type, or the process ends.     *)
(***************************************************************************)
EXTENDS Naturals, Sequences

CONSTANTS
    N,          \* the number of parties
    L,          \* the number of message types of the protocol
    P2P,        \* the types that are point-to-point; the others are broadcast
    Round,      \* Round[s]: the round in which type s is sent
    Fragile     \* the parties that may crash

Party == 0 .. N - 1
Type == 1 .. L

ASSUME RoundsAssumption ==
    /\ N \in Nat /\ N >= 2
    /\ L \in Nat
    /\ P2P \subseteq Type
    /\ Round \in [Type -> Nat]
    /\ \A s, t \in Type : s <= t => Round[s] <= Round[t]
    /\ Fragile \subseteq Party

VARIABLES
    status,     \* "run", "done" (endCh delivered), "dead" (log.Fatalf), "killed"
    slot,       \* the type of the message being exchanged, L + 1 after the last
    phase,      \* "select", "send" or "recv"
    peer,       \* the party the loop is sending to or receiving from
    wire,       \* wire[p][q]: the types sent by p that q has not received
    updating,   \* the received messages whose party.Update has not returned
    mismatch    \* the parties that received a message of another type

vars == <<status, slot, phase, peer, wire, updating, mismatch>>

TypeOK ==
    /\ status \in [Party -> {"run", "done", "dead", "killed"}]
    /\ slot \in [Party -> 1 .. L + 1]
    /\ phase \in [Party -> {"select", "send", "recv"}]
    /\ peer \in [Party -> Party]
    /\ wire \in [Party -> [Party -> Seq(Type)]]
    /\ updating \in [Party -> SUBSET (Type \X Party)]
    /\ mismatch \subseteq Party

-----------------------------------------------------------------------------

\* otherPartyIDs in order: its first element, its last, and the one after q.
First(p) == IF p = 0 THEN 1 ELSE 0
LastSame(p) == N - 1  \* mutant: the last party is not skipped for itself
Last(p) == IF p = N - 1 THEN N - 2 ELSE N - 1
After(p, q) == IF q + 1 = p THEN q + 2 ELSE q + 1

Init ==
    /\ status = [p \in Party |-> "run"]
    /\ slot = [p \in Party |-> 1]
    /\ phase = [p \in Party |-> "select"]
    /\ peer = [p \in Party |-> First(p)]
    /\ wire = [p \in Party |-> [q \in Party |-> <<>>]]
    /\ updating = [p \in Party |-> {}]
    /\ mismatch = {}

-----------------------------------------------------------------------------

\* tss-lib has started the round of party p's next message.
RoundStarted(p) == \A m \in updating[p] : Round[m[1]] >= Round[slot[p]]

\* case msg := <-outCh
TakeMessage(p) ==
    /\ status[p] = "run" /\ phase[p] = "select"
    /\ slot[p] <= L
    /\ RoundStarted(p)
    /\ phase' = [phase EXCEPT ![p] = "send"]
    /\ UNCHANGED <<status, slot, peer, wire, updating, mismatch>>

\* Mutant: the loop does not wait for the other side's message.
SendOnly(p) ==
    LET q == peer[p] IN
    /\ status[p] = "run" /\ phase[p] = "send"
    /\ wire' = [wire EXCEPT ![p][q] = Append(@, slot[p])]
    /\ slot' = IF q = Last(p) THEN [slot EXCEPT ![p] = @ + 1] ELSE slot
    /\ peer' = [peer EXCEPT ![p] = IF q = Last(p) THEN First(p) ELSE After(p, q)]
    /\ phase' = [phase EXCEPT ![p] = IF q = Last(p) \/ slot[p] \in P2P
                                     THEN "select" ELSE "send"]
    /\ UNCHANGED <<status, updating, mismatch>>

\* sendTSSMessage: to the destination, or to one party of the broadcast.
sendTSSMessage(p) ==
    LET q == peer[p] IN
    /\ status[p] = "run" /\ phase[p] = "send"
    /\ wire' = [wire EXCEPT ![p][q] = Append(@, slot[p])]
    /\ IF slot[p] \notin P2P /\ q # Last(p)
       THEN /\ peer' = [peer EXCEPT ![p] = After(p, q)]
            /\ UNCHANGED phase
       ELSE /\ phase' = [phase EXCEPT ![p] = "recv"]
            /\ peer' = [peer EXCEPT ![p] = IF slot[p] \in P2P THEN q ELSE First(p)]
    /\ UNCHANGED <<status, slot, updating, mismatch>>

\* Mutant: a point-to-point type is over after its first destination.
AdvanceType(p) ==
    IF peer[p] = Last(p) \/ slot[p] \in P2P
    THEN /\ slot' = [slot EXCEPT ![p] = @ + 1]
         /\ peer' = [peer EXCEPT ![p] = First(p)]
         /\ phase' = [phase EXCEPT ![p] = "select"]
    ELSE /\ peer' = [peer EXCEPT ![p] = After(p, @)]
         /\ UNCHANGED <<slot, phase>>

\* The loop goes on to the next party of the broadcast, to the next destination
\* of a point-to-point type, or to the next type.
Advance(p) ==
    IF peer[p] = Last(p)
    THEN /\ slot' = [slot EXCEPT ![p] = @ + 1]
         /\ peer' = [peer EXCEPT ![p] = First(p)]
         /\ phase' = [phase EXCEPT ![p] = "select"]
    ELSE /\ peer' = [peer EXCEPT ![p] = After(p, @)]
         /\ phase' = [phase EXCEPT ![p] = IF slot[p] \in P2P THEN "select" ELSE "recv"]
         /\ UNCHANGED slot

\* recvTSSMessage, the comparison of the types, and "go party.Update(recv_msg)".
recvTSSMessage(p) ==
    LET q == peer[p] IN
    /\ status[p] = "run" /\ phase[p] = "recv"
    /\ wire[q][p] # <<>>
    /\ wire' = [wire EXCEPT ![q][p] = Tail(@)]
    /\ IF Head(wire[q][p]) = slot[p]
       THEN /\ updating' = [updating EXCEPT ![p] = @ \cup {<<slot[p], q>>}]
            /\ Advance(p)
            /\ UNCHANGED <<status, mismatch>>
       ELSE /\ mismatch' = mismatch \cup {p}
            /\ status' = [status EXCEPT ![p] = "dead"]
            /\ UNCHANGED <<slot, phase, peer, updating>>

\* Mutant: a failed receive is tried again on the same connection.
RecvRetries(p) ==
    /\ phase[p] = "recv"
    /\ status[peer[p]] # "run"
    /\ UNCHANGED vars

\* recvTSSMessage fails: the other side has closed the connection.  When it did
\* so with something unread, the reset may overtake what it had sent.
RecvFails(p) ==
    LET q == peer[p] IN
    /\ status[p] = "run" /\ phase[p] = "recv"
    /\ status[q] # "run"
    /\ wire[q][p] = <<>> \/ wire[p][q] # <<>>
    /\ status' = [status EXCEPT ![p] = "dead"]
    /\ UNCHANGED <<slot, phase, peer, wire, updating, mismatch>>

\* One party.Update goroutine returns; they finish in any order.
Update(p) ==
    /\ status[p] = "run"
    /\ \E m \in updating[p] : updating' = [updating EXCEPT ![p] = @ \ {m}]
    /\ UNCHANGED <<status, slot, phase, peer, wire, mismatch>>

\* Mutant: the result is taken before the last exchange.
FinishEarly(p) ==
    /\ status[p] = "run" /\ phase[p] = "select"
    /\ slot[p] >= L
    /\ updating[p] = {}
    /\ status' = [status EXCEPT ![p] = "done"]
    /\ UNCHANGED <<slot, phase, peer, wire, updating, mismatch>>

\* case save := <-endCh, and comm.Close() in the caller.
Finish(p) ==
    /\ status[p] = "run" /\ phase[p] = "select"
    /\ slot[p] = L + 1
    /\ updating[p] = {}
    /\ status' = [status EXCEPT ![p] = "done"]
    /\ UNCHANGED <<slot, phase, peer, wire, updating, mismatch>>

Crash(p) ==
    /\ p \in Fragile
    /\ status[p] = "run"
    /\ status' = [status EXCEPT ![p] = "killed"]
    /\ UNCHANGED <<slot, phase, peer, wire, updating, mismatch>>

PartyLoop(p) ==
    \/ TakeMessage(p)
    \/ sendTSSMessage(p)
    \/ recvTSSMessage(p)
    \/ RecvFails(p)
    \/ Update(p)
    \/ Finish(p)

Next == \E p \in Party : PartyLoop(p) \/ Crash(p)

Spec == Init /\ [][Next]_vars

\* Every party's process runs; nothing obliges one to crash.
FairSpec == Spec /\ \A p \in Party : WF_vars(PartyLoop(p))

-----------------------------------------------------------------------------
(* Properties                                                              *)

(***************************************************************************)
(* "Message received has type %s whereas message sent has type %s" is      *)
(* never reached: whatever the interleaving, a party receives the type it  *)
(* has just sent.                                                          *)
(***************************************************************************)
TypesAgree == mismatch = {}

(***************************************************************************)
(* A connection holds at most two messages in one direction, so that a     *)
(* party's Send does not wait for the receiver when the socket buffers     *)
(* hold two messages.                                                      *)
(***************************************************************************)
AtMostTwoInFlight == \A p, q \in Party : Len(wire[p][q]) <= 2

(***************************************************************************)
(* A party that has its result has left nothing unread: closing its        *)
(* connections does not reset them under what it sent.                     *)
(***************************************************************************)
DoneHasReadAll == \A p, q \in Party : status[p] = "done" => wire[q][p] = <<>>

(***************************************************************************)
(* No party waits for ever, also when one crashes at any step: every one   *)
(* gets its result or ends in an error.                                    *)
(***************************************************************************)
AllEnd == <>(\A p \in Party : status[p] # "run")

(***************************************************************************)
(* All parties get the signature unless one is killed from outside: none   *)
(* ends in an error that began with the parties themselves, such as an     *)
(* early close or a type that does not fit.                                *)
(***************************************************************************)
NobodyStranded ==
    <>[]((\A p \in Party : status[p] # "killed") => \A p \in Party : status[p] = "done")

=============================================================================
