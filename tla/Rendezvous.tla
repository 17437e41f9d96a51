----------------------------- MODULE Rendezvous -----------------------------
(***************************************************************************)
(* What the relay promises to the programs that use it: connections arrive *)
(* and wait, two that ask for each other are given a session, a connection *)
(* has at most one session in its life, and any of them may leave.  Relay  *)
(* implements this, and MeshSetup is built on it.                          *)
(***************************************************************************)
CONSTANTS
    Conn,            \* the connections
    Mirrored(_, _)   \* do two connections ask for each other?

VARIABLES
    asked,  \* the connections that have arrived
    met,    \* the sessions there have been, each a set of two connections
    left    \* the connections whose client has gone

rvars == <<asked, met, left>>

RInit == asked = {} /\ met = {} /\ left = {}

Waiting(c) == c \in asked \ (left \cup UNION met)

Arrive(c) ==
    /\ c \notin asked
    /\ asked' = asked \cup {c}
    /\ UNCHANGED <<met, left>>

Meet(c, d) ==
    /\ c # d /\ Mirrored(c, d)
    /\ Waiting(c) /\ Waiting(d)
    /\ met' = met \cup {{c, d}}
    /\ UNCHANGED <<asked, left>>

\* the connections S leave, all that one process held
Leave(S) ==
    /\ S # {} /\ S \subseteq asked \ left
    /\ left' = left \cup S
    /\ UNCHANGED <<asked, met>>

RNext ==
    \/ \E c \in Conn : Arrive(c)
    \/ \E c, d \in Conn : Meet(c, d)
    \/ Leave(left' \ left)

RSpec == RInit /\ [][RNext]_rvars
=============================================================================
