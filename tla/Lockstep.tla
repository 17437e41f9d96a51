------------------------------ MODULE Lockstep ------------------------------
(***************************************************************************)
(* What the message rounds of an MPC program promise, without sockets,     *)
(* tasks or threads: every party runs the same list of steps, and a party  *)
(* leaves step k only when every party it hears from in step k has entered *)
(* it.  For a commit round followed by an opening round this says that     *)
(* nobody opens before everybody is committed.                             *)
(***************************************************************************)
EXTENDS Naturals

CONSTANTS
    Party,          \* the parties of one program
    Last,           \* number of steps of the program
    Hears(_, _)     \* Hears(p, k): the parties p receives from in step k

VARIABLES
    at,             \* at[p]: the step p is in; Last + 1 when p has finished
    gone            \* the parties whose process has ended early

lockVars == <<at, gone>>

LockInit ==
    /\ at = [p \in Party |-> 0]
    /\ gone = {}

(* p leaves its step; everyone it hears from there has entered that step. *)
Advance(p) ==
    /\ p \notin gone
    /\ at[p] <= Last
    /\ \A q \in Hears(p, at[p]) : at[q] >= at[p]
    /\ at' = [at EXCEPT ![p] = @ + 1]
    /\ UNCHANGED gone

Leave(p) ==
    /\ p \notin gone
    /\ at[p] <= Last
    /\ gone' = gone \cup {p}
    /\ UNCHANGED at

LockNext == \E p \in Party : Advance(p) \/ Leave(p)

LockSpec == LockInit /\ [][LockNext]_lockVars
=============================================================================
