------------------------------ MODULE AuthGate ------------------------------
(***************************************************************************)
(* The attempt limiter around the authentication phase of handler_body     *)
(* (src/handlers/handler_util.py), for one user and one operation.         *)
(*                                                                         *)
(* Requests run concurrently: in the worker processes of one server        *)
(* (gunicorn), or in instances of a serverless function on several hosts.  *)
(* They share two objects in the cloud storage, the counter of attempts    *)
(* left and the timestamp of the last failure that used them up.  Every    *)
(* get_object and store_object is a step of its own, and a request decides *)
(* on the copies it read.                                                  *)
(***************************************************************************)
EXTENDS Integers, FiniteSets

CONSTANTS
    Worker,       \* the processes that handle requests
    Host,         \* the hosts they run on
    Uptime,       \* Uptime[h]: the value of perf_counter on h at time 0
    MAX_FAULTY_ATTEMPTS,
    LOCKOUT_PERIOD,
    Flaky,        \* may a read of the storage fail although the object is there?
    MayAbort,     \* may a request end before it has recorded its outcome?
    MaxNow,       \* bound on the time
    MaxFailures,  \* bound on the failed attempts
    None          \* no such object

ASSUME GateAssumption ==
    /\ IsFiniteSet(Host) /\ Host # {}
    /\ Uptime \in [Host -> Nat]
    /\ MAX_FAULTY_ATTEMPTS \in Nat \ {0}
    /\ LOCKOUT_PERIOD \in Nat \ {0}
    /\ Flaky \in BOOLEAN /\ MayAbort \in BOOLEAN
    /\ MaxNow \in Nat /\ MaxFailures \in Nat
    /\ None \notin Int

VARIABLES
    counter,      \* the object <op>_auth_counter
    timestamp,    \* the object <op>_auth_timestamp
    pc,           \* where each worker is in handler_body
    n,            \* handler_body: n
    lastFailed,   \* handler_body: last_failed_timestamp
    current,      \* handler_body: current_time
    host,         \* the host the request runs on
    now,          \* real time
    failures,     \* history: failed attempts since a success or an expired lock
    lost,         \* history: those that the stored objects do not account for
    failedAt      \* history: the latest time at which a failed attempt was let in

objects == <<counter, timestamp>>
locals == <<pc, n, lastFailed, current, host>>
history == <<failures, lost, failedAt>>
vars == <<objects, locals, now, history>>

Place == {"idle", "getTimestamp", "initCounter", "initTimestamp", "check",
          "auth", "storeCounter", "storeTimestamp", "reset", "operate"}

TypeOK ==
    /\ counter \in Int \cup {None}
    /\ timestamp \in Nat \cup {None}
    /\ pc \in [Worker -> Place]
    /\ n \in [Worker -> Int]
    /\ lastFailed \in [Worker -> Nat]
    /\ current \in [Worker -> Nat]
    /\ host \in [Worker -> Host]
    /\ now \in Nat
    /\ failures \in Nat
    /\ lost \in Nat
    /\ failedAt \in Nat

Init ==
    /\ counter = None
    /\ timestamp = None
    /\ pc = [w \in Worker |-> "idle"]
    /\ n = [w \in Worker |-> 0]
    /\ lastFailed = [w \in Worker |-> 0]
    /\ current = [w \in Worker |-> 0]
    /\ host \in [Worker -> Host]
    /\ now = 0
    /\ failures = 0
    /\ lost = 0
    /\ failedAt = 0

-----------------------------------------------------------------------------

perf_counter(h) == now + Uptime[h]

\* how far apart the clocks of two hosts are at most
Skew == CHOOSE d \in {Uptime[g] - Uptime[h] : g, h \in Host} :
            \A g, h \in Host : Uptime[g] - Uptime[h] <= d

Goto(w, from, to) == pc[w] = from /\ pc' = [pc EXCEPT ![w] = to]

\* Mutant: a missing counter is used as it was read.
GetCounterUnchecked(w) ==
    /\ host' \in {[host EXCEPT ![w] = h] : h \in Host}
    /\ Goto(w, "idle", "getTimestamp")
    /\ n' = [n EXCEPT ![w] = counter]
    /\ UNCHANGED <<objects, lastFailed, current, now, history>>

\* n = int(storage.get_object(...)), at the start of a request on some host.
\* A read that raises, for whatever reason, lands in the except branch.
GetCounter(w) ==
    /\ host' \in {[host EXCEPT ![w] = h] : h \in Host}
    /\ \/ /\ counter # None
          /\ Goto(w, "idle", "getTimestamp")
          /\ n' = [n EXCEPT ![w] = counter]
       \/ /\ counter = None \/ Flaky
          /\ Goto(w, "idle", "initCounter")
          /\ UNCHANGED n
    /\ UNCHANGED <<objects, lastFailed, current, now, history>>

GetTimestamp(w) ==
    /\ \/ /\ timestamp # None
          /\ Goto(w, "getTimestamp", "check")
          /\ lastFailed' = [lastFailed EXCEPT ![w] = timestamp]
       \/ /\ timestamp = None \/ Flaky
          /\ Goto(w, "getTimestamp", "initCounter")
          /\ UNCHANGED lastFailed
    /\ UNCHANGED <<objects, n, current, host, now, history>>

\* The except branch: initialise and store both objects.  After a read that
\* failed, this forgets the failures so far.
InitCounter(w) ==
    /\ Goto(w, "initCounter", "initTimestamp")
    /\ n' = [n EXCEPT ![w] = MAX_FAULTY_ATTEMPTS]
    /\ lastFailed' = [lastFailed EXCEPT ![w] = 0]
    /\ counter' = MAX_FAULTY_ATTEMPTS
    /\ lost' = IF Flaky THEN failures ELSE lost
    /\ UNCHANGED <<timestamp, current, host, now, failures, failedAt>>

InitTimestamp(w) ==
    /\ Goto(w, "initTimestamp", "check")
    /\ timestamp' = 0
    /\ UNCHANGED <<counter, n, lastFailed, current, host, now, history>>

\* Mutants: the lock sets in one attempt late; the lock does not expire.
LockedLate(w) == /\ n[w] < 0
                 /\ perf_counter(host[w]) < lastFailed[w] + LOCKOUT_PERIOD
LockedForGood(w) == n[w] <= 0

Locked(w) == /\ n[w] <= 0
             /\ perf_counter(host[w]) < lastFailed[w] + LOCKOUT_PERIOD

\* The attempt is let in.  An expired lock grants one attempt, since n is
\* still at most 0.
LetIn(w) ==
    /\ Goto(w, "check", "auth")
    /\ ~ Locked(w)
    /\ current' = [current EXCEPT ![w] = perf_counter(host[w])]
    /\ UNCHANGED <<objects, n, lastFailed, host, now>>
    /\ IF n[w] <= 0 /\ now + Skew >= failedAt + LOCKOUT_PERIOD
       THEN failures' = MAX_FAULTY_ATTEMPTS - 1 /\ lost' = 0
       ELSE UNCHANGED <<failures, lost>>
    /\ UNCHANGED failedAt

\* "Maximum faulty attempts reached, try again later", 429.
Refuse(w) ==
    /\ Goto(w, "check", "idle")
    /\ Locked(w)
    /\ UNCHANGED <<objects, n, lastFailed, current, host, now, history>>

\* auth_passcode or auth_u2f_verify_challenge says no.
AuthFails(w) ==
    /\ failures < MaxFailures
    /\ Goto(w, "auth", "storeCounter")
    /\ n' = [n EXCEPT ![w] = @ - 1]
    /\ failures' = failures + 1
    /\ failedAt' = LET letIn == current[w] - Uptime[host[w]]
                   IN  IF letIn > failedAt THEN letIn ELSE failedAt
    /\ UNCHANGED <<objects, lastFailed, current, host, now, lost>>

\* The new count is stored; only a count used up goes on to the timestamp.
StoreCounter(w) ==
    /\ Goto(w, "storeCounter", IF n[w] <= 0 THEN "storeTimestamp" ELSE "idle")
    /\ counter' = n[w]
    /\ UNCHANGED <<timestamp, n, lastFailed, current, host, now, history>>

StoreTimestamp(w) ==
    /\ Goto(w, "storeTimestamp", "idle")
    /\ timestamp' = current[w]
    /\ UNCHANGED <<counter, n, lastFailed, current, host, now, history>>

\* The authentication passes.
AuthPasses(w) ==
    /\ Goto(w, "auth", "reset")
    /\ n' = [n EXCEPT ![w] = MAX_FAULTY_ATTEMPTS]
    /\ UNCHANGED <<objects, lastFailed, current, host, now, history>>

\* The counter is set back, and the operation runs.
ResetCounter(w) ==
    /\ Goto(w, "reset", "operate")
    /\ counter' = n[w]
    /\ failures' = 0 /\ lost' = 0
    /\ UNCHANGED <<timestamp, n, lastFailed, current, host, now, failedAt>>

Respond(w) ==
    /\ Goto(w, "operate", "idle")
    /\ UNCHANGED <<objects, n, lastFailed, current, host, now, history>>

\* The request ends early: its platform stops it, or an exception (no result in
\* the output of the program that authenticates) makes it a 500.
Abort(w) ==
    /\ MayAbort
    /\ pc[w] # "idle"
    /\ pc' = [pc EXCEPT ![w] = "idle"]
    /\ lost' = IF pc[w] \in {"storeCounter", "storeTimestamp"} THEN lost + 1 ELSE lost
    /\ UNCHANGED <<objects, n, lastFailed, current, host, now, failures, failedAt>>

Tick ==
    /\ now < MaxNow
    /\ now' = now + 1
    /\ UNCHANGED <<objects, locals, history>>

handler_body(w) ==
    \/ GetCounter(w) \/ GetTimestamp(w)
    \/ InitCounter(w) \/ InitTimestamp(w)
    \/ LetIn(w) \/ Refuse(w)
    \/ AuthFails(w) \/ StoreCounter(w) \/ StoreTimestamp(w)
    \/ AuthPasses(w) \/ ResetCounter(w) \/ Respond(w)

Next == Tick \/ \E w \in Worker : handler_body(w) \/ Abort(w)

Spec == Init /\ [][Next]_vars

-----------------------------------------------------------------------------
(* Properties                                                              *)

(***************************************************************************)
(* handler_util.py:16, "maximum number of faulty attempts": since the last *)
(* success or lock, which lasts at least LOCKOUT_PERIOD less the skew of   *)
(* the hosts' clocks, at most MAX_FAULTY_ATTEMPTS attempts failed,         *)
(* not counting the requests that ended before they recorded their failure *)
(* and the failures before the counter was initialised after a failed read.*)
(* It holds of requests that come one after the other.  Requests that      *)
(* overlap decide on stale copies of the counter and break it.             *)
(***************************************************************************)
FailuresBounded == failures <= MAX_FAULTY_ATTEMPTS + lost

(***************************************************************************)
(* handler_util.py:17: the lock lasts LOCKOUT_PERIOD.  The timestamp is    *)
(* written by one host's perf_counter and compared with another's, so a    *)
(* request may be turned away later than LOCKOUT_PERIOD after the latest   *)
(* failed attempt, but by no more than the skew of the two clocks.         *)
(***************************************************************************)
RefusedOnlyWhileLocked ==
    [][\A w \in Worker : Refuse(w) => now < failedAt + LOCKOUT_PERIOD + Skew]_vars
=============================================================================
