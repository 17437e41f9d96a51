--------------------------- MODULE AuthGateProofs ---------------------------
(***************************************************************************)
(* Proofs about the attempt limiter, for any number of hosts, any uptimes, *)
(* any MAX_FAULTY_ATTEMPTS and any LOCKOUT_PERIOD.                         *)
(***************************************************************************)
EXTENDS AuthGate, FiniteSetTheorems, TLAPS

-----------------------------------------------------------------------------
(* A function on a finite set takes its largest value somewhere: a         *)
(* smallest subset without a largest value would have an element to spare. *)
LEMMA LargestValue ==
    ASSUME NEW S, IsFiniteSet(S), S # {}, NEW f \in [S -> Int]
    PROVE  \E m \in S : \A x \in S : f[x] <= f[m]
<1> DEFINE Bad == {T \in FiniteSubsetsOf(S) : T # {} /\ ~\E m \in T : \A x \in T : f[x] <= f[m]}
<1>1. SUFFICES Bad = {}
  <2>1. S \in FiniteSubsetsOf(S)
    BY DEF FiniteSubsetsOf
  <2>2. QED
    BY <1>1, <2>1
<1>2. SUFFICES ASSUME Bad # {} PROVE FALSE
  OBVIOUS
<1>3. IsWellFoundedOn(StrictSubsetOrdering(S), FiniteSubsetsOf(S))
  BY FS_StrictSubsetOrderingWellFounded
<1>4. Bad \subseteq FiniteSubsetsOf(S)
  OBVIOUS
<1>5. PICK T \in Bad : \A U \in Bad : <<U, T>> \notin StrictSubsetOrdering(S)
  <2> HIDE DEF Bad
  <2>1. QED
    BY <1>2, <1>3, <1>4, WFMin
<1>6. T \subseteq S /\ IsFiniteSet(T) /\ T # {} /\ ~\E m \in T : \A x \in T : f[x] <= f[m]
  BY DEF FiniteSubsetsOf
<1>7. PICK x \in T : TRUE
  BY <1>6
<1> DEFINE U == T \ {x}
<1>8. U \in FiniteSubsetsOf(S) /\ <<U, T>> \in StrictSubsetOrdering(S)
  <2>1. IsFiniteSet(U)
    BY <1>6, FS_RemoveElement
  <2>2. QED
    BY <1>6, <2>1 DEF FiniteSubsetsOf, StrictSubsetOrdering
<1>9. U \notin Bad
  BY <1>5, <1>8
<1>10. CASE U = {}
  <2>1. T = {x} /\ f[x] \in Int
    BY <1>6, <1>10
  <2>2. QED
    BY <1>6, <2>1
<1>11. CASE U # {}
  <2>1. PICK m \in U : \A y \in U : f[y] <= f[m]
    BY <1>8, <1>9, <1>11
  <2>2. \A y \in T : f[y] \in Int
    BY <1>6
  <2>3. CASE f[x] <= f[m]
    BY <1>6, <2>1, <2>3
  <2>4. CASE ~(f[x] <= f[m])
    <3>1. \A y \in T : f[y] <= f[x]
      BY <1>7, <2>1, <2>2, <2>4
    <3>2. QED
      BY <1>6, <1>7, <3>1
  <2>5. QED
    BY <2>3, <2>4
<1>12. QED
  BY <1>10, <1>11

(* Skew is what its comment says: two clocks are that far apart, and no    *)
(* two are further.                                                        *)
LEMMA SkewBounds ==
    /\ Skew \in Int
    /\ \A g, h \in Host : Uptime[g] - Uptime[h] <= Skew
    /\ \E g, h \in Host : Skew = Uptime[g] - Uptime[h]
<1>1. Uptime \in [Host -> Int] /\ IsFiniteSet(Host) /\ Host # {}
  BY GateAssumption
<1>2. PICK g \in Host : \A x \in Host : Uptime[x] <= Uptime[g]
  BY <1>1, LargestValue
<1>3. [x \in Host |-> 0 - Uptime[x]] \in [Host -> Int]
  BY <1>1
<1>4. PICK h \in Host : \A x \in Host : 0 - Uptime[x] <= 0 - Uptime[h]
  <2>1. \E h \in Host : \A x \in Host : [y \in Host |-> 0 - Uptime[y]][x] <= [y \in Host |-> 0 - Uptime[y]][h]
    BY <1>1, <1>3, LargestValue
  <2>2. QED
    BY <2>1
<1> DEFINE D == {Uptime[a] - Uptime[b] : a, b \in Host}
<1>5. \E d \in D : \A a, b \in Host : Uptime[a] - Uptime[b] <= d
  <2>1. Uptime[g] - Uptime[h] \in D
    OBVIOUS
  <2>2. \A a, b \in Host : Uptime[a] - Uptime[b] <= Uptime[g] - Uptime[h]
    BY <1>1, <1>2, <1>4
  <2>3. QED
    BY <2>1, <2>2
<1>6. Skew \in D /\ \A a, b \in Host : Uptime[a] - Uptime[b] <= Skew
  BY <1>5 DEF Skew
<1>7. QED
  BY <1>1, <1>6

-----------------------------------------------------------------------------
(* Types                                                                   *)

(* The initial values have their types.                                    *)
LEMMA InitType == Init => TypeOK
BY GateAssumption DEF Init, TypeOK, Place

(* Every step of handler_body keeps the types: a missing counter never     *)
(* becomes n, and a time at which a request was let in is no negative      *)
(* number if it becomes failedAt.                                          *)
LEMMA TypeStep == TypeOK /\ [Next]_vars => TypeOK'
<1> SUFFICES ASSUME TypeOK, [Next]_vars PROVE TypeOK'
  OBVIOUS
<1> USE GateAssumption DEF TypeOK, Place, Goto, objects, locals, history
<1>1. ASSUME NEW w \in Worker, GetCounter(w) PROVE TypeOK'
  BY <1>1 DEF GetCounter
<1>2. ASSUME NEW w \in Worker, GetTimestamp(w) PROVE TypeOK'
  BY <1>2 DEF GetTimestamp
<1>3. ASSUME NEW w \in Worker, InitCounter(w) \/ InitTimestamp(w) PROVE TypeOK'
  BY <1>3 DEF InitCounter, InitTimestamp
<1>4. ASSUME NEW w \in Worker, LetIn(w) \/ Refuse(w) PROVE TypeOK'
  BY <1>4 DEF LetIn, Refuse, perf_counter
<1>5. ASSUME NEW w \in Worker, AuthFails(w) PROVE TypeOK'
  <2>1. current[w] - Uptime[host[w]] \in Int
    OBVIOUS
  <2>2. failedAt' \in Nat
    BY <1>5, <2>1 DEF AuthFails
  <2>3. QED
    BY <1>5, <2>2 DEF AuthFails
<1>6. ASSUME NEW w \in Worker, StoreCounter(w) \/ StoreTimestamp(w) PROVE TypeOK'
  BY <1>6 DEF StoreCounter, StoreTimestamp
<1>7. ASSUME NEW w \in Worker, AuthPasses(w) \/ ResetCounter(w) \/ Respond(w) PROVE TypeOK'
  BY <1>7 DEF AuthPasses, ResetCounter, Respond
<1>8. ASSUME NEW w \in Worker, Abort(w) PROVE TypeOK'
  BY <1>8 DEF Abort
<1>9. CASE Tick
  BY <1>9 DEF Tick
<1>10. CASE UNCHANGED vars
  BY <1>10 DEF vars
<1>11. QED
  BY <1>1, <1>2, <1>3, <1>4, <1>5, <1>6, <1>7, <1>8, <1>9, <1>10 DEF Next, handler_body

(***************************************************************************)
(* Whatever handler_body reads from the storage, in whatever order its     *)
(* workers run, a number is where the code computes with one.              *)
(***************************************************************************)
THEOREM TypeCorrect == Spec => []TypeOK
<1>1. QED
  BY InitType, TypeStep, PTL DEF Spec

-----------------------------------------------------------------------------
(* How long a request can be turned away                                   *)

\* t is no later than some host's clock at the time at.
Past(t, at) == \E h \in Host : t <= at + Uptime[h]

\* Stored and copied timestamps are readings of that kind.
StampInv ==
    /\ timestamp # None => Past(timestamp, failedAt)
    /\ \A w \in Worker : Past(lastFailed[w], failedAt)
    /\ \A w \in Worker : pc[w] \in {"storeCounter", "storeTimestamp"} =>
          current[w] <= failedAt + Uptime[host[w]]

LockInv == TypeOK /\ StampInv

(* failedAt only grows, so a past reading stays one.                       *)
LEMMA PastStays ==
    ASSUME TypeOK, TypeOK', failedAt <= failedAt', NEW t \in Nat, Past(t, failedAt)
    PROVE  Past(t, failedAt')
BY GateAssumption DEF Past, TypeOK

(* Every step keeps the invariant of the timestamps.                       *)
LEMMA LockStep == LockInv /\ [Next]_vars => LockInv'
<1> SUFFICES ASSUME LockInv, [Next]_vars PROVE StampInv'
  BY TypeStep DEF LockInv
<1> USE DEF objects, locals, history
<1>1. TypeOK /\ TypeOK' /\ StampInv
  BY TypeStep DEF LockInv
<1>2. failedAt <= failedAt'
  <2>1. ASSUME NEW w \in Worker, AuthFails(w) PROVE failedAt <= failedAt'
    <3>1. current[w] - Uptime[host[w]] \in Int /\ failedAt \in Int
      BY <1>1, GateAssumption DEF TypeOK
    <3>2. QED
      BY <2>1, <3>1 DEF AuthFails
  <2>2. CASE UNCHANGED failedAt
    BY <1>1, <2>2 DEF TypeOK
  <2>3. QED
    BY <2>1, <2>2 DEF Next, handler_body, Tick, Abort, GetCounter, GetTimestamp, InitCounter,
       InitTimestamp, LetIn, Refuse, StoreCounter, StoreTimestamp, AuthPasses, ResetCounter,
       Respond, vars
<1>3. \A t \in Nat : Past(t, failedAt) => Past(t, failedAt')
  BY <1>1, <1>2, PastStays
<1>4. Past(0, failedAt')
  BY <1>1, GateAssumption DEF Past, TypeOK
<1>5. timestamp' # None => Past(timestamp', failedAt')
  <2>1. ASSUME NEW w \in Worker, StoreTimestamp(w) PROVE Past(timestamp', failedAt')
    BY <1>1, <2>1 DEF StoreTimestamp, Goto, StampInv, Past, TypeOK
  <2>2. ASSUME NEW w \in Worker, InitTimestamp(w) PROVE Past(timestamp', failedAt')
    BY <1>4, <2>2 DEF InitTimestamp
  <2>3. CASE UNCHANGED timestamp
    BY <1>1, <1>3, <2>3 DEF StampInv, TypeOK
  <2>4. QED
    BY <2>1, <2>2, <2>3 DEF Next, handler_body, Tick, Abort, GetCounter, GetTimestamp,
       InitCounter, LetIn, Refuse, AuthFails, StoreCounter, AuthPasses, ResetCounter,
       Respond, vars
<1>6. \A w \in Worker : Past(lastFailed'[w], failedAt')
  <2>1. ASSUME NEW w \in Worker, GetTimestamp(w) \/ InitCounter(w), NEW v \in Worker
        PROVE  Past(lastFailed'[v], failedAt')
    <3>1. lastFailed'[v] \in {lastFailed[v], 0} \/ (lastFailed'[v] = timestamp /\ timestamp # None)
      BY <1>1, <2>1 DEF GetTimestamp, InitCounter, TypeOK
    <3>2. QED
      BY <1>1, <1>3, <1>4, <3>1 DEF StampInv, TypeOK
  <2>2. CASE UNCHANGED lastFailed
    BY <1>1, <1>3, <2>2 DEF StampInv, TypeOK
  <2>3. QED
    BY <2>1, <2>2 DEF Next, handler_body, Tick, Abort, GetCounter, InitTimestamp, LetIn,
       Refuse, AuthFails, StoreCounter, StoreTimestamp, AuthPasses, ResetCounter, Respond, vars
<1>7. \A w \in Worker : pc'[w] \in {"storeCounter", "storeTimestamp"} =>
          current'[w] <= failedAt' + Uptime[host'[w]]
  <2> SUFFICES ASSUME NEW w \in Worker, pc'[w] \in {"storeCounter", "storeTimestamp"}
               PROVE  current'[w] <= failedAt' + Uptime[host'[w]]
    OBVIOUS
  <2>1. ASSUME NEW v \in Worker, AuthFails(v)
        PROVE  current'[w] <= failedAt' + Uptime[host'[w]]
    <3>1. Uptime[host[w]] \in Int /\ current[w] \in Int /\ failedAt \in Int /\ failedAt' \in Int
      BY <1>1, GateAssumption DEF TypeOK
    <3>2. CASE v = w
      BY <2>1, <3>1, <3>2 DEF AuthFails
    <3>3. CASE v # w
      BY <1>1, <1>2, <2>1, <3>1, <3>3 DEF AuthFails, Goto, StampInv, TypeOK
    <3>4. QED
      BY <3>2, <3>3
  <2>2. ASSUME NEW v \in Worker, GetCounter(v) \/ LetIn(v)
        PROVE  current'[w] <= failedAt' + Uptime[host'[w]]
    <3>1. v # w /\ pc'[w] = pc[w] /\ current'[w] = current[w] /\ host'[w] = host[w] /\ UNCHANGED failedAt
      BY <1>1, <2>2 DEF GetCounter, LetIn, Goto, TypeOK
    <3>2. QED
      BY <1>1, <3>1 DEF StampInv
  <2>3. CASE /\ UNCHANGED <<current, host, failedAt>>
             /\ pc'[w] \in {"storeCounter", "storeTimestamp"} =>
                   pc[w] \in {"storeCounter", "storeTimestamp"}
    BY <1>1, <2>3 DEF StampInv
  <2>4. ASSUME NEW v \in Worker, handler_body(v) \/ Abort(v), ~AuthFails(v), ~GetCounter(v), ~LetIn(v)
        PROVE  /\ UNCHANGED <<current, host, failedAt>>
               /\ pc'[w] \in {"storeCounter", "storeTimestamp"} =>
                     pc[w] \in {"storeCounter", "storeTimestamp"}
    BY <1>1, <2>4 DEF handler_body, Abort, GetTimestamp, InitCounter, InitTimestamp, Refuse,
       StoreCounter, StoreTimestamp, AuthPasses, ResetCounter, Respond, Goto, TypeOK
  <2>5. QED
    BY <2>1, <2>2, <2>3, <2>4 DEF Next, Tick, vars
<1>8. QED
  BY <1>5, <1>6, <1>7 DEF StampInv

(* The invariant of the timestamps holds of every behaviour.               *)
THEOREM LockInvariant == Spec => []LockInv
<1>1. Init => LockInv
  <2> SUFFICES ASSUME Init PROVE LockInv
    OBVIOUS
  <2>1. TypeOK
    BY InitType
  <2>2. Past(0, failedAt)
    BY <2>1, GateAssumption DEF Past, TypeOK
  <2>3. QED
    BY <2>1, <2>2 DEF LockInv, StampInv, Init
<1>2. QED
  BY <1>1, LockStep, PTL DEF Spec

(***************************************************************************)
(* handler_body's 429 is given only while LOCKOUT_PERIOD after the latest  *)
(* failed attempt has not passed, up to the skew of the hosts' clocks, for *)
(* any number of workers and hosts, overlapping requests, failing reads    *)
(* and requests that end early.                                            *)
(***************************************************************************)
THEOREM RefusedOnlyWhileLockedHolds == Spec => RefusedOnlyWhileLocked
<1>1. LockInv /\ [Next]_vars =>
      [\A w \in Worker : Refuse(w) => now < failedAt + LOCKOUT_PERIOD + Skew]_vars
  <2> SUFFICES ASSUME LockInv, NEW w \in Worker, Refuse(w)
               PROVE  now < failedAt + LOCKOUT_PERIOD + Skew
    OBVIOUS
  <2>1. PICK h \in Host : lastFailed[w] <= failedAt + Uptime[h]
    BY DEF LockInv, StampInv, Past
  <2>2. now + Uptime[host[w]] < lastFailed[w] + LOCKOUT_PERIOD
    BY DEF Refuse, Locked, perf_counter
  <2>3. Uptime[h] - Uptime[host[w]] <= Skew /\ Skew \in Int
    BY SkewBounds DEF LockInv, TypeOK
  <2>4. /\ now \in Int /\ lastFailed[w] \in Int /\ failedAt \in Int /\ LOCKOUT_PERIOD \in Int
        /\ Uptime[h] \in Int /\ Uptime[host[w]] \in Int
    BY GateAssumption DEF LockInv, TypeOK
  <2>5. QED
    BY <2>1, <2>2, <2>3, <2>4
<1>2. QED
  BY <1>1, LockInvariant, PTL DEF Spec, RefusedOnlyWhileLocked

-----------------------------------------------------------------------------
(* How many attempts can fail when requests do not overlap                 *)

\* One more failure is allowed for.
Slack == failures < MAX_FAULTY_ATTEMPTS + lost

\* What the stored objects say between two attempts: a counter above 0 has
\* counted the failures; one that is used up leaves room for a failure, or its
\* timestamp is of the latest failed attempt.
Settled ==
    counter # None =>
        /\ counter > 0 => failures + counter <= MAX_FAULTY_ATTEMPTS + lost
        /\ counter <= 0 =>
              \/ Slack
              \/ /\ failures <= MAX_FAULTY_ATTEMPTS + lost
                 /\ \E h \in Host : timestamp = failedAt + Uptime[h]

\* The time at which the request of w was let in.
LetInAt(w) == current[w] - Uptime[host[w]]

CountInv ==
    /\ failedAt <= now
    /\ counter = None => timestamp = None
    /\ timestamp = None => failures = 0
    /\ \A w \in Worker :
          /\ pc[w] \notin {"storeCounter", "storeTimestamp"} => Settled
          /\ pc[w] = "initCounter" /\ ~Flaky => failures = 0
          /\ pc[w] \in {"getTimestamp", "initTimestamp", "check", "auth"} => counter = n[w]
          /\ pc[w] = "initTimestamp" => n[w] = MAX_FAULTY_ATTEMPTS /\ lastFailed[w] = 0
          /\ pc[w] = "check" => timestamp = lastFailed[w]
          /\ pc[w] = "auth" =>
                /\ timestamp # None
                /\ n[w] <= 0 => Slack
                /\ failedAt <= LetInAt(w) /\ LetInAt(w) <= now
          /\ pc[w] = "storeCounter" =>
                /\ timestamp # None
                /\ counter = n[w] + 1
                /\ n[w] >= 0 => failures + n[w] <= MAX_FAULTY_ATTEMPTS + lost
                /\ n[w] < 0 => failures <= MAX_FAULTY_ATTEMPTS + lost
                /\ LetInAt(w) = failedAt
          /\ pc[w] = "storeTimestamp" =>
                /\ counter = n[w] /\ n[w] <= 0
                /\ failures <= MAX_FAULTY_ATTEMPTS + lost
                /\ LetInAt(w) = failedAt
          /\ pc[w] = "reset" => n[w] = MAX_FAULTY_ATTEMPTS

BoundInv == TypeOK /\ CountInv

(* When requests do not overlap, every step of the one under way keeps the *)
(* count.                                                                  *)
LEMMA CountStep ==
    ASSUME NEW w \in Worker, \A v \in Worker : v = w, BoundInv, [Next]_vars
    PROVE  CountInv'
<1> USE DEF objects, locals, history
<1>1. TypeOK /\ TypeOK' /\ CountInv
  BY TypeStep DEF BoundInv
<1>2. /\ now \in Int /\ failedAt \in Int /\ failures \in Nat /\ lost \in Nat
      /\ n[w] \in Int /\ current[w] \in Int /\ lastFailed[w] \in Int
      /\ Uptime[host[w]] \in Int /\ host[w] \in Host
      /\ MAX_FAULTY_ATTEMPTS \in Int /\ MAX_FAULTY_ATTEMPTS > 0
      /\ LOCKOUT_PERIOD \in Int /\ None \notin Int
  BY <1>1, GateAssumption DEF TypeOK
<1>3. \A p, q : Goto(w, p, q) => pc[w] = p /\ pc'[w] = q
  BY <1>1 DEF Goto, TypeOK
<1>4. CASE GetCounter(w)
  BY <1>1, <1>2, <1>3, <1>4 DEF GetCounter, CountInv, Settled, Slack, LetInAt, TypeOK
<1>5. CASE GetTimestamp(w)
  BY <1>1, <1>2, <1>3, <1>5 DEF GetTimestamp, CountInv, Settled, Slack, LetInAt, TypeOK
<1>6. CASE InitCounter(w)
  BY <1>1, <1>2, <1>3, <1>6 DEF InitCounter, CountInv, Settled, Slack, LetInAt, TypeOK
<1>7. CASE InitTimestamp(w)
  BY <1>1, <1>2, <1>3, <1>7 DEF InitTimestamp, CountInv, Settled, Slack, LetInAt, TypeOK
<1>8. CASE Refuse(w)
  BY <1>1, <1>2, <1>3, <1>8 DEF Refuse, CountInv, Settled, Slack, LetInAt, TypeOK
<1>9. CASE StoreCounter(w)
  BY <1>1, <1>2, <1>3, <1>9 DEF StoreCounter, CountInv, Settled, Slack, LetInAt, TypeOK
<1>10. CASE StoreTimestamp(w)
  BY <1>1, <1>2, <1>3, <1>10 DEF StoreTimestamp, CountInv, Settled, Slack, LetInAt, TypeOK
<1>11. CASE AuthPasses(w)
  BY <1>1, <1>2, <1>3, <1>11 DEF AuthPasses, CountInv, Settled, Slack, LetInAt, TypeOK
<1>12. CASE ResetCounter(w)
  BY <1>1, <1>2, <1>3, <1>12 DEF ResetCounter, CountInv, Settled, Slack, LetInAt, TypeOK
<1>13. CASE Respond(w)
  BY <1>1, <1>2, <1>3, <1>13 DEF Respond, CountInv, Settled, Slack, LetInAt, TypeOK
<1>14. CASE LetIn(w)
  <2>1. pc[w] = "check" /\ pc'[w] = "auth"
    BY <1>3, <1>14 DEF LetIn
  <2>2. /\ counter = n[w] /\ timestamp = lastFailed[w] /\ Settled
        /\ UNCHANGED <<objects, n, lastFailed, host, now, failedAt>>
    BY <1>1, <1>14, <2>1 DEF LetIn, CountInv
  <2>3. current'[w] = now + Uptime[host[w]]
    BY <1>1, <1>14 DEF LetIn, perf_counter, TypeOK
  <2>4. LetInAt(w)' = now
    BY <1>2, <2>2, <2>3 DEF LetInAt
  <2>5. CASE n[w] <= 0 /\ now + Skew >= failedAt + LOCKOUT_PERIOD
    <3>1. failures' = MAX_FAULTY_ATTEMPTS - 1 /\ lost' = 0
      BY <1>14, <2>5 DEF LetIn
    <3>2. Slack'
      BY <1>2, <3>1 DEF Slack
    <3>3. QED
      BY <1>1, <1>2, <2>1, <2>2, <2>4, <2>5, <3>1, <3>2 DEF CountInv, Settled, TypeOK
  <2>6. CASE ~(n[w] <= 0 /\ now + Skew >= failedAt + LOCKOUT_PERIOD)
    <3>1. UNCHANGED <<failures, lost>>
      BY <1>14, <2>6 DEF LetIn
    <3>2. ASSUME n[w] <= 0, ~Slack PROVE FALSE
      <4>1. PICK h \in Host : timestamp = failedAt + Uptime[h]
        BY <1>2, <2>2, <3>2 DEF Settled
      <4>2. ~(now + Uptime[host[w]] < lastFailed[w] + LOCKOUT_PERIOD)
        BY <1>14, <3>2 DEF LetIn, Locked, perf_counter
      <4>3. Uptime[host[w]] - Uptime[h] <= Skew /\ Skew \in Int /\ Uptime[h] \in Int
        BY <1>2, SkewBounds, GateAssumption
      <4>4. QED
        BY <1>2, <2>2, <2>6, <3>2, <4>1, <4>2, <4>3
    <3>3. Settled' /\ (n[w] <= 0 => Slack')
      BY <2>2, <3>1, <3>2 DEF Settled, Slack
    <3>4. QED
      BY <1>1, <1>2, <2>1, <2>2, <2>4, <3>1, <3>3 DEF CountInv, TypeOK
  <2>7. QED
    BY <2>5, <2>6
<1>15. CASE AuthFails(w)
  <2>1. pc[w] = "auth" /\ pc'[w] = "storeCounter"
    BY <1>3, <1>15 DEF AuthFails
  <2>2. /\ n'[w] = n[w] - 1 /\ failures' = failures + 1
        /\ UNCHANGED <<objects, current, host, now, lost>>
    BY <1>1, <1>15 DEF AuthFails, TypeOK
  <2>3. LetInAt(w) \in Int /\ LetInAt(w)' = LetInAt(w)
    BY <1>2, <2>2 DEF LetInAt
  <2>4. failedAt' = LetInAt(w)
    BY <1>1, <1>2, <1>15, <2>1, <2>3 DEF AuthFails, LetInAt, CountInv
  <2>5. QED
    BY <1>1, <1>2, <2>1, <2>2, <2>3, <2>4 DEF CountInv, Settled, Slack, TypeOK
<1>16. CASE Abort(w)
  <2>1. pc'[w] = "idle" /\ UNCHANGED <<objects, failures, failedAt, now>>
    BY <1>1, <1>16 DEF Abort, TypeOK
  <2>2. CASE pc[w] \in {"storeCounter", "storeTimestamp"}
    <3>1. lost' = lost + 1
      BY <1>16, <2>2 DEF Abort
    <3>2. QED
      BY <1>1, <1>2, <2>1, <2>2, <3>1 DEF CountInv, Settled, Slack, TypeOK
  <2>3. CASE pc[w] \notin {"storeCounter", "storeTimestamp"}
    <3>1. lost' = lost
      BY <1>16, <2>3 DEF Abort
    <3>2. QED
      BY <1>1, <1>2, <2>1, <2>3, <3>1 DEF CountInv, Settled, Slack, TypeOK
  <2>4. QED
    BY <2>2, <2>3
<1>17. CASE Tick
  BY <1>1, <1>2, <1>17 DEF Tick, CountInv, Settled, Slack, LetInAt
<1>18. CASE UNCHANGED vars
  BY <1>1, <1>18 DEF vars, CountInv, Settled, Slack, LetInAt
<1>19. QED
  BY <1>4, <1>5, <1>6, <1>7, <1>8, <1>9, <1>10, <1>11,
     <1>12, <1>13, <1>14, <1>15, <1>16, <1>17, <1>18 DEF Next, handler_body

(***************************************************************************)
(* handler_util.py:16: with one worker, that is one request at a time,      *)
(* since a success or a lock at most MAX_FAULTY_ATTEMPTS attempts fail and *)
(* are recorded, whatever hosts the requests run on, whichever reads fail  *)
(* and whichever requests end early.                                       *)
(***************************************************************************)
THEOREM FailuresBoundedHolds ==
    ASSUME NEW w, Worker = {w}
    PROVE  Spec => []FailuresBounded
<1>1. Init => BoundInv
  BY InitType, GateAssumption DEF Init, BoundInv, CountInv, Settled
<1>2. BoundInv /\ [Next]_vars => BoundInv'
  BY CountStep, TypeStep DEF BoundInv
<1>3. BoundInv => FailuresBounded
  BY GateAssumption DEF BoundInv, CountInv, Settled, Slack, FailuresBounded, TypeOK, Place
<1>4. QED
  BY <1>1, <1>2, <1>3, PTL DEF Spec
=============================================================================
