--------------------------- MODULE AgRoundsProofs ---------------------------
(***************************************************************************)
(* Proofs about AgRounds, for every number of parties, pool size, socket   *)
(* capacity and set of kills.  First the program itself: in every step the *)
(* tasks of a party use different SSL objects, and of every channel the    *)
(* sender's step writes as many messages as the reader's step reads        *)
(* (ProgramAligned).  Then the runs: of each step a channel holds what was *)
(* sent and not yet received (RoundsInv), from which the properties and    *)
(* the refinement of Lockstep follow.                                      *)
(***************************************************************************)
EXTENDS AgRounds, Integers, FiniteSetTheorems, SequenceTheorems, TLAPS

-----------------------------------------------------------------------------
(* Counting: where a sequence holds a value, and where a list of tasks
   holds an operation.                                                     *)

Hits(s, v) == {i \in 1..Len(s) : s[i] = v}
Count(s, v) == Cardinality(Hits(s, v))

Has(s, v) == \E i \in 1..Len(s) : s[i] = v

\* At most one of the tasks has op, and Todo is how often it has it.
Apart(tasks, op) ==
    \A j, k \in 1..Len(tasks) : Has(tasks[j], op) /\ Has(tasks[k], op) => j = k
Todo(tasks, op) ==
    IF \E k \in 1..Len(tasks) : Has(tasks[k], op)
    THEN Count(tasks[CHOOSE k \in 1..Len(tasks) : Has(tasks[k], op)], op)
    ELSE 0

(* Sets in one-to-one correspondence are of one size.                      *)
LEMMA SameSize ==
    ASSUME NEW S, NEW T, IsFiniteSet(S), NEW f \in [S -> T],
           \A x, y \in S : f[x] = f[y] => x = y,
           \A y \in T : \E x \in S : f[x] = y
    PROVE  IsFiniteSet(T) /\ Cardinality(T) = Cardinality(S)
<1>1. f \in Bijection(S, T)
  BY DEF Bijection, Injection, Surjection, IsInjective
<1>2. ExistsBijection(S, T)
  BY <1>1 DEF ExistsBijection
<1>3. QED
  BY <1>2, FS_Bijection

(* The positions of a value in a sequence are finitely many.               *)
LEMMA HitsFinite ==
    ASSUME NEW S, NEW s \in Seq(S), NEW v
    PROVE  IsFiniteSet(Hits(s, v)) /\ Count(s, v) \in Nat
<1>1. IsFiniteSet(1..Len(s))
  BY FS_Interval
<1>2. Hits(s, v) \in SUBSET (1..Len(s))
  BY DEF Hits
<1>3. IsFiniteSet(Hits(s, v))
  BY <1>1, <1>2, FS_Subset
<1>4. QED
  BY <1>3, FS_CardinalityType DEF Count

(* An empty sequence holds nothing.                                        *)
LEMMA CountEmpty == ASSUME NEW v PROVE Count(<<>>, v) = 0
<1>1. Hits(<<>>, v) = {}
  BY DEF Hits
<1>2. QED
  BY <1>1, FS_EmptySet DEF Count

(* Writing a message adds one to its count.                                *)
LEMMA CountAppend ==
    ASSUME NEW S, NEW s \in Seq(S), NEW x \in S, NEW v
    PROVE  Count(Append(s, x), v) = Count(s, v) + (IF x = v THEN 1 ELSE 0)
<1> DEFINE n == Len(s) + 1
<1>1. IsFiniteSet(Hits(s, v)) /\ Count(s, v) \in Nat
  BY HitsFinite
<1>2. n \notin Hits(s, v)
  BY DEF Hits
<1>3. CASE x = v
  <2>1. Hits(Append(s, x), v) = Hits(s, v) \cup {n}
    BY <1>3 DEF Hits
  <2>2. QED
    BY <1>1, <1>2, <1>3, <2>1, FS_AddElement DEF Count
<1>4. CASE x # v
  <2>1. Hits(Append(s, x), v) = Hits(s, v)
    BY <1>4 DEF Hits
  <2>2. QED
    BY <1>1, <1>4, <2>1 DEF Count
<1>5. QED
  BY <1>3, <1>4

(* Reading takes one from the count of the oldest message.                 *)
LEMMA CountTail ==
    ASSUME NEW S, NEW s \in Seq(S), s # <<>>, NEW v
    PROVE  Count(s, v) = Count(Tail(s), v) + (IF Head(s) = v THEN 1 ELSE 0)
<1> DEFINE A == Hits(Tail(s), v)
           B == Hits(s, v) \ {1}
           f == [i \in A |-> i + 1]
<1>0. Tail(s) \in Seq(S)
  OBVIOUS
<1>1. IsFiniteSet(A) /\ Count(Tail(s), v) \in Nat
  BY <1>0, HitsFinite
<1>2. IsFiniteSet(Hits(s, v)) /\ Count(s, v) \in Nat
  BY HitsFinite
<1>3. IsFiniteSet(B) /\ Cardinality(B) = Cardinality(A)
  <2>1. f \in [A -> B]
    BY DEF Hits
  <2>2. \A x, y \in A : f[x] = f[y] => x = y
    BY DEF Hits
  <2>3. \A y \in B : \E x \in A : f[x] = y
    <3> SUFFICES ASSUME NEW y \in B PROVE y - 1 \in A /\ f[y - 1] = y
      OBVIOUS
    <3>1. QED
      BY DEF Hits
  <2>4. QED
    <3> HIDE DEF A, B, f
    <3> QED
      BY <1>1, <2>1, <2>2, <2>3, SameSize
<1>4. Head(s) = v <=> 1 \in Hits(s, v)
  BY DEF Hits
<1>5. QED
  BY <1>2, <1>3, <1>4, FS_RemoveElement DEF Count

\* Whether one operation is op, as a number.
Hit(a, op) == IF a = op THEN 1 ELSE 0

(* How often a task of one operation has a given one.                      *)
LEMMA CountOne ==
    ASSUME NEW a, NEW s, s = <<a>>, NEW v
    PROVE  Count(s, v) = Hit(a, v)
<1>1. Hits(s, v) = IF a = v THEN {1} ELSE {}
  BY DEF Hits
<1>2. QED
  BY <1>1, FS_EmptySet, FS_Singleton DEF Count, Hit

(* Likewise for a task of two operations.                                  *)
LEMMA CountTwo ==
    ASSUME NEW a, NEW b, NEW s, s = <<a, b>>, NEW v
    PROVE  Count(s, v) = Hit(a, v) + Hit(b, v)
<1> DEFINE r == <<a>>
<1>1. r \in Seq({a, b}) /\ s = Append(r, b) /\ b \in {a, b}
  OBVIOUS
<1>2. Count(r, v) = Hit(a, v)
  BY CountOne
<1> HIDE DEF r
<1>3. Count(Append(r, b), v) = Count(r, v) + (IF b = v THEN 1 ELSE 0)
  BY <1>1, CountAppend
<1>4. QED
  BY <1>1, <1>2, <1>3 DEF Hit

(* Likewise for a task of three operations.                                *)
LEMMA CountThree ==
    ASSUME NEW a, NEW b, NEW c, NEW s, s = <<a, b, c>>, NEW v
    PROVE  Count(s, v) = Hit(a, v) + Hit(b, v) + Hit(c, v)
<1> DEFINE r == <<a, b>>
<1>1. r \in Seq({a, b, c}) /\ s = Append(r, c) /\ c \in {a, b, c}
  OBVIOUS
<1>2. Count(r, v) = Hit(a, v) + Hit(b, v)
  BY CountTwo
<1> HIDE DEF r
<1>3. Count(Append(r, c), v) = Count(r, v) + (IF c = v THEN 1 ELSE 0)
  BY <1>1, CountAppend
<1>4. QED
  BY <1>1, <1>2, <1>3 DEF Hit

(* A sequence has a value iff its count there is not zero.                 *)
LEMMA HasCount ==
    ASSUME NEW S, NEW s \in Seq(S), NEW v
    PROVE  Count(s, v) \in Nat /\ (Has(s, v) <=> Count(s, v) # 0)
<1>1. IsFiniteSet(Hits(s, v)) /\ Count(s, v) \in Nat
  BY HitsFinite
<1>2. Has(s, v) <=> Hits(s, v) # {}
  BY DEF Has, Hits
<1>3. QED
  BY <1>1, <1>2, FS_EmptySet DEF Count

(* Todo counts the operations of the one task that has any.                *)
LEMMA TodoAt ==
    ASSUME NEW tasks, NEW op, Apart(tasks, op),
           NEW k \in 1..Len(tasks), Has(tasks[k], op)
    PROVE  Todo(tasks, op) = Count(tasks[k], op)
<1>1. k = CHOOSE j \in 1..Len(tasks) : Has(tasks[j], op)
  BY DEF Apart
<1>2. QED
  BY <1>1 DEF Todo

(* An operation no task has is not to be done.                             *)
LEMMA TodoNone ==
    ASSUME NEW tasks, NEW op, \A k \in 1..Len(tasks) : ~ Has(tasks[k], op)
    PROVE  Todo(tasks, op) = 0 /\ Apart(tasks, op)
BY DEF Todo, Apart

(* What is left to do is a number.                                         *)
LEMMA TodoNat ==
    ASSUME NEW S, NEW tasks \in Seq(Seq(S)), NEW op, Apart(tasks, op)
    PROVE  Todo(tasks, op) \in Nat
<1>1. CASE \E k \in 1..Len(tasks) : Has(tasks[k], op)
  <2>1. PICK k \in 1..Len(tasks) : Has(tasks[k], op)
    BY <1>1
  <2>2. tasks[k] \in Seq(S)
    OBVIOUS
  <2>3. QED
    BY <2>1, <2>2, TodoAt, HasCount
<1>2. CASE ~ \E k \in 1..Len(tasks) : Has(tasks[k], op)
  BY <1>2, TodoNone
<1>3. QED
  BY <1>1, <1>2

(* A list of one task has what the task has.                               *)
LEMMA TodoOne ==
    ASSUME NEW S, NEW s \in Seq(S), NEW op
    PROVE  Todo(<<s>>, op) = Count(s, op) /\ Apart(<<s>>, op)
<1> DEFINE t == <<s>>
<1>1. Len(t) = 1 /\ t[1] = s
  OBVIOUS
<1> HIDE DEF t
<1>2. Apart(t, op)
  BY <1>1 DEF Apart
<1>3. CASE Has(s, op)
  <2>1. Todo(t, op) = Count(t[1], op)
    BY <1>1, <1>2, <1>3, TodoAt
  <2>2. QED
    BY <1>1, <1>2, <2>1 DEF t
<1>4. CASE ~ Has(s, op)
  <2>1. \A k \in 1..Len(t) : ~ Has(t[k], op)
    BY <1>1, <1>4
  <2>2. Todo(t, op) = 0
    BY <2>1, TodoNone
  <2>3. Count(s, op) = 0
    BY <1>4, HasCount
  <2>4. QED
    BY <1>2, <2>2, <2>3 DEF t
<1>5. QED
  BY <1>3, <1>4

(* What is left of a list of tasks, task by task.                          *)
LEMMA RestLong ==
    ASSUME NEW S, NEW tasks \in Seq(Seq(S)), NEW k \in 1..Len(tasks), Len(tasks[k]) > 1
    PROVE  /\ Rest(tasks, k) \in Seq(Seq(S))
           /\ Len(Rest(tasks, k)) = Len(tasks)
           /\ \A j \in 1..Len(tasks) :
                 Rest(tasks, k)[j] = IF j = k THEN Tail(tasks[k]) ELSE tasks[j]
<1>1. Tail(tasks[k]) \in Seq(S)
  OBVIOUS
<1>2. Rest(tasks, k) = [tasks EXCEPT ![k] = Tail(tasks[k])]
  BY DEF Rest
<1>3. QED
  BY <1>1, <1>2

(* A task that performs its last operation leaves the list.                *)
LEMMA RestShort ==
    ASSUME NEW S, NEW tasks \in Seq(Seq(S)), NEW k \in 1..Len(tasks), Len(tasks[k]) = 1
    PROVE  /\ Rest(tasks, k) \in Seq(Seq(S))
           /\ Len(Rest(tasks, k)) = Len(tasks) - 1
           /\ \A j \in 1..(Len(tasks) - 1) :
                 Rest(tasks, k)[j] = IF j < k THEN tasks[j] ELSE tasks[j + 1]
<1> DEFINE T == Seq(S)
           u == SubSeq(tasks, 1, k - 1)
           v == SubSeq(tasks, k + 1, Len(tasks))
<1>1. Rest(tasks, k) = u \o v
  BY DEF Rest
<1>2. tasks \in Seq(T)
  OBVIOUS
<1> HIDE DEF T
<1>3. /\ u \in Seq(T) /\ Len(u) = k - 1
      /\ \A i \in 1..(k - 1) : u[i] = tasks[i]
  BY <1>2
<1>4. /\ v \in Seq(T) /\ Len(v) = Len(tasks) - k
      /\ \A i \in 1..(Len(tasks) - k) : v[i] = tasks[i + k]
  BY <1>2
<1>a. Len(tasks) \in Nat /\ k \in 1..Len(tasks)
  BY <1>2
<1> HIDE DEF u, v
<1>b. /\ u \o v \in Seq(T) /\ Len(u \o v) = Len(u) + Len(v)
      /\ \A i \in 1..(Len(u) + Len(v)) :
            (u \o v)[i] = IF i <= Len(u) THEN u[i] ELSE v[i - Len(u)]
  BY <1>3, <1>4, ConcatProperties
<1>5. u \o v \in Seq(T) /\ Len(u \o v) = Len(tasks) - 1
  BY <1>3, <1>4, <1>a, <1>b
<1>6. ASSUME NEW j \in 1..(Len(tasks) - 1)
      PROVE  (u \o v)[j] = IF j < k THEN tasks[j] ELSE tasks[j + 1]
  <2>1. CASE j < k
    <3>1. j \in 1..(Len(u) + Len(v)) /\ j <= Len(u) /\ j \in 1..(k - 1)
      BY <2>1, <1>3, <1>4, <1>a
    <3>2. QED
      BY <2>1, <3>1, <1>b, <1>3
  <2>2. CASE ~ (j < k)
    <3>0. j \in 1..(Len(u) + Len(v)) /\ ~ (j <= Len(u)) /\ Len(u) = k - 1
      BY <2>2, <1>3, <1>4, <1>a
    <3>1. (u \o v)[j] = v[j - (k - 1)]
      BY <3>0, <1>b
    <3>2. j - (k - 1) \in 1..(Len(tasks) - k) /\ j - (k - 1) + k = j + 1
      BY <2>2, <1>a
    <3>3. QED
      BY <2>2, <3>1, <3>2, <1>4
  <2>3. QED
    BY <2>1, <2>2
<1>7. QED
  BY <1>1, <1>5, <1>6 DEF T

(* A task that performs its next operation strikes off that operation and
   no other.                                                               *)
LEMMA TodoRest ==
    ASSUME NEW S, NEW tasks \in Seq(Seq(S)), NEW k \in 1..Len(tasks), tasks[k] # <<>>,
           NEW op, Apart(tasks, op)
    PROVE  /\ Apart(Rest(tasks, k), op)
           /\ Todo(Rest(tasks, k), op) \in Nat
           /\ Todo(tasks, op) = Todo(Rest(tasks, k), op)
                                + (IF Head(tasks[k]) = op THEN 1 ELSE 0)
<1> DEFINE R == Rest(tasks, k)
           s == tasks[k]
<1>1. /\ s \in Seq(S) /\ s # <<>> /\ Len(s) \in Nat \ {0}
      /\ Len(tasks) \in Nat /\ \A j \in 1..Len(tasks) : tasks[j] \in Seq(S)
  OBVIOUS
<1>2. Count(s, op) = Count(Tail(s), op) + (IF Head(s) = op THEN 1 ELSE 0)
  BY <1>1, CountTail
<1>3. /\ Tail(s) \in Seq(S) /\ Len(Tail(s)) = Len(s) - 1
      /\ \A i \in 1..(Len(s) - 1) : Tail(s)[i] = s[i + 1]
      /\ Head(s) = s[1]
  BY <1>1
<1>4. Has(Tail(s), op) => Has(s, op)
  BY <1>1, <1>3 DEF Has
<1>5. Count(Tail(s), op) \in Nat /\ (Has(Tail(s), op) <=> Count(Tail(s), op) # 0)
  BY <1>3, HasCount
<1>6. Count(s, op) \in Nat /\ (Has(s, op) <=> Count(s, op) # 0)
  BY <1>1, HasCount
<1>7. CASE Len(s) > 1
  <2>1. /\ R \in Seq(Seq(S)) /\ Len(R) = Len(tasks)
        /\ \A j \in 1..Len(tasks) : R[j] = IF j = k THEN Tail(s) ELSE tasks[j]
    BY <1>7, RestLong
  <2> HIDE DEF R, s
  <2>2. \A j \in 1..Len(tasks) : Has(R[j], op) => Has(tasks[j], op)
    BY <2>1, <1>4 DEF s
  <2>3. Apart(R, op)
    BY <2>1, <2>2 DEF Apart
  <2>4. Todo(R, op) \in Nat
    BY <2>1, <2>3, TodoNat
  <2>5. CASE Has(s, op)
    <3>1. Todo(tasks, op) = Count(s, op)
      BY <2>5, TodoAt DEF s
    <3>2. CASE Has(Tail(s), op)
      <4>1. Has(R[k], op) /\ k \in 1..Len(R) /\ R[k] = Tail(s)
        BY <2>1, <3>2
      <4>2. Todo(R, op) = Count(Tail(s), op)
        BY <4>1, <2>3, TodoAt
      <4>3. QED
        BY <1>2, <2>3, <2>4, <3>1, <4>2 DEF R, s
    <3>3. CASE ~ Has(Tail(s), op)
      <4>1. \A j \in 1..Len(R) : ~ Has(R[j], op)
        BY <2>1, <2>2, <2>5, <3>3 DEF Apart, s
      <4>2. Todo(R, op) = 0 /\ Count(Tail(s), op) = 0
        BY <4>1, <3>3, <1>5, TodoNone
      <4>3. QED
        BY <1>2, <2>3, <2>4, <3>1, <4>2 DEF R, s
    <3>4. QED
      BY <3>2, <3>3
  <2>6. CASE ~ Has(s, op) /\ \E j \in 1..Len(tasks) : Has(tasks[j], op)
    <3>1. PICK j \in 1..Len(tasks) : Has(tasks[j], op)
      BY <2>6
    <3>2. j # k /\ R[j] = tasks[j] /\ j \in 1..Len(R)
      BY <2>1, <2>6, <3>1 DEF s
    <3>3. Todo(tasks, op) = Count(tasks[j], op) /\ Todo(R, op) = Count(tasks[j], op)
      BY <2>3, <3>1, <3>2, TodoAt
    <3>4. Head(s) # op
      BY <2>6, <1>1, <1>3 DEF Has
    <3>5. QED
      BY <2>3, <2>4, <3>3, <3>4 DEF R, s
  <2>7. CASE ~ \E j \in 1..Len(tasks) : Has(tasks[j], op)
    <3>1. \A j \in 1..Len(R) : ~ Has(R[j], op)
      BY <2>1, <2>2, <2>7
    <3>2. Todo(tasks, op) = 0 /\ Todo(R, op) = 0
      BY <2>7, <3>1, TodoNone
    <3>3. Head(s) # op
      BY <2>7, <1>1, <1>3 DEF Has, s
    <3>4. QED
      BY <2>3, <3>2, <3>3 DEF R, s
  <2>8. QED
    BY <2>5, <2>6, <2>7
<1>8. CASE Len(s) = 1
  <2>1. /\ R \in Seq(Seq(S)) /\ Len(R) = Len(tasks) - 1
        /\ \A j \in 1..(Len(tasks) - 1) : R[j] = IF j < k THEN tasks[j] ELSE tasks[j + 1]
    BY <1>8, RestShort
  <2>a. Has(s, op) <=> Head(s) = op
    BY <1>3, <1>8 DEF Has
  <2>b. Has(s, op) => Count(s, op) = 1
    <3>1. ~ Has(Tail(s), op)
      BY <1>3, <1>8 DEF Has
    <3>2. Count(Tail(s), op) = 0
      BY <3>1, <1>5
    <3>3. QED
      BY <1>2, <2>a, <3>2
  <2> HIDE DEF R, s
  <2> DEFINE old(j) == IF j < k THEN j ELSE j + 1
             new(j) == IF j < k THEN j ELSE j - 1
  <2>2. \A j \in 1..Len(R) : old(j) \in 1..Len(tasks) /\ old(j) # k /\ R[j] = tasks[old(j)]
    BY <1>1, <2>1
  <2>3. \A j \in 1..Len(tasks) : j # k => new(j) \in 1..Len(R) /\ R[new(j)] = tasks[j]
    <3>1. ASSUME NEW j \in 1..Len(tasks), j < k
          PROVE  j \in 1..Len(R) /\ R[j] = tasks[j]
      <4>1. Len(tasks) \in Nat /\ k \in 1..Len(tasks)
        OBVIOUS
      <4>2. j \in 1..(Len(tasks) - 1)
        BY <3>1, <4>1
      <4>3. QED
        BY <2>1, <3>1, <4>2
    <3>2. ASSUME NEW j \in 1..Len(tasks), j > k
          PROVE  j - 1 \in 1..Len(R) /\ R[j - 1] = tasks[j]
      <4>1. /\ j - 1 \in 1..(Len(tasks) - 1) /\ ~ (j - 1 < k) /\ (j - 1) + 1 = j
            /\ j - 1 \in 1..Len(R)
        BY <1>1, <2>1, <3>2
      <4>2. R[j - 1] = tasks[(j - 1) + 1]
        BY <2>1, <4>1
      <4>3. QED
        BY <4>1, <4>2
    <3>3. \A j \in 1..Len(tasks) : j # k => j < k \/ (j > k /\ ~ (j < k))
      BY <1>1
    <3>4. QED
      BY <3>1, <3>2, <3>3
  <2>c. \A i, j \in 1..Len(R) : old(i) = old(j) => i = j
    BY <1>1, <2>1
  <2> HIDE DEF old, new
  <2>4. Apart(R, op)
    BY <2>2, <2>c DEF Apart
  <2>5. Todo(R, op) \in Nat
    BY <2>1, <2>4, TodoNat
  <2>6. CASE Has(s, op)
    <3>1. Todo(tasks, op) = 1
      BY <2>6, <2>b, TodoAt DEF s
    <3>2. \A j \in 1..Len(R) : ~ Has(R[j], op)
      BY <2>2, <2>6 DEF Apart, s
    <3>3. Todo(R, op) = 0
      BY <3>2, TodoNone
    <3>4. QED
      BY <2>4, <2>6, <2>a, <3>1, <3>3 DEF R, s
  <2>7. CASE ~ Has(s, op) /\ \E j \in 1..Len(tasks) : Has(tasks[j], op)
    <3>1. PICK j \in 1..Len(tasks) : Has(tasks[j], op)
      BY <2>7
    <3>2. j # k
      BY <2>7, <3>1 DEF s
    <3>3. new(j) \in 1..Len(R) /\ R[new(j)] = tasks[j]
      BY <2>3, <3>2
    <3>4. Todo(tasks, op) = Count(tasks[j], op)
      BY <3>1, TodoAt
    <3>5. Todo(R, op) = Count(R[new(j)], op)
      BY <2>4, <3>1, <3>3, TodoAt
    <3>6. QED
      BY <2>4, <2>5, <2>7, <2>a, <3>3, <3>4, <3>5 DEF R, s
  <2>8. CASE ~ \E j \in 1..Len(tasks) : Has(tasks[j], op)
    <3>1. \A j \in 1..Len(R) : ~ Has(R[j], op)
      BY <2>2, <2>8
    <3>2. Todo(tasks, op) = 0 /\ Todo(R, op) = 0
      BY <2>8, <3>1, TodoNone
    <3>3. ~ Has(s, op)
      BY <2>8 DEF s
    <3>4. QED
      BY <2>4, <2>a, <3>2, <3>3 DEF R, s
  <2>9. QED
    BY <2>6, <2>7, <2>8
<1> HIDE DEF s
<1>9. Len(s) > 1 \/ Len(s) = 1
  <2>1. \A n \in Nat \ {0} : n > 1 \/ n = 1
    OBVIOUS
  <2>2. QED
    BY <1>1, <2>1
<1>10. QED
  BY <1>7, <1>8, <1>9

-----------------------------------------------------------------------------
(* What makes a step sound: every operation of p is on an end of p, tasks
   that may run together use different SSL objects, and of every channel the
   sender's step writes as many messages as the reader's step reads.       *)

Mine(p) == {op \in Operation : IF op.dir = "send" THEN op.chan[3] = p ELSE op.chan[4] = p}

SendOp(c) == [dir |-> "send", chan |-> c]
RecvOp(c) == [dir |-> "recv", chan |-> c]

GoodTasks(p, tasks) ==
    /\ tasks \in Seq(Seq(Mine(p)))
    /\ \A k \in 1..Len(tasks) : tasks[k] # <<>>
    /\ \A j, k \in 1..Len(tasks) : \A x, y \in Mine(p) :
          Has(tasks[j], x) /\ Has(tasks[k], y) /\ Ssl(p, x) = Ssl(p, y) => j = k

GoodStep(p, step) ==
    /\ step \in [by : {"pool", "main", "begin", "end"}, tasks : Seq(Seq(Mine(p)))]
    /\ GoodTasks(p, step.tasks)
    /\ step.by = "main" => Len(step.tasks) = 1
    /\ step.by \in {"begin", "end"} => step.tasks = <<>>

Matched(F) ==
    /\ \A p \in Party : GoodStep(p, F[p])
    /\ \A c \in Channel : Todo(F[c[3]].tasks, SendOp(c)) = Todo(F[c[4]].tasks, RecvOp(c))

(* The parts of a channel.                                                 *)
LEMMA ChannelParts ==
    ASSUME NEW c \in Channel
    PROVE  /\ c[1] \in Nets /\ c[2] \in Sockets /\ c[3] \in Party /\ c[4] \in Party /\ c[3] # c[4]
           /\ c = <<c[1], c[2], c[3], c[4]>>
BY DEF Channel

(* Parts that make a channel.                                              *)
LEMMA ChannelOf ==
    ASSUME NEW n \in Nets, NEW s \in Sockets, NEW p \in Party, NEW q \in Party, p # q
    PROVE  <<n, s, p, q>> \in Channel
BY DEF Channel

(* An operation of p is a send or a receive on a channel from or to p.     *)
LEMMA MineParts ==
    ASSUME NEW p \in Party
    PROVE  /\ \A op \in Mine(p) :
                 /\ op.dir \in {"send", "recv"} /\ op.chan \in Channel
                 /\ op = [dir |-> op.dir, chan |-> op.chan]
                 /\ Other(p, op) \in Peers(p)
           /\ \A c \in Channel : c[3] = p => SendOp(c) \in Mine(p) /\ Other(p, SendOp(c)) = c[4]
           /\ \A c \in Channel : c[4] = p => RecvOp(c) \in Mine(p) /\ Other(p, RecvOp(c)) = c[3]
<1>1. \A op \in Mine(p) : op.dir \in {"send", "recv"} /\ op.chan \in Channel
                          /\ op = [dir |-> op.dir, chan |-> op.chan]
  BY DEF Mine, Operation
<1>2. \A op \in Mine(p) : Other(p, op) \in Peers(p)
  <2> SUFFICES ASSUME NEW op \in Mine(p) PROVE Other(p, op) \in Peers(p)
    OBVIOUS
  <2>1. op.chan[3] \in Party /\ op.chan[4] \in Party /\ op.chan[3] # op.chan[4]
    BY <1>1, ChannelParts
  <2>2. QED
    BY <2>1, <1>1 DEF Mine, Other, Peers
<1>3. QED
  BY <1>1, <1>2 DEF Mine, Operation, SendOp, RecvOp, Other

(* The operations the programs are made of.                                *)
LEMMA Ops ==
    ASSUME NEW n \in Nets, NEW p \in Party, NEW q \in Peers(p)
    PROVE  /\ Send(n, p, q) = SendOp(<<n, SendSocket(p, q), p, q>>)
           /\ Recv(n, p, q) = RecvOp(<<n, RecvSocket(q, p), q, p>>)
           /\ Send(n, p, q) \in Mine(p) /\ Other(p, Send(n, p, q)) = q
           /\ Recv(n, p, q) \in Mine(p) /\ Other(p, Recv(n, p, q)) = q
<1>1. q \in Party /\ p # q /\ SendSocket(p, q) \in Sockets /\ RecvSocket(q, p) \in Sockets
  BY DEF Peers, SendSocket, RecvSocket, Sockets
<1>2. /\ <<n, SendSocket(p, q), p, q>> \in Channel
      /\ <<n, RecvSocket(q, p), q, p>> \in Channel
  BY <1>1, ChannelOf
<1>3. QED
  BY <1>2 DEF Send, Recv, SendOp, RecvOp, Mine, Operation, Other

(* The same for the operations on the connection get returns.              *)
LEMMA OpsOn ==
    ASSUME NEW s \in Sockets, NEW p \in Party, NEW q \in Peers(p)
    PROVE  /\ SendOn(s, p, q) = SendOp(<<1, s, p, q>>)
           /\ RecvOn(s, p, q) = RecvOp(<<1, s, q, p>>)
           /\ SendOn(s, p, q) \in Mine(p) /\ Other(p, SendOn(s, p, q)) = q
           /\ RecvOn(s, p, q) \in Mine(p) /\ Other(p, RecvOn(s, p, q)) = q
<1>1. q \in Party /\ p # q /\ 1 \in Nets
  BY DEF Peers, Nets
<1>2. <<1, s, p, q>> \in Channel /\ <<1, s, q, p>> \in Channel
  BY <1>1, ChannelOf
<1>3. QED
  BY <1>2 DEF SendOn, RecvOn, SendOp, RecvOp, Mine, Operation, Other

(* The loops over the other parties meet each of them once.                *)
LEMMA PeerIndex ==
    ASSUME NEW p \in Party
    PROVE  /\ \A k \in 1..(N - 1) : Peer(p, k) \in Peers(p)
           /\ \A j, k \in 1..(N - 1) : Peer(p, j) = Peer(p, k) => j = k
           /\ \A q \in Peers(p) : \E k \in 1..(N - 1) : Peer(p, k) = q
<1> USE RoundsAssumption DEF Party, Peer, Peers
<1>1. \A k \in 1..(N - 1) : Peer(p, k) \in Peers(p)
  OBVIOUS
<1>2. \A j, k \in 1..(N - 1) : Peer(p, j) = Peer(p, k) => j = k
  OBVIOUS
<1>3. ASSUME NEW q \in Peers(p) PROVE \E k \in 1..(N - 1) : Peer(p, k) = q
  <2> DEFINE k == IF q < p THEN q ELSE q - 1
  <2>1. k \in 1..(N - 1) /\ Peer(p, k) = q
    OBVIOUS
  <2>2. QED
    BY <2>1
<1>4. QED
  BY <1>1, <1>2, <1>3

(* Sound tasks handed to the pool make a sound step.                       *)
LEMMA GoodPool ==
    ASSUME NEW p, NEW tasks, GoodTasks(p, tasks), NEW step, step = [by |-> "pool", tasks |-> tasks]
    PROVE  GoodStep(p, step)
<1>1. tasks \in Seq(Seq(Mine(p)))
  BY DEF GoodTasks
<1>2. step.by = "pool" /\ step.tasks = tasks
  OBVIOUS
<1>3. step \in [by : {"pool", "main", "begin", "end"}, tasks : Seq(Seq(Mine(p)))]
  BY <1>1
<1>4. QED
  BY <1>2, <1>3 DEF GoodStep

\* Two tasks of p for one peer never use the same SSL object.
Separate(p, F, G) ==
    \A q \in Peers(p) : \A x, y \in Mine(p) :
        Has(F[q], x) /\ Has(G[q], y) => Ssl(p, x) # Ssl(p, y)

\* The tasks of F and G, enqueued in turn.
Alternate(p, F, G) ==
    [k \in 1..(2 * (N - 1)) |-> IF k % 2 = 1 THEN F[Peer(p, (k + 1) \div 2)]
                                            ELSE G[Peer(p, k \div 2)]]

\* T[q] is a task of p that talks to q only.
TalksTo(p, q, s) ==
    /\ s \in Seq(Mine(p)) /\ s # <<>>
    /\ \A x \in Mine(p) : Has(s, x) => Other(p, x) = q
Peerwise(p, T) == \A q \in Peers(p) : TalksTo(p, q, T[q])

(* One task per peer is sound, and does to a peer what its task does.      *)
LEMMA OneTaskPerPeer ==
    ASSUME NEW p \in Party, NEW T, Peerwise(p, T),
           NEW tasks, tasks = [k \in 1..(N - 1) |-> T[Peer(p, k)]]
    PROVE  /\ GoodTasks(p, tasks)
           /\ \A op \in Mine(p) : Todo(tasks, op) = Count(T[Other(p, op)], op)
<1>1. N - 1 \in Nat
  BY RoundsAssumption
<1>2. \A k \in 1..(N - 1) : Peer(p, k) \in Peers(p) /\ tasks[k] = T[Peer(p, k)]
  BY PeerIndex
<1>3. tasks \in Seq(Seq(Mine(p))) /\ Len(tasks) = N - 1
  BY <1>1, <1>2 DEF Peerwise, TalksTo
<1>4. \A k \in 1..(N - 1), x \in Mine(p) : Has(tasks[k], x) => Other(p, x) = Peer(p, k)
  BY <1>2 DEF Peerwise, TalksTo
<1>5. GoodTasks(p, tasks)
  <2>1. \A k \in 1..Len(tasks) : tasks[k] # <<>>
    BY <1>2, <1>3 DEF Peerwise, TalksTo
  <2>2. ASSUME NEW j \in 1..Len(tasks), NEW k \in 1..Len(tasks),
               NEW x \in Mine(p), NEW y \in Mine(p),
               Has(tasks[j], x), Has(tasks[k], y), Ssl(p, x) = Ssl(p, y)
        PROVE  j = k
    <3>1. Other(p, x) = Other(p, y)
      BY <2>2 DEF Ssl
    <3>2. Peer(p, j) = Peer(p, k)
      BY <1>3, <1>4, <2>2, <3>1
    <3>3. QED
      BY <1>3, <3>2, PeerIndex
  <2>3. QED
    BY <1>3, <2>1, <2>2 DEF GoodTasks
<1>6. ASSUME NEW op \in Mine(p) PROVE Todo(tasks, op) = Count(T[Other(p, op)], op)
  <2>1. Other(p, op) \in Peers(p)
    BY MineParts
  <2>2. PICK k \in 1..(N - 1) : Peer(p, k) = Other(p, op)
    BY <2>1, PeerIndex
  <2>3. tasks[k] = T[Other(p, op)] /\ k \in 1..Len(tasks)
    BY <1>2, <1>3, <2>2
  <2>4. CASE Has(tasks[k], op)
    <3>1. Apart(tasks, op)
      BY <1>5 DEF GoodTasks, Apart
    <3>2. QED
      BY <2>3, <2>4, <3>1, TodoAt
  <2>5. CASE ~ Has(tasks[k], op)
    <3>1. \A j \in 1..Len(tasks) : ~ Has(tasks[j], op)
      <4> SUFFICES ASSUME NEW j \in 1..Len(tasks), Has(tasks[j], op) PROVE FALSE
        OBVIOUS
      <4>1. Peer(p, j) = Peer(p, k)
        BY <1>3, <1>4, <2>2
      <4>2. j = k
        BY <1>3, <4>1, PeerIndex
      <4>3. QED
        BY <2>5, <4>2
    <3>2. Todo(tasks, op) = 0
      BY <3>1, TodoNone
    <3>3. Count(tasks[k], op) = 0
      <4>1. tasks[k] \in Seq(Mine(p))
        BY <2>1, <2>3 DEF Peerwise, TalksTo
      <4>2. QED
        BY <2>5, <4>1, HasCount
    <3>4. QED
      BY <2>3, <3>2, <3>3
  <2>6. QED
    BY <2>4, <2>5
<1>7. QED
  BY <1>5, <1>6

(* The positions of two tasks per peer: odd ones and even ones.            *)
LEMMA Halves ==
    ASSUME NEW M \in Nat
    PROVE  /\ \A k \in 1..(2 * M) :
                 /\ k % 2 = 1 => (k + 1) \div 2 \in 1..M /\ k = 2 * ((k + 1) \div 2) - 1
                 /\ k % 2 # 1 => k \div 2 \in 1..M /\ k = 2 * (k \div 2)
           /\ \A i \in 1..M :
                 /\ 2 * i - 1 \in 1..(2 * M) /\ (2 * i - 1) % 2 = 1 /\ (2 * i - 1 + 1) \div 2 = i
                 /\ 2 * i \in 1..(2 * M) /\ (2 * i) % 2 # 1 /\ (2 * i) \div 2 = i
OBVIOUS

(* A function on 1..n is a sequence of n elements.                         *)
LEMMA FunctionIsSequence ==
    ASSUME NEW S, NEW n \in Nat, NEW f \in [1..n -> S]
    PROVE  f \in Seq(S) /\ Len(f) = n
OBVIOUS

(* Two tasks per peer on different SSL objects are sound, and do together
   what both do.                                                           *)
LEMMA TwoTasksPerPeer ==
    ASSUME NEW p \in Party, NEW F, NEW G, Peerwise(p, F), Peerwise(p, G), Separate(p, F, G),
           NEW tasks, tasks = Alternate(p, F, G)
    PROVE  /\ GoodTasks(p, tasks)
           /\ \A op \in Mine(p) :
                 Todo(tasks, op) = Count(F[Other(p, op)], op) + Count(G[Other(p, op)], op)
<1> DEFINE M == N - 1
           whom(k) == IF k % 2 = 1 THEN Peer(p, (k + 1) \div 2) ELSE Peer(p, k \div 2)
<1>1. M \in Nat /\ 2 * M \in Nat
  BY RoundsAssumption
<1>2. \A k \in 1..(2 * M) : whom(k) \in Peers(p)
  BY <1>1, Halves, PeerIndex
<1>3. \A k \in 1..(2 * M) : tasks[k] = IF k % 2 = 1 THEN F[whom(k)] ELSE G[whom(k)]
  BY DEF Alternate
<1>4. ASSUME NEW j \in 1..(2 * M), NEW k \in 1..(2 * M),
             whom(j) = whom(k), j % 2 = 1, k % 2 = 1
      PROVE  j = k
  <2>1. /\ (j + 1) \div 2 \in 1..M /\ j = 2 * ((j + 1) \div 2) - 1
        /\ (k + 1) \div 2 \in 1..M /\ k = 2 * ((k + 1) \div 2) - 1
    BY <1>1, <1>4, Halves
  <2>2. (j + 1) \div 2 = (k + 1) \div 2
    BY <1>4, <2>1, PeerIndex
  <2>3. QED
    BY <2>1, <2>2
<1>5. ASSUME NEW j \in 1..(2 * M), NEW k \in 1..(2 * M),
             whom(j) = whom(k), j % 2 # 1, k % 2 # 1
      PROVE  j = k
  <2>1. /\ j \div 2 \in 1..M /\ j = 2 * (j \div 2)
        /\ k \div 2 \in 1..M /\ k = 2 * (k \div 2)
    BY <1>1, <1>5, Halves
  <2>2. j \div 2 = k \div 2
    BY <1>5, <2>1, PeerIndex
  <2>3. QED
    BY <2>1, <2>2
<1>6. ASSUME NEW q \in Peers(p)
      PROVE  \E i, j \in 1..(2 * M) : /\ i % 2 = 1 /\ whom(i) = q
                                      /\ j % 2 # 1 /\ whom(j) = q
  <2>1. PICK k \in 1..M : Peer(p, k) = q
    BY PeerIndex
  <2>2. /\ 2 * k - 1 \in 1..(2 * M) /\ (2 * k - 1) % 2 = 1 /\ whom(2 * k - 1) = q
        /\ 2 * k \in 1..(2 * M) /\ (2 * k) % 2 # 1 /\ whom(2 * k) = q
    BY <1>1, <2>1, Halves
  <2>3. QED
    BY <2>2
<1>t. tasks = [k \in 1..(2 * M) |-> tasks[k]]
  BY DEF Alternate
<1>a. \A k \in 1..(2 * M) : tasks[k] \in Seq(Mine(p)) /\ tasks[k] # <<>>
  BY <1>2, <1>3 DEF Peerwise, TalksTo
<1>b. tasks \in [1..(2 * M) -> Seq(Mine(p))]
  BY <1>a, <1>t
<1> HIDE DEF whom, M
<1>7. tasks \in Seq(Seq(Mine(p))) /\ Len(tasks) = 2 * M
  BY <1>1, <1>b, FunctionIsSequence
<1>8. ASSUME NEW k \in 1..(2 * M), NEW x \in Mine(p), Has(tasks[k], x)
      PROVE  Other(p, x) = whom(k)
  <2>1. Has(F[whom(k)], x) \/ Has(G[whom(k)], x)
    BY <1>3, <1>8
  <2>2. QED
    BY <1>2, <2>1 DEF Peerwise, TalksTo
<1>9. GoodTasks(p, tasks)
  <2>1. 1..Len(tasks) = 1..(2 * M)
    BY <1>7
  <2>2. ASSUME NEW j \in 1..(2 * M), NEW k \in 1..(2 * M),
               NEW x \in Mine(p), NEW y \in Mine(p),
               Has(tasks[j], x), Has(tasks[k], y), Ssl(p, x) = Ssl(p, y)
        PROVE  j = k
    <3>1. Other(p, x) = Other(p, y)
      BY <2>2 DEF Ssl
    <3>2. whom(j) = whom(k) /\ whom(k) \in Peers(p)
      BY <1>2, <1>8, <2>2, <3>1
    <3>3. CASE j % 2 = 1 /\ k % 2 # 1
      BY <1>3, <2>2, <3>2, <3>3 DEF Separate
    <3>4. CASE j % 2 # 1 /\ k % 2 = 1
      BY <1>3, <2>2, <3>2, <3>4 DEF Separate
    <3>5. CASE j % 2 = 1 /\ k % 2 = 1
      BY <1>4, <3>2, <3>5
    <3>6. CASE j % 2 # 1 /\ k % 2 # 1
      BY <1>5, <3>2, <3>6
    <3>7. QED
      BY <3>3, <3>4, <3>5, <3>6
  <2>3. \A j, k \in 1..(2 * M) : \A x, y \in Mine(p) :
           Has(tasks[j], x) /\ Has(tasks[k], y) /\ Ssl(p, x) = Ssl(p, y) => j = k
    BY <2>2, Zenon
  <2>4. \A k \in 1..Len(tasks) : tasks[k] # <<>>
    BY <1>7, <1>a
  <2>5. QED
    BY <1>7, <2>1, <2>3, <2>4, Zenon DEF GoodTasks
<1>10. ASSUME NEW op \in Mine(p)
       PROVE  Todo(tasks, op) = Count(F[Other(p, op)], op) + Count(G[Other(p, op)], op)
  <2> DEFINE q == Other(p, op)
  <2>1. q \in Peers(p)
    BY MineParts
  <2>2. PICK i \in 1..(2 * M), j \in 1..(2 * M) : /\ i % 2 = 1 /\ whom(i) = q
                                                  /\ j % 2 # 1 /\ whom(j) = q
    BY <2>1, <1>6
  <2>3. /\ tasks[i] = F[q] /\ tasks[j] = G[q]
        /\ i \in 1..Len(tasks) /\ j \in 1..Len(tasks)
    BY <1>3, <1>7, <2>2
  <2>4. Apart(tasks, op)
    BY <1>9 DEF GoodTasks, Apart
  <2>5. F[q] \in Seq(Mine(p)) /\ G[q] \in Seq(Mine(p))
    BY <2>1 DEF Peerwise, TalksTo
  <2>6. /\ Count(F[q], op) \in Nat /\ (Has(F[q], op) <=> Count(F[q], op) # 0)
        /\ Count(G[q], op) \in Nat /\ (Has(G[q], op) <=> Count(G[q], op) # 0)
    BY <2>5, HasCount
  <2>7. ~ (Has(F[q], op) /\ Has(G[q], op))
    BY <2>1 DEF Separate
  <2>8. CASE Has(F[q], op)
    <3>1. Todo(tasks, op) = Count(F[q], op)
      BY <2>3, <2>4, <2>8, TodoAt
    <3>2. QED
      BY <2>6, <2>7, <2>8, <3>1
  <2>9. CASE Has(G[q], op)
    <3>1. Todo(tasks, op) = Count(G[q], op)
      BY <2>3, <2>4, <2>9, TodoAt
    <3>2. QED
      BY <2>6, <2>7, <2>9, <3>1
  <2>10. CASE ~ Has(F[q], op) /\ ~ Has(G[q], op)
    <3>1. \A k \in 1..Len(tasks) : ~ Has(tasks[k], op)
      BY <1>3, <1>7, <1>8, <2>10
    <3>2. Todo(tasks, op) = 0
      BY <3>1, TodoNone
    <3>3. QED
      BY <2>6, <2>10, <3>2
  <2>11. QED
    BY <2>8, <2>9, <2>10
<1>11. QED
  BY <1>9, <1>10

(* One task of the main thread is sound.                                   *)
LEMMA OneTask ==
    ASSUME NEW p \in Party, NEW ops \in Seq(Mine(p)), ops # <<>>,
           NEW tasks, tasks = <<ops>>
    PROVE  /\ GoodTasks(p, tasks) /\ Len(tasks) = 1
           /\ \A op \in Mine(p) : Todo(tasks, op) = Count(ops, op)
<1>1. tasks \in Seq(Seq(Mine(p))) /\ Len(tasks) = 1 /\ tasks[1] = ops
  OBVIOUS
<1>2. GoodTasks(p, tasks)
  BY <1>1 DEF GoodTasks
<1>3. QED
  BY <1>1, <1>2, TodoOne

-----------------------------------------------------------------------------
(* Steps in which every party hands the pool one task, or two, per peer.
   T[p][q] is the task of p for q.                                         *)

(* One task per peer: the step matches when every pair of tasks does.      *)
LEMMA PoolOne ==
    ASSUME NEW T, \A p \in Party : Peerwise(p, T[p]),
           \A c \in Channel : Count(T[c[3]][c[4]], SendOp(c)) = Count(T[c[4]][c[3]], RecvOp(c)),
           NEW F, \A p \in Party : F[p] = Pool([k \in 1..(N - 1) |-> T[p][Peer(p, k)]])
    PROVE  Matched(F)
<1>1. ASSUME NEW p \in Party
      PROVE  /\ GoodStep(p, F[p])
             /\ \A op \in Mine(p) : Todo(F[p].tasks, op) = Count(T[p][Other(p, op)], op)
  <2> DEFINE tasks == [k \in 1..(N - 1) |-> T[p][Peer(p, k)]]
  <2>1. F[p] = [by |-> "pool", tasks |-> tasks]
    BY DEF Pool
  <2>2. /\ GoodTasks(p, tasks)
        /\ \A op \in Mine(p) : Todo(tasks, op) = Count(T[p][Other(p, op)], op)
    BY OneTaskPerPeer
  <2> HIDE DEF tasks
  <2>3. F[p].tasks = tasks /\ GoodStep(p, F[p])
    BY <2>1, <2>2, GoodPool
  <2>4. QED
    BY <2>2, <2>3
<1>3. ASSUME NEW c \in Channel
      PROVE  Todo(F[c[3]].tasks, SendOp(c)) = Todo(F[c[4]].tasks, RecvOp(c))
  <2>1. c[3] \in Party /\ c[4] \in Party
    BY ChannelParts
  <2>2. SendOp(c) \in Mine(c[3]) /\ Other(c[3], SendOp(c)) = c[4]
    BY <2>1, MineParts
  <2>3. RecvOp(c) \in Mine(c[4]) /\ Other(c[4], RecvOp(c)) = c[3]
    BY <2>1, MineParts
  <2>4. Todo(F[c[3]].tasks, SendOp(c)) = Count(T[c[3]][c[4]], SendOp(c))
    BY <1>1, <2>1, <2>2
  <2>5. Todo(F[c[4]].tasks, RecvOp(c)) = Count(T[c[4]][c[3]], RecvOp(c))
    BY <1>1, <2>1, <2>3
  <2>6. QED
    BY <2>4, <2>5
<1>4. QED
  BY <1>1, <1>3 DEF Matched

(* Two tasks per peer: the step matches when every pair of pairs does.     *)
LEMMA PoolTwo ==
    ASSUME NEW T, NEW U, \A p \in Party : Peerwise(p, T[p]) /\ Peerwise(p, U[p]),
           \A p \in Party : Separate(p, T[p], U[p]),
           \A c \in Channel :
               Count(T[c[3]][c[4]], SendOp(c)) + Count(U[c[3]][c[4]], SendOp(c))
               = Count(T[c[4]][c[3]], RecvOp(c)) + Count(U[c[4]][c[3]], RecvOp(c)),
           NEW F, \A p \in Party : F[p] = Pool(Alternate(p, T[p], U[p]))
    PROVE  Matched(F)
<1>1. ASSUME NEW p \in Party
      PROVE  /\ GoodStep(p, F[p])
             /\ \A op \in Mine(p) : Todo(F[p].tasks, op) = Count(T[p][Other(p, op)], op)
                                                           + Count(U[p][Other(p, op)], op)
  <2> DEFINE tasks == Alternate(p, T[p], U[p])
  <2>1. F[p] = [by |-> "pool", tasks |-> tasks]
    BY DEF Pool
  <2>2. /\ GoodTasks(p, tasks)
        /\ \A op \in Mine(p) : Todo(tasks, op) = Count(T[p][Other(p, op)], op)
                                                 + Count(U[p][Other(p, op)], op)
    BY TwoTasksPerPeer
  <2> HIDE DEF tasks
  <2>3. F[p].tasks = tasks /\ GoodStep(p, F[p])
    BY <2>1, <2>2, GoodPool
  <2>4. QED
    BY <2>2, <2>3
<1>3. ASSUME NEW c \in Channel
      PROVE  Todo(F[c[3]].tasks, SendOp(c)) = Todo(F[c[4]].tasks, RecvOp(c))
  <2>1. c[3] \in Party /\ c[4] \in Party
    BY ChannelParts
  <2>2. SendOp(c) \in Mine(c[3]) /\ Other(c[3], SendOp(c)) = c[4]
    BY <2>1, MineParts
  <2>3. RecvOp(c) \in Mine(c[4]) /\ Other(c[4], RecvOp(c)) = c[3]
    BY <2>1, MineParts
  <2>4. Todo(F[c[3]].tasks, SendOp(c)) = Count(T[c[3]][c[4]], SendOp(c)) + Count(U[c[3]][c[4]], SendOp(c))
    BY <1>1, <2>1, <2>2
  <2>5. Todo(F[c[4]].tasks, RecvOp(c)) = Count(T[c[4]][c[3]], RecvOp(c)) + Count(U[c[4]][c[3]], RecvOp(c))
    BY <1>1, <2>1, <2>3
  <2>6. QED
    BY <2>4, <2>5
<1>4. QED
  BY <1>1, <1>3 DEF Matched

(* A sender and a reader mean the same channel.                            *)
LEMMA SameChannel ==
    ASSUME NEW n \in Nets, NEW c \in Channel
    PROVE  /\ Hit(Send(n, c[3], c[4]), SendOp(c)) = Hit(Recv(n, c[4], c[3]), RecvOp(c))
           /\ Hit(Send(n, c[3], c[4]), SendOp(c)) \in Nat
           /\ Hit(Recv(n, c[3], c[4]), SendOp(c)) = 0
           /\ Hit(Send(n, c[4], c[3]), RecvOp(c)) = 0
<1>1. SendSocket(c[3], c[4]) = RecvSocket(c[3], c[4])
  BY DEF SendSocket, RecvSocket
<1>2. QED
  BY <1>1 DEF Send, Recv, SendOp, RecvOp, Hit

(* The same for the operations on the connection get returns.              *)
LEMMA SameChannelOn ==
    ASSUME NEW s \in Sockets, NEW c \in Channel
    PROVE  /\ Hit(SendOn(s, c[3], c[4]), SendOp(c)) = Hit(RecvOn(s, c[4], c[3]), RecvOp(c))
           /\ Hit(SendOn(s, c[3], c[4]), SendOp(c)) \in Nat
           /\ Hit(RecvOn(s, c[3], c[4]), SendOp(c)) = 0
           /\ Hit(SendOn(s, c[4], c[3]), RecvOp(c)) = 0
BY DEF SendOn, RecvOn, SendOp, RecvOp, Hit

(* A task of one operation talks to that operation's peer.                 *)
LEMMA TalksOne ==
    ASSUME NEW p, NEW q, NEW a \in Mine(p), Other(p, a) = q, NEW s, s = <<a>>
    PROVE  TalksTo(p, q, s) /\ \A x : Has(s, x) => x = a
BY DEF TalksTo, Has

(* Likewise a task of two operations.                                      *)
LEMMA TalksTwo ==
    ASSUME NEW p, NEW q, NEW a \in Mine(p), Other(p, a) = q, NEW b \in Mine(p), Other(p, b) = q,
           NEW s, s = <<a, b>>
    PROVE  TalksTo(p, q, s) /\ \A x : Has(s, x) => x = a \/ x = b
BY DEF TalksTo, Has

(* Likewise a task of three operations.                                    *)
LEMMA TalksThree ==
    ASSUME NEW p, NEW q, NEW a \in Mine(p), Other(p, a) = q, NEW b \in Mine(p), Other(p, b) = q,
           NEW c \in Mine(p), Other(p, c) = q, NEW s, s = <<a, b, c>>
    PROVE  TalksTo(p, q, s) /\ \A x : Has(s, x) => x = a \/ x = b \/ x = c
BY DEF TalksTo, Has

(* The two connections of a pair are two SSL objects at either end.        *)
LEMMA SslOps ==
    ASSUME NEW n \in Nets, NEW p \in Party, NEW q \in Peers(p)
    PROVE  Ssl(p, Send(n, p, q)) # Ssl(p, Recv(n, p, q))
<1>1. p \in Int /\ q \in Int /\ p # q
  BY RoundsAssumption DEF Party, Peers
<1>2. SendSocket(p, q) # RecvSocket(q, p)
  BY <1>1 DEF SendSocket, RecvSocket
<1>3. QED
  BY <1>2 DEF Ssl, Send, Recv

(* The ends of a channel are peers of each other.                          *)
LEMMA ChannelPeers ==
    ASSUME NEW c \in Channel
    PROVE  c[3] \in Party /\ c[4] \in Peers(c[3]) /\ c[4] \in Party /\ c[3] \in Peers(c[4])
BY ChannelParts DEF Peers

(* The rounds in which one task per peer writes and then reads match.      *)
LEMMA SendThenRecvMatched ==
    ASSUME NEW n \in Nets, NEW F, \A p \in Party : F[p] = Pool(SendThenRecv(n, p))
    PROVE  Matched(F)
<1> DEFINE T == [p \in Party |-> [q \in Peers(p) |-> <<Send(n, p, q), Recv(n, p, q)>>]]
<1>1. \A p \in Party : \A q \in Peers(p) : T[p][q] = <<Send(n, p, q), Recv(n, p, q)>>
  OBVIOUS
<1>2. \A p \in Party : F[p] = Pool([k \in 1..(N - 1) |-> T[p][Peer(p, k)]])
  <2> SUFFICES ASSUME NEW p \in Party
               PROVE  SendThenRecv(n, p) = [k \in 1..(N - 1) |-> T[p][Peer(p, k)]]
    OBVIOUS
  <2>1. \A k \in 1..(N - 1) : Peer(p, k) \in Peers(p)
    BY PeerIndex
  <2>2. SendThenRecv(n, p) = [k \in 1..(N - 1) |-> <<Send(n, p, Peer(p, k)), Recv(n, p, Peer(p, k))>>]
    BY DEF SendThenRecv, OnePerPeer
  <2>3. QED
    BY <1>1, <2>1, <2>2
<1> HIDE DEF T
<1>3. \A p \in Party : Peerwise(p, T[p])
  <2> SUFFICES ASSUME NEW p \in Party, NEW q \in Peers(p)
               PROVE  TalksTo(p, q, T[p][q])
    BY DEF Peerwise
  <2>1. /\ Send(n, p, q) \in Mine(p) /\ Other(p, Send(n, p, q)) = q
        /\ Recv(n, p, q) \in Mine(p) /\ Other(p, Recv(n, p, q)) = q
    BY Ops
  <2>2. T[p][q] = <<Send(n, p, q), Recv(n, p, q)>>
    BY <1>1
  <2>3. QED
    BY <2>1, <2>2, TalksTwo
<1>4. ASSUME NEW c \in Channel
      PROVE  Count(T[c[3]][c[4]], SendOp(c)) = Count(T[c[4]][c[3]], RecvOp(c))
  <2>1. /\ T[c[3]][c[4]] = <<Send(n, c[3], c[4]), Recv(n, c[3], c[4])>>
        /\ T[c[4]][c[3]] = <<Send(n, c[4], c[3]), Recv(n, c[4], c[3])>>
    BY <1>1, ChannelPeers
  <2>2. /\ Count(T[c[3]][c[4]], SendOp(c))
              = Hit(Send(n, c[3], c[4]), SendOp(c)) + Hit(Recv(n, c[3], c[4]), SendOp(c))
        /\ Count(T[c[4]][c[3]], RecvOp(c))
              = Hit(Send(n, c[4], c[3]), RecvOp(c)) + Hit(Recv(n, c[4], c[3]), RecvOp(c))
    BY <2>1, CountTwo
  <2>3. QED
    BY <2>2, SameChannel
<1>5. QED
  BY <1>2, <1>3, <1>4, PoolOne

(* One task writes to a peer, another reads from it; b when in bulk.       *)
Load(b, op) == IF b THEN Bulk(op) ELSE <<op>>
Sends(n, b) == [p \in Party |-> [q \in Peers(p) |-> Load(b, Send(n, p, q))]]
Recvs(n, b) == [p \in Party |-> [q \in Peers(p) |-> Load(b, Recv(n, p, q))]]

(* A transfer, bulk or not, talks to the peer of its operation.            *)
LEMMA LoadTalks ==
    ASSUME NEW b \in BOOLEAN, NEW p, NEW q, NEW a \in Mine(p), Other(p, a) = q,
           NEW s, s = Load(b, a)
    PROVE  TalksTo(p, q, s) /\ \A x : Has(s, x) => x = a
<1>1. CASE b
  <2>1. s = <<a, a>>
    BY <1>1 DEF Load, Bulk
  <2>2. QED
    BY <2>1, TalksTwo
<1>2. CASE ~ b
  <2>1. s = <<a>>
    BY <1>2 DEF Load
  <2>2. QED
    BY <2>1, TalksOne
<1>3. QED
  BY <1>1, <1>2

(* A bulk transfer counts twice.                                           *)
LEMMA LoadCount ==
    ASSUME NEW b \in BOOLEAN, NEW a, NEW s, s = Load(b, a), NEW v
    PROVE  Count(s, v) = IF b THEN Hit(a, v) + Hit(a, v) ELSE Hit(a, v)
<1>1. CASE b
  <2>1. s = <<a, a>>
    BY <1>1 DEF Load, Bulk
  <2>2. QED
    BY <1>1, <2>1, CountTwo
<1>2. CASE ~ b
  <2>1. s = <<a>>
    BY <1>2 DEF Load
  <2>2. QED
    BY <1>2, <2>1, CountOne
<1>3. QED
  BY <1>1, <1>2

(* Writes and reads of one size use different SSL objects and match.       *)
LEMMA LoadsMatch ==
    ASSUME NEW n \in Nets, NEW b \in BOOLEAN
    PROVE  /\ \A p \in Party : /\ Peerwise(p, Sends(n, b)[p]) /\ Peerwise(p, Recvs(n, b)[p])
                               /\ Separate(p, Sends(n, b)[p], Recvs(n, b)[p])
                               /\ Separate(p, Recvs(n, b)[p], Sends(n, b)[p])
           /\ \A c \in Channel :
                 /\ Count(Sends(n, b)[c[3]][c[4]], SendOp(c)) = Count(Recvs(n, b)[c[4]][c[3]], RecvOp(c))
                 /\ Count(Sends(n, b)[c[3]][c[4]], SendOp(c)) \in Nat
                 /\ Count(Recvs(n, b)[c[3]][c[4]], SendOp(c)) = 0
                 /\ Count(Sends(n, b)[c[4]][c[3]], RecvOp(c)) = 0
<1>1. \A p \in Party : \A q \in Peers(p) :
         /\ Sends(n, b)[p][q] = Load(b, Send(n, p, q))
         /\ Recvs(n, b)[p][q] = Load(b, Recv(n, p, q))
  BY DEF Sends, Recvs
<1>2. ASSUME NEW p \in Party, NEW q \in Peers(p)
      PROVE  /\ TalksTo(p, q, Sends(n, b)[p][q]) /\ TalksTo(p, q, Recvs(n, b)[p][q])
             /\ \A x : Has(Sends(n, b)[p][q], x) => x = Send(n, p, q)
             /\ \A x : Has(Recvs(n, b)[p][q], x) => x = Recv(n, p, q)
  <2>1. /\ Send(n, p, q) \in Mine(p) /\ Other(p, Send(n, p, q)) = q
        /\ Recv(n, p, q) \in Mine(p) /\ Other(p, Recv(n, p, q)) = q
    BY Ops
  <2>2. QED
    BY <1>1, <2>1, LoadTalks
<1>3. ASSUME NEW p \in Party
      PROVE  /\ Peerwise(p, Sends(n, b)[p]) /\ Peerwise(p, Recvs(n, b)[p])
             /\ Separate(p, Sends(n, b)[p], Recvs(n, b)[p])
             /\ Separate(p, Recvs(n, b)[p], Sends(n, b)[p])
  BY <1>2, SslOps DEF Peerwise, Separate
<1>4. ASSUME NEW c \in Channel
      PROVE  /\ Count(Sends(n, b)[c[3]][c[4]], SendOp(c)) = Count(Recvs(n, b)[c[4]][c[3]], RecvOp(c))
             /\ Count(Sends(n, b)[c[3]][c[4]], SendOp(c)) \in Nat
             /\ Count(Recvs(n, b)[c[3]][c[4]], SendOp(c)) = 0
             /\ Count(Sends(n, b)[c[4]][c[3]], RecvOp(c)) = 0
  <2>1. /\ Sends(n, b)[c[3]][c[4]] = Load(b, Send(n, c[3], c[4]))
        /\ Sends(n, b)[c[4]][c[3]] = Load(b, Send(n, c[4], c[3]))
        /\ Recvs(n, b)[c[3]][c[4]] = Load(b, Recv(n, c[3], c[4]))
        /\ Recvs(n, b)[c[4]][c[3]] = Load(b, Recv(n, c[4], c[3]))
    BY <1>1, ChannelPeers
  <2>2. QED
    BY <2>1, LoadCount, SameChannel
<1>5. QED
  BY <1>3, <1>4

(* The rounds in which every peer has a writing and a reading task match.  *)
LEMMA ExchangeMatched ==
    ASSUME NEW n \in Nets, NEW b \in BOOLEAN, NEW F,
           \/ \A p \in Party : F[p] = Pool(Alternate(p, Sends(n, b)[p], Recvs(n, b)[p]))
           \/ \A p \in Party : F[p] = Pool(Alternate(p, Recvs(n, b)[p], Sends(n, b)[p]))
    PROVE  Matched(F)
<1> DEFINE S == Sends(n, b)
           R == Recvs(n, b)
<1>1. /\ \A p \in Party : Peerwise(p, S[p]) /\ Peerwise(p, R[p])
      /\ \A p \in Party : Separate(p, S[p], R[p])
      /\ \A p \in Party : Separate(p, R[p], S[p])
  BY LoadsMatch
<1>2. \A c \in Channel :
         /\ Count(S[c[3]][c[4]], SendOp(c)) + Count(R[c[3]][c[4]], SendOp(c))
            = Count(S[c[4]][c[3]], RecvOp(c)) + Count(R[c[4]][c[3]], RecvOp(c))
         /\ Count(R[c[3]][c[4]], SendOp(c)) + Count(S[c[3]][c[4]], SendOp(c))
            = Count(R[c[4]][c[3]], RecvOp(c)) + Count(S[c[4]][c[3]], RecvOp(c))
  BY LoadsMatch
<1>3. \/ \A p \in Party : F[p] = Pool(Alternate(p, S[p], R[p]))
      \/ \A p \in Party : F[p] = Pool(Alternate(p, R[p], S[p]))
  OBVIOUS
<1> HIDE DEF S, R
<1>4. CASE \A p \in Party : F[p] = Pool(Alternate(p, S[p], R[p]))
  BY <1>1, <1>2, <1>4, PoolTwo
<1>5. CASE \A p \in Party : F[p] = Pool(Alternate(p, R[p], S[p]))
  BY <1>1, <1>2, <1>5, PoolTwo
<1>6. QED
  BY <1>3, <1>4, <1>5

(* The three forms of such rounds in the programs.                         *)
LEMMA ExchangeSteps ==
    ASSUME NEW n \in Nets, NEW F,
           \/ \A p \in Party : F[p] = Pool(SendAndRecv(n, p))
           \/ \A p \in Party : F[p] = Pool(RecvAndSend(n, p))
           \/ \A p \in Party : F[p] = Pool(BulkSendAndRecv(n, p))
    PROVE  Matched(F)
<1>1. ASSUME NEW p \in Party, NEW k \in 1..(2 * (N - 1))
      PROVE  IF k % 2 = 1 THEN Peer(p, (k + 1) \div 2) \in Peers(p) ELSE Peer(p, k \div 2) \in Peers(p)
  <2>1. N - 1 \in Nat
    BY RoundsAssumption
  <2>2. QED
    BY <2>1, Halves, PeerIndex
<1>2. ASSUME NEW p \in Party, NEW q \in Peers(p), NEW b \in BOOLEAN
      PROVE  /\ Sends(n, b)[p][q] = IF b THEN Bulk(Send(n, p, q)) ELSE <<Send(n, p, q)>>
             /\ Recvs(n, b)[p][q] = IF b THEN Bulk(Recv(n, p, q)) ELSE <<Recv(n, p, q)>>
  BY DEF Sends, Recvs, Load
<1>3. ASSUME NEW p \in Party
      PROVE  SendAndRecv(n, p) = Alternate(p, Sends(n, FALSE)[p], Recvs(n, FALSE)[p])
  BY <1>1, <1>2 DEF SendAndRecv, TwoPerPeer, Alternate
<1>4. ASSUME NEW p \in Party
      PROVE  RecvAndSend(n, p) = Alternate(p, Recvs(n, FALSE)[p], Sends(n, FALSE)[p])
  BY <1>1, <1>2 DEF RecvAndSend, TwoPerPeer, Alternate
<1>5. ASSUME NEW p \in Party
      PROVE  BulkSendAndRecv(n, p) = Alternate(p, Sends(n, TRUE)[p], Recvs(n, TRUE)[p])
  BY <1>1, <1>2 DEF BulkSendAndRecv, TwoPerPeer, Alternate
<1>6. QED
  BY <1>3, <1>4, <1>5, ExchangeMatched

(* The correlated OTs: a party reads on one connection of the pair and
   writes on the other.                                                    *)
LEMMA GetSockets ==
    ASSUME NEW p \in Party, NEW q \in Peers(p)
    PROVE  /\ Get(p > q) \in Sockets /\ Get(p < q) \in Sockets /\ Get(p > q) # Get(p < q)
           /\ \A s, r \in Sockets : s # r =>
                 /\ Ssl(p, SendOn(s, p, q)) # Ssl(p, SendOn(r, p, q))
                 /\ Ssl(p, SendOn(s, p, q)) # Ssl(p, RecvOn(r, p, q))
                 /\ Ssl(p, RecvOn(s, p, q)) # Ssl(p, RecvOn(r, p, q))
<1>1. p \in Int /\ q \in Int /\ p # q
  BY RoundsAssumption DEF Party, Peers
<1>2. Get(p > q) \in Sockets /\ Get(p < q) \in Sockets /\ Get(p > q) # Get(p < q)
  BY <1>1 DEF Get, Sockets
<1>3. QED
  BY <1>2 DEF Ssl, SendOn, RecvOn

(* Both ends pick the same connection of get.                              *)
LEMMA GetAgree ==
    ASSUME NEW c \in Channel
    PROVE  /\ Get(c[3] < c[4]) = Get(c[4] > c[3]) /\ Get(c[3] > c[4]) = Get(c[4] < c[3])
           /\ Get(c[3] < c[4]) \in Sockets /\ Get(c[3] > c[4]) \in Sockets
<1>1. c[3] \in Int /\ c[4] \in Int
  BY RoundsAssumption, ChannelParts DEF Party
<1>2. QED
  BY <1>1 DEF Get, Sockets

(* The peer a position of two tasks per peer belongs to.                   *)
LEMMA PeersInTurn ==
    ASSUME NEW p \in Party, NEW k \in 1..(2 * (N - 1))
    PROVE  /\ k % 2 = 1 => Peer(p, (k + 1) \div 2) \in Peers(p)
           /\ k % 2 # 1 => Peer(p, k \div 2) \in Peers(p) /\ (k + 1) \div 2 = k \div 2
<1>1. N - 1 \in Nat
  BY RoundsAssumption
<1>2. QED
  BY <1>1, Halves, PeerIndex

(* ABitMP::compute: what recv_cot writes is what send_cot reads.           *)
LEMMA AbitComputeMatched ==
    ASSUME NEW F, \A p \in Party : F[p] = AbitCompute(p)
    PROVE  Matched(F)
<1> DEFINE T == [p \in Party |-> [q \in Peers(p) |-> Load(TRUE, RecvOn(Get(p > q), p, q))]]
           U == [p \in Party |-> [q \in Peers(p) |-> Load(TRUE, SendOn(Get(p < q), p, q))]]
<1>1. \A p \in Party : \A q \in Peers(p) :
         /\ T[p][q] = Load(TRUE, RecvOn(Get(p > q), p, q))
         /\ U[p][q] = Load(TRUE, SendOn(Get(p < q), p, q))
  OBVIOUS
<1> HIDE DEF T, U
<1>2. ASSUME NEW p \in Party PROVE F[p] = Pool(Alternate(p, T[p], U[p]))
  <2>1. \A q \in Peers(p) : /\ T[p][q] = Bulk(RecvOn(Get(p > q), p, q))
                            /\ U[p][q] = Bulk(SendOn(Get(p < q), p, q))
    BY <1>1 DEF Load
  <2>2. QED
    BY <2>1, PeersInTurn DEF AbitCompute, TwoPerPeer, Alternate
<1>3. ASSUME NEW p \in Party, NEW q \in Peers(p)
      PROVE  /\ TalksTo(p, q, T[p][q]) /\ TalksTo(p, q, U[p][q])
             /\ \A x : Has(T[p][q], x) => x = RecvOn(Get(p > q), p, q)
             /\ \A x : Has(U[p][q], x) => x = SendOn(Get(p < q), p, q)
  <2> DEFINE x == RecvOn(Get(p > q), p, q)
             y == SendOn(Get(p < q), p, q)
  <2>1. Get(p > q) \in Sockets /\ Get(p < q) \in Sockets
    BY GetSockets
  <2>2. y \in Mine(p) /\ Other(p, y) = q /\ x \in Mine(p) /\ Other(p, x) = q
    BY <2>1, OpsOn
  <2>3. T[p][q] = Load(TRUE, x) /\ U[p][q] = Load(TRUE, y)
    BY <1>1
  <2> HIDE DEF x, y
  <2>4. TalksTo(p, q, T[p][q]) /\ \A z : Has(T[p][q], z) => z = x
    BY <2>2, <2>3, LoadTalks
  <2>5. TalksTo(p, q, U[p][q]) /\ \A z : Has(U[p][q], z) => z = y
    BY <2>2, <2>3, LoadTalks
  <2>6. QED
    BY <2>4, <2>5 DEF x, y
<1>4. \A p \in Party : Peerwise(p, T[p]) /\ Peerwise(p, U[p])
  BY <1>3 DEF Peerwise
<1>5. ASSUME NEW p \in Party PROVE Separate(p, T[p], U[p])
  <2> SUFFICES ASSUME NEW q \in Peers(p)
               PROVE  Ssl(p, RecvOn(Get(p > q), p, q)) # Ssl(p, SendOn(Get(p < q), p, q))
    BY <1>3 DEF Separate
  <2>1. QED
    BY GetSockets
<1>6. ASSUME NEW c \in Channel
      PROVE  Count(T[c[3]][c[4]], SendOp(c)) + Count(U[c[3]][c[4]], SendOp(c))
             = Count(T[c[4]][c[3]], RecvOp(c)) + Count(U[c[4]][c[3]], RecvOp(c))
  <2> DEFINE s == Get(c[3] < c[4])
             r == Get(c[3] > c[4])
  <2>0. s \in Sockets /\ r \in Sockets /\ Get(c[4] > c[3]) = s /\ Get(c[4] < c[3]) = r
    BY GetAgree
  <2>1. /\ T[c[3]][c[4]] = Load(TRUE, RecvOn(r, c[3], c[4]))
        /\ U[c[3]][c[4]] = Load(TRUE, SendOn(s, c[3], c[4]))
        /\ T[c[4]][c[3]] = Load(TRUE, RecvOn(s, c[4], c[3]))
        /\ U[c[4]][c[3]] = Load(TRUE, SendOn(r, c[4], c[3]))
    BY <1>1, <2>0, ChannelPeers
  <2> HIDE DEF s, r
  <2>2. /\ Count(T[c[3]][c[4]], SendOp(c))
             = Hit(RecvOn(r, c[3], c[4]), SendOp(c)) + Hit(RecvOn(r, c[3], c[4]), SendOp(c))
        /\ Count(U[c[3]][c[4]], SendOp(c))
             = Hit(SendOn(s, c[3], c[4]), SendOp(c)) + Hit(SendOn(s, c[3], c[4]), SendOp(c))
        /\ Count(T[c[4]][c[3]], RecvOp(c))
             = Hit(RecvOn(s, c[4], c[3]), RecvOp(c)) + Hit(RecvOn(s, c[4], c[3]), RecvOp(c))
        /\ Count(U[c[4]][c[3]], RecvOp(c))
             = Hit(SendOn(r, c[4], c[3]), RecvOp(c)) + Hit(SendOn(r, c[4], c[3]), RecvOp(c))
    BY <2>1, LoadCount
  <2>3. QED
    BY <2>0, <2>2, SameChannelOn
<1>7. QED
  BY <1>2, <1>4, <1>5, <1>6, PoolTwo

(* The base OTs.                                                           *)
LEMMA AbitSetupMatched ==
    ASSUME NEW F, \A p \in Party : F[p] = AbitSetup(p)
    PROVE  Matched(F)
<1> DEFINE T == [p \in Party |-> [q \in Peers(p) |-> IF p < q THEN SetupSend(p, q) ELSE SetupRecv(p, q)]]
           U == [p \in Party |-> [q \in Peers(p) |-> IF p < q THEN SetupRecv(p, q) ELSE SetupSend(p, q)]]
<1>1. \A p \in Party : \A q \in Peers(p) :
         /\ T[p][q] = IF p < q THEN SetupSend(p, q) ELSE SetupRecv(p, q)
         /\ U[p][q] = IF p < q THEN SetupRecv(p, q) ELSE SetupSend(p, q)
  OBVIOUS
<1> HIDE DEF T, U
<1>2. ASSUME NEW p \in Party PROVE F[p] = Pool(Alternate(p, T[p], U[p]))
  <2> DEFINE tasks == [k \in 1..(2 * (N - 1)) |->
                         LET q == Peer(p, (k + 1) \div 2)
                         IN  IF (k % 2 = 1) = (p < q) THEN SetupSend(p, q) ELSE SetupRecv(p, q)]
  <2>1. F[p] = Pool(tasks)
    BY DEF AbitSetup
  <2>2. ASSUME NEW k \in 1..(2 * (N - 1))
        PROVE  tasks[k] = IF k % 2 = 1 THEN T[p][Peer(p, (k + 1) \div 2)] ELSE U[p][Peer(p, k \div 2)]
    <3> DEFINE q == Peer(p, (k + 1) \div 2)
    <3>1. tasks[k] = IF (k % 2 = 1) = (p < q) THEN SetupSend(p, q) ELSE SetupRecv(p, q)
      OBVIOUS
    <3>2. CASE k % 2 = 1
      <4>1. q \in Peers(p)
        BY <3>2, PeersInTurn
      <4> HIDE DEF q
      <4>2. tasks[k] = IF p < q THEN SetupSend(p, q) ELSE SetupRecv(p, q)
        BY <3>1, <3>2
      <4>3. QED
        BY <1>1, <3>2, <4>1, <4>2 DEF q
    <3>3. CASE k % 2 # 1
      <4>1. q \in Peers(p) /\ q = Peer(p, k \div 2)
        BY <3>3, PeersInTurn
      <4> HIDE DEF q
      <4>2. tasks[k] = IF p < q THEN SetupRecv(p, q) ELSE SetupSend(p, q)
        BY <3>1, <3>3
      <4>3. QED
        BY <1>1, <3>3, <4>1, <4>2
    <3>4. QED
      BY <3>2, <3>3
  <2>3. tasks = Alternate(p, T[p], U[p])
    BY <2>2 DEF Alternate
  <2>4. QED
    BY <2>1, <2>3
<1>3. ASSUME NEW p \in Party, NEW q \in Peers(p)
      PROVE  /\ TalksTo(p, q, SetupSend(p, q)) /\ TalksTo(p, q, SetupRecv(p, q))
             /\ \A x : Has(SetupSend(p, q), x) =>
                   x = RecvOn(Get(p > q), p, q) \/ x = SendOn(Get(p > q), p, q)
             /\ \A x : Has(SetupRecv(p, q), x) =>
                   x = RecvOn(Get(p < q), p, q) \/ x = SendOn(Get(p < q), p, q)
  <2> DEFINE s == Get(p < q)
             r == Get(p > q)
  <2>1. s \in Sockets /\ r \in Sockets
    BY GetSockets
  <2>2. /\ SetupSend(p, q) = <<RecvOn(r, p, q), SendOn(r, p, q), RecvOn(r, p, q)>>
        /\ SetupRecv(p, q) = <<SendOn(s, p, q), RecvOn(s, p, q), SendOn(s, p, q)>>
    BY DEF SetupSend, SetupRecv, OtSend, OtRecv
  <2> HIDE DEF s, r
  <2>3. /\ SendOn(s, p, q) \in Mine(p) /\ Other(p, SendOn(s, p, q)) = q
        /\ RecvOn(s, p, q) \in Mine(p) /\ Other(p, RecvOn(s, p, q)) = q
        /\ SendOn(r, p, q) \in Mine(p) /\ Other(p, SendOn(r, p, q)) = q
        /\ RecvOn(r, p, q) \in Mine(p) /\ Other(p, RecvOn(r, p, q)) = q
    BY <2>1, OpsOn
  <2>4. /\ TalksTo(p, q, SetupSend(p, q)) 
        /\ \A x : Has(SetupSend(p, q), x) => x = RecvOn(r, p, q) \/ x = SendOn(r, p, q)
    BY <2>2, <2>3, TalksThree
  <2>5. /\ TalksTo(p, q, SetupRecv(p, q)) 
        /\ \A x : Has(SetupRecv(p, q), x) => x = RecvOn(s, p, q) \/ x = SendOn(s, p, q)
    BY <2>2, <2>3, TalksThree
  <2>6. QED
    BY <2>4, <2>5 DEF s, r
<1>4. \A p \in Party : Peerwise(p, T[p]) /\ Peerwise(p, U[p])
  BY <1>1, <1>3 DEF Peerwise
<1>5. ASSUME NEW p \in Party PROVE Separate(p, T[p], U[p])
  <2> SUFFICES ASSUME NEW q \in Peers(p), NEW x, NEW y, Has(T[p][q], x), Has(U[p][q], y)
               PROVE  Ssl(p, x) # Ssl(p, y)
    BY DEF Separate
  <2> DEFINE s == Get(p < q)
             r == Get(p > q)
  <2>1. \/ Has(SetupSend(p, q), x) /\ Has(SetupRecv(p, q), y)
        \/ Has(SetupSend(p, q), y) /\ Has(SetupRecv(p, q), x)
    BY <1>1
  <2>2. \/ x \in {RecvOn(r, p, q), SendOn(r, p, q)} /\ y \in {RecvOn(s, p, q), SendOn(s, p, q)}
        \/ y \in {RecvOn(r, p, q), SendOn(r, p, q)} /\ x \in {RecvOn(s, p, q), SendOn(s, p, q)}
    BY <1>3, <2>1
  <2>3. r \in Sockets /\ s \in Sockets /\ r # s
    BY GetSockets
  <2> HIDE DEF s, r
  <2>4. QED
    BY <2>2, <2>3, GetSockets
<1>6. ASSUME NEW c \in Channel
      PROVE  Count(T[c[3]][c[4]], SendOp(c)) + Count(U[c[3]][c[4]], SendOp(c))
             = Count(T[c[4]][c[3]], RecvOp(c)) + Count(U[c[4]][c[3]], RecvOp(c))
  <2> DEFINE s == Get(c[3] < c[4])
             r == Get(c[3] > c[4])
             a == c[3]
             b == c[4]
  <2>0. s \in Sockets /\ r \in Sockets /\ Get(b > a) = s /\ Get(b < a) = r
    BY GetAgree
  <2>1. /\ SetupSend(a, b) = <<RecvOn(r, a, b), SendOn(r, a, b), RecvOn(r, a, b)>>
        /\ SetupRecv(a, b) = <<SendOn(s, a, b), RecvOn(s, a, b), SendOn(s, a, b)>>
        /\ SetupSend(b, a) = <<RecvOn(s, b, a), SendOn(s, b, a), RecvOn(s, b, a)>>
        /\ SetupRecv(b, a) = <<SendOn(r, b, a), RecvOn(r, b, a), SendOn(r, b, a)>>
    BY <2>0 DEF SetupSend, SetupRecv, OtSend, OtRecv
  <2> HIDE DEF s, r
  <2>2. /\ Count(SetupSend(a, b), SendOp(c))
             = Hit(RecvOn(r, a, b), SendOp(c)) + Hit(SendOn(r, a, b), SendOp(c)) + Hit(RecvOn(r, a, b), SendOp(c))
        /\ Count(SetupRecv(a, b), SendOp(c))
             = Hit(SendOn(s, a, b), SendOp(c)) + Hit(RecvOn(s, a, b), SendOp(c)) + Hit(SendOn(s, a, b), SendOp(c))
        /\ Count(SetupSend(b, a), RecvOp(c))
             = Hit(RecvOn(s, b, a), RecvOp(c)) + Hit(SendOn(s, b, a), RecvOp(c)) + Hit(RecvOn(s, b, a), RecvOp(c))
        /\ Count(SetupRecv(b, a), RecvOp(c))
             = Hit(SendOn(r, b, a), RecvOp(c)) + Hit(RecvOn(r, b, a), RecvOp(c)) + Hit(SendOn(r, b, a), RecvOp(c))
    BY <2>1, CountThree
  <2>3. /\ Hit(SendOn(s, a, b), SendOp(c)) = Hit(RecvOn(s, b, a), RecvOp(c))
        /\ Hit(SendOn(r, a, b), SendOp(c)) = Hit(RecvOn(r, b, a), RecvOp(c))
        /\ Hit(SendOn(s, a, b), SendOp(c)) \in Nat /\ Hit(SendOn(r, a, b), SendOp(c)) \in Nat
        /\ Hit(RecvOn(s, a, b), SendOp(c)) = 0 /\ Hit(RecvOn(r, a, b), SendOp(c)) = 0
        /\ Hit(SendOn(s, b, a), RecvOp(c)) = 0 /\ Hit(SendOn(r, b, a), RecvOp(c)) = 0
    BY <2>0, SameChannelOn
  <2>4. Count(SetupSend(a, b), SendOp(c)) + Count(SetupRecv(a, b), SendOp(c))
        = Count(SetupSend(b, a), RecvOp(c)) + Count(SetupRecv(b, a), RecvOp(c))
    BY <2>2, <2>3
  <2>5. /\ Count(SetupSend(a, b), SendOp(c)) \in Nat /\ Count(SetupRecv(a, b), SendOp(c)) \in Nat
        /\ Count(SetupSend(b, a), RecvOp(c)) \in Nat /\ Count(SetupRecv(b, a), RecvOp(c)) \in Nat
    BY <2>2, <2>3
  <2>6. /\ T[a][b] = IF a < b THEN SetupSend(a, b) ELSE SetupRecv(a, b)
        /\ U[a][b] = IF a < b THEN SetupRecv(a, b) ELSE SetupSend(a, b)
        /\ T[b][a] = IF b < a THEN SetupSend(b, a) ELSE SetupRecv(b, a)
        /\ U[b][a] = IF b < a THEN SetupRecv(b, a) ELSE SetupSend(b, a)
    BY <1>1, ChannelPeers
  <2> HIDE DEF a, b
  <2>7. /\ Count(T[a][b], SendOp(c)) + Count(U[a][b], SendOp(c))
           = Count(SetupSend(a, b), SendOp(c)) + Count(SetupRecv(a, b), SendOp(c))
        /\ Count(T[b][a], RecvOp(c)) + Count(U[b][a], RecvOp(c))
           = Count(SetupSend(b, a), RecvOp(c)) + Count(SetupRecv(b, a), RecvOp(c))
    BY <2>5, <2>6
  <2>8. QED
    BY <2>4, <2>7 DEF a, b
<1>7. QED
  BY <1>2, <1>4, <1>5, <1>6, PoolTwo

(* The half gates: one task per pair, the lower party writes.              *)
LEMMA GarbleTriplesMatched ==
    ASSUME NEW F, \A p \in Party : F[p] = GarbleTriples(p)
    PROVE  Matched(F)
<1> DEFINE S == Sends(0, TRUE)
           R == Recvs(0, TRUE)
           T == [p \in Party |-> [q \in Peers(p) |-> IF p < q THEN S[p][q] ELSE R[p][q]]]
<1>0. 0 \in Nets
  BY DEF Nets
<1>1. \A p \in Party : \A q \in Peers(p) : T[p][q] = IF p < q THEN S[p][q] ELSE R[p][q]
  OBVIOUS
<1>2. ASSUME NEW p \in Party PROVE F[p] = Pool([k \in 1..(N - 1) |-> T[p][Peer(p, k)]])
  <2>1. \A q \in Peers(p) : T[p][q] = IF p < q THEN Bulk(Send(0, p, q)) ELSE Bulk(Recv(0, p, q))
    BY DEF Sends, Recvs, Load
  <2>2. \A k \in 1..(N - 1) : Peer(p, k) \in Peers(p)
    BY PeerIndex
  <2>3. F[p] = Pool([k \in 1..(N - 1) |-> IF p < Peer(p, k) THEN Bulk(Send(0, p, Peer(p, k)))
                                                            ELSE Bulk(Recv(0, p, Peer(p, k)))])
    BY DEF GarbleTriples, OnePerPeer
  <2> HIDE DEF T
  <2>4. QED
    BY <2>1, <2>2, <2>3
<1> HIDE DEF T
<1>3. ASSUME NEW p \in Party PROVE Peerwise(p, T[p])
  <2>1. Peerwise(p, S[p]) /\ Peerwise(p, R[p])
    BY <1>0, LoadsMatch
  <2>2. QED
    BY <1>1, <2>1 DEF Peerwise
<1>4. ASSUME NEW c \in Channel
      PROVE  Count(T[c[3]][c[4]], SendOp(c)) = Count(T[c[4]][c[3]], RecvOp(c))
  <2>1. /\ Count(S[c[3]][c[4]], SendOp(c)) = Count(R[c[4]][c[3]], RecvOp(c))
        /\ Count(R[c[3]][c[4]], SendOp(c)) = 0
        /\ Count(S[c[4]][c[3]], RecvOp(c)) = 0
    BY <1>0, LoadsMatch
  <2>2. /\ T[c[3]][c[4]] = IF c[3] < c[4] THEN S[c[3]][c[4]] ELSE R[c[3]][c[4]]
        /\ T[c[4]][c[3]] = IF c[4] < c[3] THEN S[c[4]][c[3]] ELSE R[c[4]][c[3]]
    BY <1>1, ChannelPeers
  <2>3. c[3] \in Int /\ c[4] \in Int /\ c[3] # c[4]
    BY RoundsAssumption, ChannelParts DEF Party
  <2> HIDE DEF S, R
  <2>4. QED
    BY <2>1, <2>2, <2>3
<1>5. QED
  BY <1>2, <1>3, <1>4, PoolOne

(* Steps in which party 1 hands the pool one task per peer and the main
   thread of everyone else talks to party 1.                               *)
LEMMA StarMatched ==
    ASSUME NEW T, \A p \in Party : Peerwise(p, T[p]),
           \A c \in Channel : c[3] = 1 \/ c[4] = 1 =>
               Count(T[c[3]][c[4]], SendOp(c)) = Count(T[c[4]][c[3]], RecvOp(c)),
           NEW F, F[1] = Pool([k \in 1..(N - 1) |-> T[1][Peer(1, k)]]),
           \A p \in Party \ {1} : F[p] = Main(T[p][1])
    PROVE  Matched(F)
<1>0. 1 \in Party /\ \A p \in Party \ {1} : 1 \in Peers(p)
  BY RoundsAssumption DEF Party, Peers
<1>1. /\ GoodStep(1, F[1])
      /\ \A op \in Mine(1) : Todo(F[1].tasks, op) = Count(T[1][Other(1, op)], op)
  <2> DEFINE tasks == [k \in 1..(N - 1) |-> T[1][Peer(1, k)]]
  <2>1. F[1] = [by |-> "pool", tasks |-> tasks]
    BY DEF Pool
  <2>2. /\ GoodTasks(1, tasks)
        /\ \A op \in Mine(1) : Todo(tasks, op) = Count(T[1][Other(1, op)], op)
    BY <1>0, OneTaskPerPeer
  <2> HIDE DEF tasks
  <2>3. F[1].tasks = tasks /\ GoodStep(1, F[1])
    BY <2>1, <2>2, GoodPool
  <2>4. QED
    BY <2>2, <2>3
<1>2. ASSUME NEW p \in Party \ {1}
      PROVE  /\ GoodStep(p, F[p])
             /\ \A op \in Mine(p) :
                   Todo(F[p].tasks, op) = IF Other(p, op) = 1 THEN Count(T[p][1], op) ELSE 0
  <2> DEFINE s == T[p][1]
             tasks == <<s>>
  <2>1. F[p] = [by |-> "main", tasks |-> tasks]
    BY DEF Main
  <2>2. TalksTo(p, 1, s)
    BY <1>0 DEF Peerwise
  <2> HIDE DEF s
  <2>3. /\ GoodTasks(p, tasks) /\ Len(tasks) = 1
        /\ \A op \in Mine(p) : Todo(tasks, op) = Count(s, op)
    BY <2>2, OneTask DEF TalksTo
  <2>4. GoodStep(p, F[p]) /\ F[p].tasks = tasks
    <3> HIDE DEF tasks
    <3>1. tasks \in Seq(Seq(Mine(p)))
      BY <2>3 DEF GoodTasks
    <3>2. F[p].by = "main" /\ F[p].tasks = tasks
      BY <2>1
    <3>3. F[p] \in [by : {"pool", "main", "begin", "end"}, tasks : Seq(Seq(Mine(p)))]
      BY <2>1, <3>1
    <3>4. QED
      BY <2>3, <3>2, <3>3 DEF GoodStep
  <2> HIDE DEF tasks
  <2>5. ASSUME NEW op \in Mine(p), Other(p, op) # 1 PROVE Count(s, op) = 0
    <3>1. s \in Seq(Mine(p)) /\ ~ Has(s, op)
      BY <2>2, <2>5 DEF TalksTo
    <3>2. QED
      BY <3>1, HasCount
  <2>6. QED
    BY <2>3, <2>4, <2>5 DEF s
<1>3. ASSUME NEW c \in Channel
      PROVE  Todo(F[c[3]].tasks, SendOp(c)) = Todo(F[c[4]].tasks, RecvOp(c))
  <2>1. c[3] \in Party /\ c[4] \in Party /\ c[3] # c[4]
    BY ChannelParts
  <2>2. SendOp(c) \in Mine(c[3]) /\ Other(c[3], SendOp(c)) = c[4]
    BY <2>1, MineParts
  <2>3. RecvOp(c) \in Mine(c[4]) /\ Other(c[4], RecvOp(c)) = c[3]
    BY <2>1, MineParts
  <2>4. CASE c[3] = 1
    <3>1. Todo(F[c[3]].tasks, SendOp(c)) = Count(T[c[3]][c[4]], SendOp(c))
      BY <1>1, <2>2, <2>4
    <3>2. Todo(F[c[4]].tasks, RecvOp(c)) = Count(T[c[4]][c[3]], RecvOp(c))
      BY <1>2, <2>1, <2>3, <2>4
    <3>3. QED
      BY <2>4, <3>1, <3>2
  <2>5. CASE c[4] = 1
    <3>1. Todo(F[c[3]].tasks, SendOp(c)) = Count(T[c[3]][c[4]], SendOp(c))
      BY <1>2, <2>1, <2>2, <2>5
    <3>2. Todo(F[c[4]].tasks, RecvOp(c)) = Count(T[c[4]][c[3]], RecvOp(c))
      BY <1>1, <2>3, <2>5
    <3>3. QED
      BY <2>5, <3>1, <3>2
  <2>6. CASE c[3] # 1 /\ c[4] # 1
    <3>1. Todo(F[c[3]].tasks, SendOp(c)) = 0
      BY <1>2, <2>1, <2>2, <2>6
    <3>2. Todo(F[c[4]].tasks, RecvOp(c)) = 0
      BY <1>2, <2>1, <2>3, <2>6
    <3>3. QED
      BY <3>1, <3>2
  <2>7. QED
    BY <2>4, <2>5, <2>6
<1>4. QED
  BY <1>1, <1>2, <1>3 DEF Matched

(* The peers of party 1, and party 1 as a peer.                            *)
LEMMA FirstPeers ==
    /\ 0 \in Nets /\ 1 \in Party /\ \A p \in Party \ {1} : 1 \in Peers(p)
    /\ \A k \in 1..(N - 1) : Peer(1, k) = k + 1 /\ k + 1 \in Peers(1)
<1>1. 1 \in Party
  BY RoundsAssumption DEF Party
<1>2. \A k \in 1..(N - 1) : Peer(1, k) = k + 1
  BY RoundsAssumption DEF Peer
<1>3. \A k \in 1..(N - 1) : Peer(1, k) \in Peers(1)
  BY <1>1, PeerIndex
<1>4. QED
  BY <1>1, <1>2, <1>3 DEF Nets, Peers

(* The rounds between party 1 and everyone else match.                     *)
LEMMA StarSteps ==
    ASSUME NEW F,
           \/ \A p \in Party : F[p] = ToEvaluator(p, Bulk)
           \/ \A p \in Party : F[p] = ToEvaluator(p, LAMBDA op : <<op>>)
           \/ \A p \in Party : F[p] = IF p = 1 THEN Pool([k \in 1..(N - 1) |-> <<Send(0, 1, k + 1)>>])
                                               ELSE Main(<<Recv(0, p, 1)>>)
    PROVE  Matched(F)
<1>0. /\ 0 \in Nets /\ 1 \in Party /\ \A p \in Party \ {1} : 1 \in Peers(p)
      /\ \A k \in 1..(N - 1) : Peer(1, k) = k + 1 /\ k + 1 \in Peers(1)
  BY FirstPeers
<1>1. ASSUME NEW b \in BOOLEAN, NEW p \in Party, NEW q \in Peers(p)
      PROVE  /\ Sends(0, b)[p][q] = Load(b, Send(0, p, q))
             /\ Recvs(0, b)[p][q] = Load(b, Recv(0, p, q))
  BY DEF Sends, Recvs
<1>2. ASSUME NEW b \in BOOLEAN,
             \A p \in Party : F[p] = IF p = 1 THEN Pool([k \in 1..(N - 1) |-> Load(b, Recv(0, 1, k + 1))])
                                              ELSE Main(Load(b, Send(0, p, 1)))
      PROVE  Matched(F)
  <2> DEFINE T == [p \in Party |-> IF p = 1 THEN Recvs(0, b)[p] ELSE Sends(0, b)[p]]
  <2>1. \A p \in Party : Peerwise(p, T[p])
    BY <1>0, LoadsMatch
  <2>2. ASSUME NEW c \in Channel, c[3] = 1 \/ c[4] = 1
        PROVE  Count(T[c[3]][c[4]], SendOp(c)) = Count(T[c[4]][c[3]], RecvOp(c))
    <3>1. c[3] \in Party /\ c[4] \in Party /\ c[3] # c[4]
      BY ChannelParts
    <3>2. QED
      BY <1>0, <2>2, <3>1, LoadsMatch
  <2>3. F[1] = Pool([k \in 1..(N - 1) |-> T[1][Peer(1, k)]])
    <3>1. F[1] = Pool([k \in 1..(N - 1) |-> Load(b, Recv(0, 1, k + 1))])
      BY <1>0, <1>2
    <3>2. T[1] = Recvs(0, b)[1]
      BY <1>0
    <3> HIDE DEF T
    <3>3. \A k \in 1..(N - 1) : T[1][Peer(1, k)] = Load(b, Recv(0, 1, k + 1))
      <4> SUFFICES ASSUME NEW k \in 1..(N - 1) PROVE T[1][Peer(1, k)] = Load(b, Recv(0, 1, k + 1))
        OBVIOUS
      <4>1. Peer(1, k) = k + 1 /\ k + 1 \in Peers(1) /\ 1 \in Party
        BY <1>0
      <4>2. Recvs(0, b)[1][k + 1] = Load(b, Recv(0, 1, k + 1))
        BY <1>1, <4>1
      <4>3. QED
        BY <3>2, <4>1, <4>2
    <3>4. QED
      BY <3>1, <3>3
  <2>4. \A p \in Party \ {1} : F[p] = Main(T[p][1])
    BY <1>0, <1>1, <1>2
  <2> HIDE DEF T
  <2>5. QED
    BY <2>1, <2>2, <2>3, <2>4, StarMatched
<1>3. ASSUME NEW b \in BOOLEAN,
             \A p \in Party : F[p] = IF p = 1 THEN Pool([k \in 1..(N - 1) |-> Load(b, Send(0, 1, k + 1))])
                                              ELSE Main(Load(b, Recv(0, p, 1)))
      PROVE  Matched(F)
  <2> DEFINE T == [p \in Party |-> IF p = 1 THEN Sends(0, b)[p] ELSE Recvs(0, b)[p]]
  <2>1. \A p \in Party : Peerwise(p, T[p])
    BY <1>0, LoadsMatch
  <2>2. ASSUME NEW c \in Channel, c[3] = 1 \/ c[4] = 1
        PROVE  Count(T[c[3]][c[4]], SendOp(c)) = Count(T[c[4]][c[3]], RecvOp(c))
    <3>1. c[3] \in Party /\ c[4] \in Party /\ c[3] # c[4]
      BY ChannelParts
    <3>2. QED
      BY <1>0, <2>2, <3>1, LoadsMatch
  <2>3. F[1] = Pool([k \in 1..(N - 1) |-> T[1][Peer(1, k)]])
    <3>1. F[1] = Pool([k \in 1..(N - 1) |-> Load(b, Send(0, 1, k + 1))])
      BY <1>0, <1>3
    <3>2. T[1] = Sends(0, b)[1]
      BY <1>0
    <3> HIDE DEF T
    <3>3. \A k \in 1..(N - 1) : T[1][Peer(1, k)] = Load(b, Send(0, 1, k + 1))
      <4> SUFFICES ASSUME NEW k \in 1..(N - 1) PROVE T[1][Peer(1, k)] = Load(b, Send(0, 1, k + 1))
        OBVIOUS
      <4>1. Peer(1, k) = k + 1 /\ k + 1 \in Peers(1) /\ 1 \in Party
        BY <1>0
      <4>2. Sends(0, b)[1][k + 1] = Load(b, Send(0, 1, k + 1))
        BY <1>1, <4>1
      <4>3. QED
        BY <3>2, <4>1, <4>2
    <3>4. QED
      BY <3>1, <3>3
  <2>4. \A p \in Party \ {1} : F[p] = Main(T[p][1])
    BY <1>0, <1>1, <1>3
  <2> HIDE DEF T
  <2>5. QED
    BY <2>1, <2>2, <2>3, <2>4, StarMatched
<1>4. CASE \A p \in Party : F[p] = ToEvaluator(p, Bulk)
  <2>1. \A p \in Party : F[p] = IF p = 1 THEN Pool([k \in 1..(N - 1) |-> Load(TRUE, Recv(0, 1, k + 1))])
                                         ELSE Main(Load(TRUE, Send(0, p, 1)))
    BY <1>4 DEF ToEvaluator, Load
  <2>2. QED
    BY <1>2, <2>1
<1>5. CASE \A p \in Party : F[p] = ToEvaluator(p, LAMBDA op : <<op>>)
  <2>1. \A p \in Party : F[p] = IF p = 1 THEN Pool([k \in 1..(N - 1) |-> Load(FALSE, Recv(0, 1, k + 1))])
                                         ELSE Main(Load(FALSE, Send(0, p, 1)))
    BY <1>5 DEF ToEvaluator, Load
  <2>2. QED
    BY <1>2, <2>1
<1>6. CASE \A p \in Party : F[p] = IF p = 1 THEN Pool([k \in 1..(N - 1) |-> <<Send(0, 1, k + 1)>>])
                                            ELSE Main(<<Recv(0, p, 1)>>)
  <2>1. \A p \in Party : F[p] = IF p = 1 THEN Pool([k \in 1..(N - 1) |-> Load(FALSE, Send(0, 1, k + 1))])
                                         ELSE Main(Load(FALSE, Recv(0, p, 1)))
    BY <1>6 DEF Load
  <2>2. QED
    BY <1>3, <2>1
<1>7. QED
  BY <1>4, <1>5, <1>6

\* The task of ABitMP::check starts or ends.
LEMMA ControlMatched ==
    ASSUME NEW F, NEW by \in {"begin", "end"}, \A p \in Party : F[p] = [by |-> by, tasks |-> <<>>]
    PROVE  Matched(F)
<1>1. ASSUME NEW p \in Party PROVE GoodStep(p, F[p])
  <2>1. <<>> \in Seq(Seq(Mine(p))) /\ Len(<<>>) = 0
    OBVIOUS
  <2>2. F[p].by = by /\ F[p].tasks = <<>>
    OBVIOUS
  <2>3. GoodTasks(p, F[p].tasks)
    BY <2>1, <2>2 DEF GoodTasks
  <2>4. F[p] \in [by : {"pool", "main", "begin", "end"}, tasks : Seq(Seq(Mine(p)))]
    <3> DEFINE e == <<>>
    <3>1. e \in Seq(Seq(Mine(p))) /\ F[p] = [by |-> by, tasks |-> e]
      OBVIOUS
    <3> HIDE DEF e
    <3>2. QED
      BY <3>1
  <2>5. QED
    BY <2>2, <2>3, <2>4 DEF GoodStep
<1>2. ASSUME NEW p \in Party, NEW op PROVE Todo(F[p].tasks, op) = 0
  <2>1. F[p].tasks = <<>>
    OBVIOUS
  <2>2. \A k \in 1..Len(F[p].tasks) : ~ Has(F[p].tasks[k], op)
    BY <2>1
  <2>3. QED
    BY <2>2, TodoNone
<1>3. QED
  BY <1>1, <1>2, ChannelParts DEF Matched

-----------------------------------------------------------------------------
(* The programs of all parties are lists of the same length whose k-th
   steps match.                                                            *)

StepOf(p) == [by : {"pool", "main", "begin", "end"}, tasks : Seq(Seq(Mine(p)))]

Aligned(P, n) ==
    /\ n \in Nat
    /\ \A p \in Party : P[p] \in Seq(StepOf(p)) /\ Len(P[p]) = n
    /\ \A k \in 1..n : Matched([p \in Party |-> P[p][k]])

(* Matching depends on the parties' steps only.                            *)
LEMMA MatchedSame ==
    ASSUME NEW F, Matched(F), NEW G, \A p \in Party : G[p] = F[p]
    PROVE  Matched(G)
BY ChannelParts DEF Matched

(* A step that matches is a step of its party.                             *)
LEMMA MatchedStep ==
    ASSUME NEW F, Matched(F), NEW p \in Party
    PROVE  F[p] \in StepOf(p)
BY DEF Matched, GoodStep, StepOf

(* Lists of steps that match one by one are aligned.                       *)
LEMMA AlignedMany ==
    ASSUME NEW n \in Nat, NEW F, \A k \in 1..n : Matched(F[k]),
           NEW P, \A p \in Party : /\ P[p] \in Seq(StepOf(p)) /\ Len(P[p]) = n
                                   /\ \A k \in 1..n : P[p][k] = F[k][p]
    PROVE  Aligned(P, n)
<1>1. ASSUME NEW k \in 1..n PROVE Matched([p \in Party |-> P[p][k]])
  <2>1. \A p \in Party : [q \in Party |-> P[q][k]][p] = F[k][p]
    OBVIOUS
  <2>2. QED
    BY <2>1, MatchedSame
<1>2. QED
  BY <1>1 DEF Aligned

(* Aligned lists one after the other are aligned.                          *)
LEMMA AlignedCat ==
    ASSUME NEW P, NEW m, Aligned(P, m), NEW Q, NEW n, Aligned(Q, n),
           NEW R, \A p \in Party : R[p] = P[p] \o Q[p]
    PROVE  Aligned(R, m + n)
<1>0. m \in Nat /\ n \in Nat
  BY DEF Aligned
<1>1. ASSUME NEW p \in Party
      PROVE  /\ R[p] \in Seq(StepOf(p)) /\ Len(R[p]) = m + n
             /\ \A k \in 1..(m + n) : R[p][k] = IF k <= m THEN P[p][k] ELSE Q[p][k - m]
  <2>1. P[p] \in Seq(StepOf(p)) /\ Len(P[p]) = m /\ Q[p] \in Seq(StepOf(p)) /\ Len(Q[p]) = n
    BY DEF Aligned
  <2> DEFINE S == StepOf(p)
             u == P[p]
             v == Q[p]
  <2>2. R[p] = u \o v /\ u \in Seq(S) /\ v \in Seq(S) /\ Len(u) = m /\ Len(v) = n
    BY <2>1
  <2> HIDE DEF S, u, v
  <2>a. /\ u \o v \in Seq(S) /\ Len(u \o v) = Len(u) + Len(v)
        /\ \A k \in 1..(Len(u) + Len(v)) :
              (u \o v)[k] = IF k <= Len(u) THEN u[k] ELSE v[k - Len(u)]
    BY <2>2, ConcatProperties
  <2>3. QED
    BY <2>2, <2>a DEF S, u, v
<1>2. ASSUME NEW k \in 1..(m + n) PROVE Matched([p \in Party |-> R[p][k]])
  <2> DEFINE G == [p \in Party |-> R[p][k]]
  <2>1. CASE k <= m
    <3> DEFINE H == [p \in Party |-> P[p][k]]
    <3>1. k \in 1..m
      BY <1>0, <2>1
    <3>2. Matched(H)
      BY <3>1 DEF Aligned
    <3>3. \A p \in Party : G[p] = H[p]
      BY <1>1, <2>1
    <3> HIDE DEF G, H
    <3>4. Matched(G)
      BY <3>2, <3>3, MatchedSame
    <3>5. QED
      BY <3>4 DEF G
  <2>2. CASE ~ (k <= m)
    <3> DEFINE H == [p \in Party |-> Q[p][k - m]]
    <3>1. k - m \in 1..n
      BY <1>0, <2>2
    <3>2. Matched(H)
      BY <3>1 DEF Aligned
    <3>3. \A p \in Party : G[p] = H[p]
      BY <1>1, <2>2
    <3> HIDE DEF G, H
    <3>4. Matched(G)
      BY <3>2, <3>3, MatchedSame
    <3>5. QED
      BY <3>4 DEF G
  <2>3. QED
    BY <2>1, <2>2
<1>3. QED
  BY <1>0, <1>1, <1>2 DEF Aligned

(* Short tuples are sequences.                                             *)
LEMMA SmallSeq ==
    ASSUME NEW S, NEW a \in S, NEW b \in S, NEW c \in S
    PROVE  /\ <<a>> \in Seq(S) /\ Len(<<a>>) = 1
           /\ <<a, b>> \in Seq(S) /\ Len(<<a, b>>) = 2
           /\ <<a, b, c>> \in Seq(S) /\ Len(<<a, b, c>>) = 3
OBVIOUS

(* One step that matches.                                                  *)
LEMMA AlignedOne ==
    ASSUME NEW F, Matched(F), NEW P, \A p \in Party : P[p] = <<F[p]>>
    PROVE  Aligned(P, 1)
<1> DEFINE n == 1
           H == [k \in 1..n |-> F]
<1>1. \A k \in 1..n : Matched(H[k])
  OBVIOUS
<1>2. ASSUME NEW p \in Party
      PROVE  P[p] \in Seq(StepOf(p)) /\ Len(P[p]) = n /\ \A k \in 1..n : P[p][k] = H[k][p]
  <2>1. F[p] \in StepOf(p)
    BY MatchedStep
  <2>2. P[p] \in Seq(StepOf(p)) /\ Len(P[p]) = n
    BY <2>1, SmallSeq
  <2>3. \A k \in 1..n : P[p][k] = H[k][p]
    OBVIOUS
  <2>4. QED
    BY <2>2, <2>3
<1>3. n \in Nat
  OBVIOUS
<1> HIDE DEF H, n
<1>4. Aligned(P, n)
  BY <1>1, <1>2, <1>3, AlignedMany
<1>5. QED
  BY <1>4 DEF n

(* Two steps that match.                                                   *)
LEMMA AlignedTwo ==
    ASSUME NEW F, NEW G, Matched(F), Matched(G), NEW P, \A p \in Party : P[p] = <<F[p], G[p]>>
    PROVE  Aligned(P, 2)
<1> DEFINE n == 2
           H == [k \in 1..n |-> IF k = 1 THEN F ELSE G]
<1>1. \A k \in 1..n : Matched(H[k])
  OBVIOUS
<1>2. ASSUME NEW p \in Party
      PROVE  P[p] \in Seq(StepOf(p)) /\ Len(P[p]) = n /\ \A k \in 1..n : P[p][k] = H[k][p]
  <2>1. F[p] \in StepOf(p) /\ G[p] \in StepOf(p)
    BY MatchedStep
  <2>2. P[p] \in Seq(StepOf(p)) /\ Len(P[p]) = n
    BY <2>1, SmallSeq
  <2>3. \A k \in 1..n : P[p][k] = H[k][p]
    OBVIOUS
  <2>4. QED
    BY <2>2, <2>3
<1>3. n \in Nat
  OBVIOUS
<1> HIDE DEF H, n
<1>4. Aligned(P, n)
  BY <1>1, <1>2, <1>3, AlignedMany
<1>5. QED
  BY <1>4 DEF n

(* Three steps that match.                                                 *)
LEMMA AlignedThree ==
    ASSUME NEW F, NEW G, NEW E, Matched(F), Matched(G), Matched(E), NEW P, \A p \in Party : P[p] = <<F[p], G[p], E[p]>>
    PROVE  Aligned(P, 3)
<1> DEFINE n == 3
           H == [k \in 1..n |-> IF k = 1 THEN F ELSE IF k = 2 THEN G ELSE E]
<1>1. \A k \in 1..n : Matched(H[k])
  OBVIOUS
<1>2. ASSUME NEW p \in Party
      PROVE  P[p] \in Seq(StepOf(p)) /\ Len(P[p]) = n /\ \A k \in 1..n : P[p][k] = H[k][p]
  <2>1. F[p] \in StepOf(p) /\ G[p] \in StepOf(p) /\ E[p] \in StepOf(p)
    BY MatchedStep
  <2>2. P[p] \in Seq(StepOf(p)) /\ Len(P[p]) = n
    <3>1. <<F[p], G[p], E[p]>> \in Seq(StepOf(p)) /\ Len(<<F[p], G[p], E[p]>>) = 3
      BY <2>1, SmallSeq
    <3>2. P[p] = <<F[p], G[p], E[p]>>
      OBVIOUS
    <3>3. QED
      BY <3>1, <3>2
  <2>3. \A k \in 1..n : P[p][k] = H[k][p]
    OBVIOUS
  <2>4. QED
    BY <2>2, <2>3
<1>3. n \in Nat
  OBVIOUS
<1> HIDE DEF H, n
<1>4. Aligned(P, n)
  BY <1>1, <1>2, <1>3, AlignedMany
<1>5. QED
  BY <1>4 DEF n

(* The parts of the program, one after the other.                          *)
LEMMA StepsMatched ==
    ASSUME NEW n \in Nets
    PROVE  /\ Matched([p \in Party |-> Pool(SendThenRecv(n, p))])
           /\ Matched([p \in Party |-> Pool(SendAndRecv(n, p))])
           /\ Matched([p \in Party |-> Pool(RecvAndSend(n, p))])
           /\ Matched([p \in Party |-> Pool(BulkSendAndRecv(n, p))])
           /\ Matched([p \in Party |-> AbitCompute(p)])
           /\ Matched([p \in Party |-> AbitSetup(p)])
           /\ Matched([p \in Party |-> GarbleTriples(p)])
<1>1. Matched([p \in Party |-> Pool(SendThenRecv(n, p))])
  BY SendThenRecvMatched
<1>2. Matched([p \in Party |-> Pool(SendAndRecv(n, p))])
  BY ExchangeSteps
<1>3. Matched([p \in Party |-> Pool(RecvAndSend(n, p))])
  BY ExchangeSteps
<1>4. Matched([p \in Party |-> Pool(BulkSendAndRecv(n, p))])
  BY ExchangeSteps
<1>5. Matched([p \in Party |-> AbitCompute(p)])
  BY AbitComputeMatched
<1>6. Matched([p \in Party |-> AbitSetup(p)])
  BY AbitSetupMatched
<1>7. Matched([p \in Party |-> GarbleTriples(p)])
  BY GarbleTriplesMatched
<1>8. QED
  BY <1>1, <1>2, <1>3, <1>4, <1>5, <1>6, <1>7

Rounds(P) == \E n : Aligned(P, n)
Joins(P, Q, R) == \A p \in Party : R[p] = P[p] \o Q[p]

(* Rounds after rounds are rounds.                                         *)
LEMMA RoundsCat ==
    ASSUME NEW P, NEW Q, Rounds(P), Rounds(Q), NEW R, Joins(P, Q, R)
    PROVE  Rounds(R)
<1>1. PICK m : Aligned(P, m)
  BY DEF Rounds
<1>2. PICK n : Aligned(Q, n)
  BY DEF Rounds
<1>3. Aligned(R, m + n)
  BY <1>1, <1>2, AlignedCat DEF Joins
<1>4. QED
  BY <1>3 DEF Rounds

(* sampleRandom: the commit round and the opening round.                   *)
LEMMA SampleRandomRounds ==
    ASSUME NEW n \in Nets
    PROVE  Rounds([p \in Party |-> SampleRandom(n, p)])
<1> DEFINE F == [p \in Party |-> Pool(SendThenRecv(n, p))]
           P == [p \in Party |-> SampleRandom(n, p)]
<1>1. Matched(F)
  BY StepsMatched
<1>2. \A p \in Party : P[p] = <<F[p], F[p]>>
  BY DEF SampleRandom
<1> HIDE DEF F, P
<1>3. Rounds(P)
  BY <1>1, <1>2, AlignedTwo DEF Rounds
<1>4. QED
  BY <1>3 DEF P

(* ABitMP::check.                                                          *)
LEMMA CheckRounds == Rounds([p \in Party |-> Check(p)])
<1> DEFINE B == [p \in Party |-> [by |-> "begin", tasks |-> <<>>]]
           E == [p \in Party |-> [by |-> "end", tasks |-> <<>>]]
           X == [p \in Party |-> Pool(SendThenRecv(1, p))]
           Y == [p \in Party |-> Pool(SendAndRecv(1, p))]
           P1 == [p \in Party |-> <<B[p]>>]
           P2 == [p \in Party |-> SampleRandom(1, p)]
           P3 == [p \in Party |-> <<Y[p]>>]
           P4 == [p \in Party |-> <<X[p], Y[p], Y[p]>>]
           P5 == [p \in Party |-> <<E[p]>>]
           Q1 == [p \in Party |-> P1[p] \o P2[p]]
           Q2 == [p \in Party |-> Q1[p] \o P3[p]]
           Q3 == [p \in Party |-> Q2[p] \o P4[p]]
           Q4 == [p \in Party |-> Q3[p] \o P5[p]]
<1>0. 1 \in Nets
  BY DEF Nets
<1>1. Matched(B)
  BY ControlMatched
<1>2. Matched(E)
  BY ControlMatched
<1>3. Matched(X) /\ Matched(Y)
  BY <1>0, StepsMatched
<1>4. Rounds(P2)
  BY <1>0, SampleRandomRounds
<1>5. \A p \in Party : P1[p] = <<B[p]>> /\ P3[p] = <<Y[p]>> /\ P4[p] = <<X[p], Y[p], Y[p]>> /\ P5[p] = <<E[p]>>
  OBVIOUS
<1>6. /\ Joins(P1, P2, Q1) /\ Joins(Q1, P3, Q2)
      /\ Joins(Q2, P4, Q3) /\ Joins(Q3, P5, Q4)
  BY DEF Joins
<1>7. [p \in Party |-> Check(p)] = Q4
  BY DEF Check, Check1, Check2
<1> HIDE DEF B, E, X, Y, P1, P2, P3, P4, P5, Q1, Q2, Q3, Q4
<1>8. Rounds(P1) /\ Rounds(P3) /\ Rounds(P5)
  BY <1>1, <1>2, <1>3, <1>5, AlignedOne DEF Rounds
<1>9. Rounds(P4)
  BY <1>3, <1>5, AlignedThree DEF Rounds
<1>10. Rounds(Q1)
  BY <1>4, <1>6, <1>8, RoundsCat
<1>11. Rounds(Q2)
  BY <1>6, <1>8, <1>10, RoundsCat
<1>12. Rounds(Q3)
  BY <1>6, <1>9, <1>11, RoundsCat
<1>13. Rounds(Q4)
  BY <1>6, <1>8, <1>12, RoundsCat
<1>14. QED
  BY <1>7, <1>13

(* FpreMP::compute.                                                        *)
LEMMA TriplesRounds == Rounds([p \in Party |-> Triples(p)])
<1> DEFINE A == [p \in Party |-> AbitCompute(p)]
           G == [p \in Party |-> GarbleTriples(p)]
           X == [p \in Party |-> Pool(SendAndRecv(0, p))]
           Y == [p \in Party |-> Pool(BulkSendAndRecv(0, p))]
           Z == [p \in Party |-> Pool(SendThenRecv(0, p))]
           P1 == [p \in Party |-> <<A[p], G[p], X[p]>>]
           P2 == [p \in Party |-> Check(p)]
           P3 == [p \in Party |-> <<Y[p]>>]
           P4 == [p \in Party |-> SampleRandom(0, p)]
           P5 == [p \in Party |-> <<Z[p], Z[p]>>]
           P6 == [p \in Party |-> <<X[p]>>]
           Q1 == [p \in Party |-> P1[p] \o P2[p]]
           Q2 == [p \in Party |-> Q1[p] \o P3[p]]
           Q3 == [p \in Party |-> Q2[p] \o P4[p]]
           Q4 == [p \in Party |-> Q3[p] \o P5[p]]
           Q5 == [p \in Party |-> Q4[p] \o P4[p]]
           Q6 == [p \in Party |-> Q5[p] \o P6[p]]
<1>0. 0 \in Nets
  BY DEF Nets
<1>1. Matched(A) /\ Matched(G) /\ Matched(X) /\ Matched(Y) /\ Matched(Z)
  BY <1>0, StepsMatched
<1>2. Rounds(P2)
  BY CheckRounds
<1>3. Rounds(P4)
  BY <1>0, SampleRandomRounds
<1>a. \A p \in Party : P1[p] = <<A[p], G[p], X[p]>>
  OBVIOUS
<1>4. \A p \in Party : P3[p] = <<Y[p]>> /\ P5[p] = <<Z[p], Z[p]>> /\ P6[p] = <<X[p]>>
  OBVIOUS
<1>5. /\ Joins(P1, P2, Q1) /\ Joins(Q1, P3, Q2)
      /\ Joins(Q2, P4, Q3) /\ Joins(Q3, P5, Q4)
      /\ Joins(Q4, P4, Q5) /\ Joins(Q5, P6, Q6)
  BY DEF Joins
<1>6. [p \in Party |-> Triples(p)] = Q6
  BY DEF Triples
<1> HIDE DEF A, G, X, Y, Z, P1, P2, P3, P4, P5, P6, Q1, Q2, Q3, Q4, Q5, Q6
<1>7. Rounds(P1)
  BY <1>1, <1>a, AlignedThree DEF Rounds
<1>8. Rounds(P3) /\ Rounds(P6)
  BY <1>1, <1>4, AlignedOne DEF Rounds
<1>9. Rounds(P5)
  BY <1>1, <1>4, AlignedTwo DEF Rounds
<1>10. Rounds(Q1)
  BY <1>2, <1>5, <1>7, RoundsCat
<1>11. Rounds(Q2)
  BY <1>5, <1>8, <1>10, RoundsCat
<1>12. Rounds(Q3)
  BY <1>3, <1>5, <1>11, RoundsCat
<1>13. Rounds(Q4)
  BY <1>5, <1>9, <1>12, RoundsCat
<1>14. Rounds(Q5)
  BY <1>3, <1>5, <1>13, RoundsCat
<1>15. Rounds(Q6)
  BY <1>5, <1>8, <1>14, RoundsCat
<1>16. QED
  BY <1>6, <1>15

(* FlexIn::input, the evaluation and FlexOut::output.                      *)
LEMMA OnlineRounds == Rounds([p \in Party |-> Online(p)])
<1> DEFINE n == 5
           X == [p \in Party |-> Pool(RecvAndSend(0, p))]
           E == [p \in Party |-> ToEvaluator(p, LAMBDA op : <<op>>)]
           Y == [p \in Party |-> IF p = 1 THEN Pool([k \in 1..(N - 1) |-> <<Send(0, 1, k + 1)>>])
                                          ELSE Main(<<Recv(0, p, 1)>>)]
           H == [k \in 1..n |-> X]
           P1 == [p \in Party |-> FlexInput(p)]
           P2 == [p \in Party |-> <<E[p]>>]
           P3 == [p \in Party |-> <<Y[p], X[p]>>]
           Q1 == [p \in Party |-> P1[p] \o P2[p]]
           Q2 == [p \in Party |-> Q1[p] \o P3[p]]
<1>0. 0 \in Nets /\ n \in Nat
  BY DEF Nets
<1>1. Matched(X)
  BY <1>0, StepsMatched
<1>2. Matched(E)
  BY StarSteps
<1>3. Matched(Y)
  BY StarSteps
<1>4. \A p \in Party : P2[p] = <<E[p]>> /\ P3[p] = <<Y[p], X[p]>>
  OBVIOUS
<1>5. /\ Joins(P1, P2, Q1) /\ Joins(Q1, P3, Q2)
  BY DEF Joins
<1>6. [p \in Party |-> Online(p)] = Q2
  BY DEF Online, FlexOutput
<1>7. \A p \in Party : P1[p] = [k \in 1..n |-> X[p]]
  BY DEF FlexInput
<1>8. \A k \in 1..n : H[k] = X
  OBVIOUS
<1> HIDE DEF n, X, E, Y, H, P1, P2, P3, Q1, Q2
<1>9. Rounds(P1)
  <2>1. ASSUME NEW p \in Party
        PROVE  P1[p] \in Seq(StepOf(p)) /\ Len(P1[p]) = n /\ \A k \in 1..n : P1[p][k] = H[k][p]
    <3>1. X[p] \in StepOf(p)
      BY <1>1, MatchedStep
    <3>2. P1[p] \in [1..n -> StepOf(p)]
      BY <1>7, <3>1
    <3>3. P1[p] \in Seq(StepOf(p)) /\ Len(P1[p]) = n
      BY <1>0, <3>2, FunctionIsSequence
    <3>4. ASSUME NEW k \in 1..n PROVE P1[p][k] = H[k][p]
      <4>1. P1[p][k] = X[p]
        BY <1>7
      <4>2. H[k] = X
        BY <1>8
      <4>3. QED
        BY <4>1, <4>2
    <3>5. QED
      BY <3>3, <3>4
  <2>2. \A k \in 1..n : Matched(H[k])
    BY <1>1, <1>8
  <2>3. Aligned(P1, n)
    BY <1>0, <2>1, <2>2, AlignedMany
  <2>4. QED
    BY <2>3 DEF Rounds
<1>10. Rounds(P2)
  BY <1>2, <1>4, AlignedOne DEF Rounds
<1>11. Rounds(P3)
  BY <1>1, <1>3, <1>4, AlignedTwo DEF Rounds
<1>12. Rounds(Q1)
  BY <1>5, <1>9, <1>10, RoundsCat
<1>13. Rounds(Q2)
  BY <1>5, <1>11, <1>12, RoundsCat
<1>14. QED
  BY <1>6, <1>13

(* The programs of the parties have the same number of steps, and in every
   step what one party writes the others read.                             *)
LEMMA ProgramAligned == Aligned(Program, Last)
<1> DEFINE S == [p \in Party |-> AbitSetup(p)]
           A == [p \in Party |-> AbitCompute(p)]
           X == [p \in Party |-> Pool(SendAndRecv(0, p))]
           E == [p \in Party |-> ToEvaluator(p, Bulk)]
           P0 == [p \in Party |-> <<S[p]>>]
           P1 == [p \in Party |-> Triples(p)]
           P2 == [p \in Party |-> <<A[p]>>]
           P3 == [p \in Party |-> Check(p)]
           P4 == [p \in Party |-> <<X[p], E[p]>>]
           P5 == [p \in Party |-> Online(p)]
           Q1 == [p \in Party |-> P1[p] \o P2[p]]
           Q2 == [p \in Party |-> Q1[p] \o P3[p]]
           Q3 == [p \in Party |-> P0[p] \o Q2[p]]
           Q4 == [p \in Party |-> Q3[p] \o P4[p]]
           Q5 == [p \in Party |-> Q4[p] \o P5[p]]
<1>0. 0 \in Nets /\ 1 \in Party
  BY FirstPeers
<1>1. Matched(S) /\ Matched(A) /\ Matched(X)
  BY <1>0, StepsMatched
<1>2. Matched(E)
  BY StarSteps
<1>3. Rounds(P1) /\ Rounds(P3) /\ Rounds(P5)
  BY TriplesRounds, CheckRounds, OnlineRounds
<1>4. \A p \in Party : P0[p] = <<S[p]>> /\ P2[p] = <<A[p]>> /\ P4[p] = <<X[p], E[p]>>
  OBVIOUS
<1>5. /\ Joins(P1, P2, Q1) /\ Joins(Q1, P3, Q2)
      /\ Joins(P0, Q2, Q3) /\ Joins(Q3, P4, Q4)
      /\ Joins(Q4, P5, Q5)
  BY DEF Joins
<1>6. Program = Q5
  BY DEF Program, FunctionIndependent, FunctionDependent
<1> HIDE DEF S, A, X, E, P0, P1, P2, P3, P4, P5, Q1, Q2, Q3, Q4, Q5
<1>7. Rounds(P0) /\ Rounds(P2)
  BY <1>1, <1>4, AlignedOne DEF Rounds
<1>8. Rounds(P4)
  BY <1>1, <1>2, <1>4, AlignedTwo DEF Rounds
<1>9. Rounds(Q1)
  BY <1>3, <1>5, <1>7, RoundsCat
<1>10. Rounds(Q2)
  BY <1>3, <1>5, <1>9, RoundsCat
<1>11. Rounds(Q3)
  BY <1>5, <1>7, <1>10, RoundsCat
<1>12. Rounds(Q4)
  BY <1>5, <1>8, <1>11, RoundsCat
<1>13. Rounds(Q5)
  BY <1>3, <1>5, <1>12, RoundsCat
<1>14. PICK n : Aligned(Program, n)
  BY <1>6, <1>13 DEF Rounds
<1>15. Last = n
  BY <1>0, <1>14 DEF Last, Aligned
<1>16. QED
  BY <1>14, <1>15

-----------------------------------------------------------------------------
(* The inductive invariant.  What p still has to do in its step is Tasks(p);
   what it has done is the rest of the step.  A socket holds, of the messages
   of every step, those sent and not yet received, oldest step first.      *)

Tasks(p) == IF direct[p] = <<>> THEN queue[p] ELSE <<direct[p]>>

Size(k, c) == Todo(Program[c[3]][k].tasks, SendOp(c))

Sent(c, k) ==
    IF pc[c[3]] > k THEN Size(k, c)
    ELSE IF pc[c[3]] = k THEN Size(k, c) - Todo(Tasks(c[3]), SendOp(c)) ELSE 0

Rcvd(c, k) ==
    IF pc[c[4]] > k THEN Size(k, c)
    ELSE IF pc[c[4]] = k THEN Size(k, c) - Todo(Tasks(c[4]), RecvOp(c)) ELSE 0

StateType ==
    /\ pc \in [Party -> 0..(Last + 1)]
    /\ DOMAIN queue = Party /\ DOMAIN direct = Party
    /\ checking \in [Party -> BOOLEAN]
    /\ chan \in [Channel -> Seq(1..Last)]
    /\ down \subseteq Party

TaskInv ==
    \A p \in Party :
        /\ queue[p] \in Seq(Seq(Mine(p))) /\ direct[p] \in Seq(Mine(p))
        /\ GoodTasks(p, Tasks(p))
        /\ direct[p] # <<>> => queue[p] = <<>>
        /\ pc[p] \notin 1..Last => queue[p] = <<>> /\ direct[p] = <<>>

\* No party has more left to do on a socket than its step has.
LeftInv ==
    \A c \in Channel :
        /\ pc[c[3]] \in 1..Last => Todo(Tasks(c[3]), SendOp(c)) <= Size(pc[c[3]], c)
        /\ pc[c[4]] \in 1..Last => Todo(Tasks(c[4]), RecvOp(c)) <= Size(pc[c[4]], c)

CountInv == \A c \in Channel : \A k \in 1..Last : Count(chan[c], k) + Rcvd(c, k) = Sent(c, k)

OrderInv ==
    \A c \in Channel :
        /\ Len(chan[c]) <= Cap
        /\ \A i \in 1..Len(chan[c]) : chan[c][i] <= pc[c[3]]
        /\ \A i, j \in 1..Len(chan[c]) : i <= j => chan[c][i] <= chan[c][j]

RoundsInv == StateType /\ TaskInv /\ LeftInv /\ CountInv /\ OrderInv

(* The step a party enters is a sound one.                                 *)
LEMMA StepFacts ==
    ASSUME NEW k \in 1..Last
    PROVE  /\ \A p \in Party : GoodStep(p, Program[p][k])
           /\ \A c \in Channel : /\ Size(k, c) = Todo(Program[c[4]][k].tasks, RecvOp(c))
                                 /\ Size(k, c) \in Nat
<1> DEFINE F == [p \in Party |-> Program[p][k]]
<1>1. Matched(F)
  BY ProgramAligned DEF Aligned
<1>2. \A p \in Party : F[p] = Program[p][k]
  OBVIOUS
<1> HIDE DEF F
<1>3. \A p \in Party : GoodStep(p, Program[p][k])
  BY <1>1, <1>2 DEF Matched
<1>4. ASSUME NEW c \in Channel
      PROVE  Size(k, c) = Todo(Program[c[4]][k].tasks, RecvOp(c)) /\ Size(k, c) \in Nat
  <2>1. c[3] \in Party /\ c[4] \in Party
    BY ChannelParts
  <2>2. Size(k, c) = Todo(Program[c[4]][k].tasks, RecvOp(c))
    BY <1>1, <1>2, <2>1 DEF Matched, Size
  <2>3. GoodTasks(c[3], Program[c[3]][k].tasks)
    BY <1>3, <2>1 DEF GoodStep
  <2>4. Apart(Program[c[3]][k].tasks, SendOp(c)) /\ Program[c[3]][k].tasks \in Seq(Seq(Mine(c[3])))
    <3>1. SendOp(c) \in Mine(c[3])
      BY <2>1, MineParts
    <3>2. QED
      BY <2>3, <3>1 DEF GoodTasks, Apart
  <2>5. Size(k, c) \in Nat
    BY <2>4, TodoNat DEF Size
  <2>6. QED
    BY <2>2, <2>5
<1>5. QED
  BY <1>3, <1>4

(* The number of steps.                                                    *)
LEMMA LastNat == Last \in Nat
BY ProgramAligned DEF Aligned

(* Of sound tasks, at most one has a given operation.                      *)
LEMMA GoodApart ==
    ASSUME NEW p, NEW tasks, GoodTasks(p, tasks), NEW op \in Mine(p)
    PROVE  Apart(tasks, op) /\ Todo(tasks, op) \in Nat
<1>1. Apart(tasks, op)
  BY DEF GoodTasks, Apart
<1>2. QED
  BY <1>1, TodoNat DEF GoodTasks

(* Of no tasks nothing is left to do.                                      *)
LEMMA TodoEmpty == ASSUME NEW op PROVE Todo(<<>>, op) = 0
<1>1. \A k \in 1..Len(<<>>) : ~ Has(<<>>[k], op)
  OBVIOUS
<1>2. QED
  BY <1>1, TodoNone

(* Head and tail of a sequence that is not empty.                          *)
LEMMA HeadFacts ==
    ASSUME NEW S, NEW s \in Seq(S), s # <<>>
    PROVE  /\ Head(s) \in S /\ Head(s) = s[1] /\ Has(s, Head(s))
           /\ Len(s) \in Nat \ {0} /\ 1 \in 1..Len(s)
           /\ Tail(s) \in Seq(S) /\ Len(Tail(s)) = Len(s) - 1
           /\ \A i \in 1..Len(Tail(s)) : Tail(s)[i] = s[i + 1] /\ i + 1 \in 1..Len(s)
<1>1. /\ Head(s) \in S /\ Head(s) = s[1]
      /\ Len(s) \in Nat \ {0} /\ 1 \in 1..Len(s)
      /\ Tail(s) \in Seq(S) /\ Len(Tail(s)) = Len(s) - 1
      /\ \A i \in 1..Len(Tail(s)) : Tail(s)[i] = s[i + 1] /\ i + 1 \in 1..Len(s)
  OBVIOUS
<1>2. Has(s, Head(s))
  BY <1>1 DEF Has
<1>3. QED
  BY <1>1, <1>2

(* The tail of a longer sequence is not empty and has nothing new.         *)
LEMMA TailHas ==
    ASSUME NEW S, NEW s \in Seq(S), Len(s) > 1
    PROVE  Tail(s) # <<>> /\ \A x : Has(Tail(s), x) => Has(s, x)
<1>1. /\ Tail(s) \in Seq(S) /\ Len(Tail(s)) = Len(s) - 1 /\ Len(s) \in Nat
      /\ \A i \in 1..Len(Tail(s)) : Tail(s)[i] = s[i + 1]
  OBVIOUS
<1>2. Tail(s) # <<>>
  <2>1. Len(s) - 1 # 0
    BY <1>1
  <2>2. Len(<<>>) = 0
    OBVIOUS
  <2>3. QED
    BY <1>1, <2>1, <2>2
<1>3. ASSUME NEW x, NEW i \in 1..Len(Tail(s)), Tail(s)[i] = x
      PROVE  i + 1 \in 1..Len(s) /\ s[i + 1] = x
  BY <1>1, <1>3
<1>4. QED
  BY <1>2, <1>3 DEF Has

(* What remains after an operation is still sound.                         *)
LEMMA GoodRest ==
    ASSUME NEW p, NEW tasks, GoodTasks(p, tasks), NEW k \in 1..Len(tasks)
    PROVE  GoodTasks(p, Rest(tasks, k))
<1> DEFINE R == Rest(tasks, k)
           s == tasks[k]
           M == Mine(p)
<1>1. tasks \in Seq(Seq(M)) /\ s \in Seq(M) /\ s # <<>> /\ Len(tasks) \in Nat
  BY DEF GoodTasks
<1>2. Len(s) \in Nat \ {0}
  BY <1>1
<1>3. \A j \in 1..Len(tasks) : tasks[j] # <<>>
  BY DEF GoodTasks
<1>4. \A i, j \in 1..Len(tasks) : \A x, y \in M :
         Has(tasks[i], x) /\ Has(tasks[j], y) /\ Ssl(p, x) = Ssl(p, y) => i = j
  BY DEF GoodTasks
<1>5. CASE Len(s) > 1
  <2>1. /\ R \in Seq(Seq(M)) /\ Len(R) = Len(tasks)
        /\ \A j \in 1..Len(tasks) : R[j] = IF j = k THEN Tail(s) ELSE tasks[j]
    BY <1>1, <1>5, RestLong
  <2>2. Tail(s) # <<>> /\ \A x : Has(Tail(s), x) => Has(s, x)
    BY <1>1, <1>5, TailHas
  <2> HIDE DEF R, M
  <2>3. \A j \in 1..Len(R) : R[j] # <<>> /\ \A x : Has(R[j], x) => Has(tasks[j], x)
    BY <1>3, <2>1, <2>2
  <2>4. \A i, j \in 1..Len(R) : \A x, y \in M :
           Has(R[i], x) /\ Has(R[j], y) /\ Ssl(p, x) = Ssl(p, y) => i = j
    BY <1>4, <2>1, <2>3
  <2>5. QED
    BY <2>1, <2>3, <2>4 DEF GoodTasks, R, M
<1>6. CASE Len(s) = 1
  <2>1. /\ R \in Seq(Seq(M)) /\ Len(R) = Len(tasks) - 1
        /\ \A j \in 1..(Len(tasks) - 1) : R[j] = IF j < k THEN tasks[j] ELSE tasks[j + 1]
    BY <1>1, <1>6, RestShort
  <2> HIDE DEF R, M, s
  <2> DEFINE old(j) == IF j < k THEN j ELSE j + 1
  <2>2. \A j \in 1..Len(R) : old(j) \in 1..Len(tasks) /\ R[j] = tasks[old(j)]
    <3>1. ASSUME NEW j \in 1..Len(R), j < k
          PROVE  j \in 1..Len(tasks) /\ R[j] = tasks[j]
      <4>1. j \in 1..(Len(tasks) - 1)
        BY <2>1
      <4>2. j \in 1..Len(tasks)
        BY <1>1, <4>1
      <4>3. QED
        BY <2>1, <3>1, <4>1, <4>2
    <3>2. ASSUME NEW j \in 1..Len(R), ~ (j < k)
          PROVE  j + 1 \in 1..Len(tasks) /\ R[j] = tasks[j + 1]
      BY <1>1, <2>1, <3>2
    <3>3. QED
      BY <3>1, <3>2
  <2>3. \A i, j \in 1..Len(R) : old(i) = old(j) => i = j
    BY <1>1, <2>1
  <2> HIDE DEF old
  <2>4. \A j \in 1..Len(R) : R[j] # <<>>
    BY <1>3, <2>2
  <2>5. \A i, j \in 1..Len(R) : \A x, y \in M :
           Has(R[i], x) /\ Has(R[j], y) /\ Ssl(p, x) = Ssl(p, y) => i = j
    BY <1>4, <2>2, <2>3
  <2>6. QED
    BY <2>1, <2>4, <2>5 DEF GoodTasks, R, M
<1> HIDE DEF s
<1>7. Len(s) > 1 \/ Len(s) = 1
  <2>1. \A n \in Nat \ {0} : n > 1 \/ n = 1
    OBVIOUS
  <2>2. QED
    BY <1>2, <2>1
<1>8. QED
  BY <1>5, <1>6, <1>7

(* Nothing is sent beyond what a step holds.                               *)
LEMMA SentBounds ==
    ASSUME RoundsInv, NEW c \in Channel, NEW k \in 1..Last
    PROVE  /\ Sent(c, k) \in Nat /\ Sent(c, k) <= Size(k, c)
           /\ Rcvd(c, k) \in Nat /\ Rcvd(c, k) <= Size(k, c)
           /\ Count(chan[c], k) \in Nat /\ Size(k, c) \in Nat
           /\ Todo(Tasks(c[3]), SendOp(c)) \in Nat /\ Todo(Tasks(c[4]), RecvOp(c)) \in Nat
           /\ pc[c[3]] \in Nat /\ pc[c[4]] \in Nat
<1>1. c[3] \in Party /\ c[4] \in Party /\ SendOp(c) \in Mine(c[3]) /\ RecvOp(c) \in Mine(c[4])
  BY ChannelParts, MineParts
<1>2. Todo(Tasks(c[3]), SendOp(c)) \in Nat /\ Todo(Tasks(c[4]), RecvOp(c)) \in Nat
  BY <1>1, GoodApart DEF RoundsInv, TaskInv
<1>3. Size(k, c) \in Nat
  BY StepFacts
<1>4. pc[c[3]] \in Nat /\ pc[c[4]] \in Nat
  BY <1>1, LastNat DEF RoundsInv, StateType
<1>5. Count(chan[c], k) \in Nat
  <2>1. chan[c] \in Seq(1..Last)
    BY DEF RoundsInv, StateType
  <2>2. QED
    BY <2>1, HasCount
<1>6. /\ pc[c[3]] = k => Todo(Tasks(c[3]), SendOp(c)) <= Size(k, c)
      /\ pc[c[4]] = k => Todo(Tasks(c[4]), RecvOp(c)) <= Size(k, c)
  BY DEF RoundsInv, LeftInv
<1>7. Sent(c, k) \in Nat /\ Sent(c, k) <= Size(k, c)
  BY <1>2, <1>3, <1>4, <1>6 DEF Sent
<1>8. Rcvd(c, k) \in Nat /\ Rcvd(c, k) <= Size(k, c)
  BY <1>2, <1>3, <1>4, <1>6 DEF Rcvd
<1>9. QED
  BY <1>2, <1>3, <1>4, <1>5, <1>7, <1>8

(* The next message on a socket a thread is about to read is of the step
   the thread is in.                                                       *)
LEMMA HeadMatches ==
    ASSUME RoundsInv, NEW p \in Party, NEW j \in 1..Len(Tasks(p)),
           NEW c \in Channel, Head(Tasks(p)[j]) = RecvOp(c), c[4] = p, chan[c] # <<>>
    PROVE  /\ pc[p] \in 1..Last /\ Head(chan[c]) = pc[p]
           /\ Todo(Tasks(p), RecvOp(c)) \in Nat \ {0}
<1> DEFINE h == Head(chan[c])
           l == pc[p]
           op == RecvOp(c)
<1>1. l \in 1..Last
  <2>1. Tasks(p) # <<>>
    OBVIOUS
  <2>2. QED
    BY <2>1 DEF RoundsInv, TaskInv, Tasks
<1>2. chan[c] \in Seq(1..Last) /\ h \in 1..Last /\ h = chan[c][1] /\ 1 \in 1..Len(chan[c])
  <2>1. chan[c] \in Seq(1..Last)
    BY DEF RoundsInv, StateType
  <2>2. QED
    BY <2>1, HeadFacts
<1>3. Count(chan[c], h) # 0
  <2>1. Has(chan[c], h)
    BY <1>2 DEF Has
  <2>2. QED
    BY <1>2, <2>1, HasCount
<1>4. Todo(Tasks(p), op) \in Nat \ {0}
  <2>1. GoodTasks(p, Tasks(p)) /\ op \in Mine(p)
    BY MineParts DEF RoundsInv, TaskInv
  <2>2. Apart(Tasks(p), op)
    BY <2>1, GoodApart
  <2>3. Tasks(p)[j] \in Seq(Mine(p)) /\ Tasks(p)[j] # <<>>
    BY <2>1 DEF GoodTasks
  <2>4. Has(Tasks(p)[j], op)
    <3>1. 1 \in 1..Len(Tasks(p)[j]) /\ Tasks(p)[j][1] = op
      BY <2>3
    <3>2. QED
      BY <3>1 DEF Has
  <2>5. Todo(Tasks(p), op) = Count(Tasks(p)[j], op)
    BY <2>2, <2>4, TodoAt
  <2>6. QED
    BY <2>3, <2>4, <2>5, HasCount
<1>5. ASSUME h < l PROVE FALSE
  <2>1. Rcvd(c, h) = Size(h, c)
    BY <1>5 DEF Rcvd
  <2>2. Count(chan[c], h) + Rcvd(c, h) = Sent(c, h)
    BY <1>2 DEF RoundsInv, CountInv
  <2> HIDE DEF h
  <2>3. QED
    BY <1>2, <1>3, <2>1, <2>2, SentBounds
<1>6. ASSUME h > l PROVE FALSE
  <2>1. h <= pc[c[3]]
    BY <1>2 DEF RoundsInv, OrderInv
  <2> HIDE DEF h
  <2>2. pc[c[3]] > l
    <3>1. pc[c[3]] \in Nat
      BY <1>1, SentBounds
    <3>2. h \in Nat /\ l \in Nat
      BY <1>1, <1>2, LastNat
    <3> HIDE DEF l
    <3>3. QED
      BY <1>6, <2>1, <3>1, <3>2
  <2>3. Sent(c, l) = Size(l, c)
    BY <2>2 DEF Sent
  <2>4. Rcvd(c, l) = Size(l, c) - Todo(Tasks(p), op)
    BY <1>1 DEF Rcvd
  <2>5. Count(chan[c], l) + Rcvd(c, l) = Sent(c, l)
    BY <1>1 DEF RoundsInv, CountInv
  <2> HIDE DEF op, l
  <2>6. Count(chan[c], l) # 0
    BY <1>1, <1>4, <2>3, <2>4, <2>5, SentBounds
  <2>7. PICK i \in 1..Len(chan[c]) : chan[c][i] = l
    BY <1>2, <2>6, HasCount DEF Has
  <2>8. chan[c][1] <= chan[c][i]
    BY <1>2 DEF RoundsInv, OrderInv
  <2>9. QED
    BY <1>1, <1>2, <1>6, <2>7, <2>8
<1>7. h = l
  <2> HIDE DEF h, l
  <2>1. QED
    BY <1>1, <1>2, <1>5, <1>6
<1>8. QED
  BY <1>1, <1>4, <1>7

(* A read or write of a pool thread or of the main thread.                 *)
LEMMA OpTodo ==
    ASSUME RoundsInv, NEW p \in Party, NEW j \in 1..Len(Tasks(p)),
           Tasks(p)' = Rest(Tasks(p), j), \A q \in Party \ {p} : Tasks(q)' = Tasks(q)
    PROVE  LET op == Head(Tasks(p)[j])
           IN  /\ op \in Mine(p) /\ pc[p] \in 1..Last
               /\ GoodTasks(p, Tasks(p)')
               /\ \A c \in Channel :
                     /\ Todo(Tasks(c[3])', SendOp(c)) \in Nat
                     /\ Todo(Tasks(c[4])', RecvOp(c)) \in Nat
                     /\ Todo(Tasks(c[3]), SendOp(c)) = Todo(Tasks(c[3])', SendOp(c)) + Hit(op, SendOp(c))
                     /\ Todo(Tasks(c[4]), RecvOp(c)) = Todo(Tasks(c[4])', RecvOp(c)) + Hit(op, RecvOp(c))
<1> DEFINE op == Head(Tasks(p)[j])
           T == Tasks(p)
<1>1. GoodTasks(p, T) /\ T \in Seq(Seq(Mine(p))) /\ T[j] \in Seq(Mine(p)) /\ T[j] # <<>>
  <2>1. GoodTasks(p, Tasks(p))
    BY DEF RoundsInv, TaskInv
  <2>2. j \in 1..Len(T)
    OBVIOUS
  <2> HIDE DEF T
  <2>3. QED
    BY <2>1, <2>2 DEF GoodTasks, T
<1>2. op \in Mine(p)
  BY <1>1, HeadFacts
<1>3. pc[p] \in 1..Last
  <2>1. T # <<>>
    OBVIOUS
  <2>2. QED
    BY <2>1 DEF RoundsInv, TaskInv, Tasks
<1>4. GoodTasks(p, Tasks(p)')
  BY <1>1, GoodRest
<1>5. ASSUME NEW x \in Mine(p)
      PROVE  Todo(Tasks(p)', x) \in Nat /\ Todo(Tasks(p), x) = Todo(Tasks(p)', x) + Hit(op, x)
  <2>1. Apart(T, x)
    BY <1>1, <1>5, GoodApart
  <2> HIDE DEF T
  <2>2. /\ Todo(Rest(T, j), x) \in Nat
        /\ Todo(T, x) = Todo(Rest(T, j), x) + (IF Head(T[j]) = x THEN 1 ELSE 0)
    BY <1>1, <2>1, TodoRest DEF T
  <2>3. QED
    BY <2>2 DEF T, Hit
<1>6. ASSUME NEW q \in Party \ {p}, NEW x \in Mine(q), x # op
      PROVE  Todo(Tasks(q)', x) \in Nat /\ Todo(Tasks(q), x) = Todo(Tasks(q)', x) + Hit(op, x)
  <2>1. Todo(Tasks(q), x) \in Nat
    BY GoodApart DEF RoundsInv, TaskInv
  <2>2. Hit(op, x) = 0
    BY <1>6 DEF Hit
  <2> HIDE DEF op
  <2>3. QED
    BY <2>1, <2>2
<1>7. ASSUME NEW c \in Channel
      PROVE  /\ c[3] \in Party /\ c[4] \in Party
             /\ SendOp(c) \in Mine(c[3]) /\ RecvOp(c) \in Mine(c[4])
             /\ c[3] # p => SendOp(c) # op
             /\ c[4] # p => RecvOp(c) # op
  <2>1. c[3] \in Party /\ c[4] \in Party /\ SendOp(c) \in Mine(c[3]) /\ RecvOp(c) \in Mine(c[4])
    BY ChannelParts, MineParts
  <2>2. ASSUME SendOp(c) = op PROVE c[3] = p
    BY <1>2, <2>2 DEF Mine, SendOp
  <2>3. ASSUME RecvOp(c) = op PROVE c[4] = p
    BY <1>2, <2>3 DEF Mine, RecvOp
  <2>4. QED
    BY <2>1, <2>2, <2>3
<1> HIDE DEF op, T
<1>8. ASSUME NEW c \in Channel
      PROVE  /\ Todo(Tasks(c[3])', SendOp(c)) \in Nat
             /\ Todo(Tasks(c[4])', RecvOp(c)) \in Nat
             /\ Todo(Tasks(c[3]), SendOp(c)) = Todo(Tasks(c[3])', SendOp(c)) + Hit(op, SendOp(c))
             /\ Todo(Tasks(c[4]), RecvOp(c)) = Todo(Tasks(c[4])', RecvOp(c)) + Hit(op, RecvOp(c))
  <2>1. CASE c[3] = p
    <3>1. c[4] # p
      BY <2>1, ChannelParts
    <3>2. QED
      BY <1>5, <1>6, <1>7, <2>1, <3>1
  <2>2. CASE c[4] = p
    <3>1. c[3] # p
      BY <2>2, ChannelParts
    <3>2. QED
      BY <1>5, <1>6, <1>7, <2>2, <3>1
  <2>3. CASE c[3] # p /\ c[4] # p
    BY <1>6, <1>7, <2>3
  <2>4. QED
    BY <2>1, <2>2, <2>3
<1>9. QED
  BY <1>2, <1>3, <1>4, <1>8 DEF op

(* What a step holds for a channel is fixed by the program.                *)
LEMMA SizeFixed == ASSUME NEW k, NEW c PROVE Size(k, c)' = Size(k, c)
BY DEF Size

(* How far an operation moves the two counters of every channel.           *)
LEMMA OpCounts ==
    ASSUME RoundsInv, NEW p \in Party, NEW j \in 1..Len(Tasks(p)),
           Tasks(p)' = Rest(Tasks(p), j), \A q \in Party \ {p} : Tasks(q)' = Tasks(q),
           pc' = pc, NEW c \in Channel, NEW k \in 1..Last
    PROVE  LET op == Head(Tasks(p)[j])
           IN  /\ Sent(c, k)' = Sent(c, k) + (IF pc[c[3]] = k THEN Hit(op, SendOp(c)) ELSE 0)
               /\ Rcvd(c, k)' = Rcvd(c, k) + (IF pc[c[4]] = k THEN Hit(op, RecvOp(c)) ELSE 0)
<1> DEFINE op == Head(Tasks(p)[j])
           a == Todo(Tasks(c[3]), SendOp(c))
           b == Todo(Tasks(c[4]), RecvOp(c))
           x == Todo(Tasks(c[3])', SendOp(c))
           y == Todo(Tasks(c[4])', RecvOp(c))
           n == Size(k, c)
<1>1. x \in Nat /\ y \in Nat /\ a = x + Hit(op, SendOp(c)) /\ b = y + Hit(op, RecvOp(c))
  BY OpTodo
<1>2. n \in Nat /\ pc[c[3]] \in Nat /\ pc[c[4]] \in Nat
  BY SentBounds
<1>3. Hit(op, SendOp(c)) \in Nat /\ Hit(op, RecvOp(c)) \in Nat
  BY DEF Hit
<1>4. /\ Sent(c, k) = IF pc[c[3]] > k THEN n ELSE IF pc[c[3]] = k THEN n - a ELSE 0
      /\ Rcvd(c, k) = IF pc[c[4]] > k THEN n ELSE IF pc[c[4]] = k THEN n - b ELSE 0
  BY DEF Sent, Rcvd
<1>5. /\ Sent(c, k)' = IF pc[c[3]] > k THEN n ELSE IF pc[c[3]] = k THEN n - x ELSE 0
      /\ Rcvd(c, k)' = IF pc[c[4]] > k THEN n ELSE IF pc[c[4]] = k THEN n - y ELSE 0
  BY SizeFixed DEF Sent, Rcvd
<1> HIDE DEF op, a, b, x, y, n
<1>6. Sent(c, k)' = Sent(c, k) + (IF pc[c[3]] = k THEN Hit(op, SendOp(c)) ELSE 0)
  <2>1. k \in Nat
    OBVIOUS
  <2>2. QED
    BY <1>1, <1>2, <1>3, <1>4, <1>5, <2>1
<1>7. Rcvd(c, k)' = Rcvd(c, k) + (IF pc[c[4]] = k THEN Hit(op, RecvOp(c)) ELSE 0)
  <2>1. k \in Nat
    OBVIOUS
  <2>2. QED
    BY <1>1, <1>2, <1>3, <1>4, <1>5, <2>1
<1>8. QED
  BY <1>6, <1>7 DEF op

(* Once it is done, no party has more left than its step holds.            *)
LEMMA OpLeft ==
    ASSUME RoundsInv, NEW p \in Party, NEW j \in 1..Len(Tasks(p)),
           Tasks(p)' = Rest(Tasks(p), j), \A q \in Party \ {p} : Tasks(q)' = Tasks(q),
           pc' = pc
    PROVE  LeftInv'
<1>1. SUFFICES ASSUME NEW c \in Channel
               PROVE  /\ pc[c[3]] \in 1..Last =>
                           Todo(Tasks(c[3])', SendOp(c)) <= Size(pc[c[3]], c)
                      /\ pc[c[4]] \in 1..Last =>
                           Todo(Tasks(c[4])', RecvOp(c)) <= Size(pc[c[4]], c)
  BY SizeFixed DEF LeftInv, Size
<1> DEFINE op == Head(Tasks(p)[j])
           a == Todo(Tasks(c[3]), SendOp(c))
           b == Todo(Tasks(c[4]), RecvOp(c))
           x == Todo(Tasks(c[3])', SendOp(c))
           y == Todo(Tasks(c[4])', RecvOp(c))
<1>2. x \in Nat /\ y \in Nat /\ a = x + Hit(op, SendOp(c)) /\ b = y + Hit(op, RecvOp(c))
  BY OpTodo
<1>3. Hit(op, SendOp(c)) \in Nat /\ Hit(op, RecvOp(c)) \in Nat
  BY DEF Hit
<1>4. /\ pc[c[3]] \in 1..Last => a <= Size(pc[c[3]], c) /\ Size(pc[c[3]], c) \in Nat
      /\ pc[c[4]] \in 1..Last => b <= Size(pc[c[4]], c) /\ Size(pc[c[4]], c) \in Nat
  BY StepFacts DEF RoundsInv, LeftInv
<1> HIDE DEF op, a, b, x, y
<1>5. (pc[c[3]] \in 1..Last => x <= Size(pc[c[3]], c)) /\ (pc[c[4]] \in 1..Last => y <= Size(pc[c[4]], c))
  BY <1>2, <1>3, <1>4
<1>6. QED
  BY <1>5 DEF x, y

(* A write keeps every channel in the order of the steps.                  *)
LEMMA OrderAppend ==
    ASSUME NEW n \in Nat, NEW s \in Seq(1..n), NEW k \in 1..n,
           \A i \in 1..Len(s) : s[i] <= k,
           \A i, j \in 1..Len(s) : i <= j => s[i] <= s[j]
    PROVE  /\ Append(s, k) \in Seq(1..n)
           /\ Len(Append(s, k)) = Len(s) + 1
           /\ \A i \in 1..Len(Append(s, k)) : Append(s, k)[i] <= k
           /\ \A i, j \in 1..Len(Append(s, k)) : i <= j => Append(s, k)[i] <= Append(s, k)[j]
<1> DEFINE t == Append(s, k)
<1>1. /\ t \in Seq(1..n) /\ Len(t) = Len(s) + 1 /\ Len(s) \in Nat
      /\ t[Len(s) + 1] = k /\ \A i \in 1..Len(s) : t[i] = s[i]
  OBVIOUS
<1>2. \A i \in 1..Len(s) : s[i] \in 1..n
  OBVIOUS
<1> HIDE DEF t
<1>3. \A i \in 1..Len(t) : i \in 1..Len(s) \/ i = Len(s) + 1
  BY <1>1
<1>4. \A i \in 1..Len(t) : t[i] <= k
  <2>1. k <= k
    OBVIOUS
  <2>2. \A i \in 1..Len(s) : t[i] <= k
    BY <1>1
  <2>3. QED
    BY <1>1, <1>3, <2>1, <2>2
<1>5. ASSUME NEW i \in 1..Len(t), NEW j \in 1..Len(t), i <= j PROVE t[i] <= t[j]
  <2>1. CASE j = Len(s) + 1
    BY <1>1, <1>4, <2>1
  <2>2. CASE j \in 1..Len(s)
    <3>1. i \in 1..Len(s)
      BY <1>1, <1>5, <2>2
    <3>2. QED
      BY <1>1, <1>5, <2>2, <3>1
  <2>3. QED
    BY <1>3, <2>1, <2>2
<1>6. QED
  BY <1>1, <1>4, <1>5 DEF t

(* And so does a read.                                                     *)
LEMMA OrderTail ==
    ASSUME NEW n \in Nat, NEW s \in Seq(1..n), s # <<>>, NEW m,
           \A i \in 1..Len(s) : s[i] <= m,
           \A i, j \in 1..Len(s) : i <= j => s[i] <= s[j]
    PROVE  /\ Tail(s) \in Seq(1..n)
           /\ Len(Tail(s)) = Len(s) - 1
           /\ \A i \in 1..Len(Tail(s)) : Tail(s)[i] <= m
           /\ \A i, j \in 1..Len(Tail(s)) : i <= j => Tail(s)[i] <= Tail(s)[j]
<1> DEFINE t == Tail(s)
<1>1. /\ t \in Seq(1..n) /\ Len(t) = Len(s) - 1 /\ Len(s) \in Nat
      /\ \A i \in 1..Len(t) : t[i] = s[i + 1] /\ i + 1 \in 1..Len(s)
  BY HeadFacts
<1> HIDE DEF t
<1>2. \A i \in 1..Len(t) : t[i] <= m
  BY <1>1
<1>3. ASSUME NEW i \in 1..Len(t), NEW j \in 1..Len(t), i <= j PROVE t[i] <= t[j]
  <2>1. i + 1 <= j + 1 /\ i + 1 \in 1..Len(s) /\ j + 1 \in 1..Len(s)
    BY <1>1, <1>3
  <2>2. s[i + 1] <= s[j + 1]
    BY <2>1
  <2>3. QED
    BY <1>1, <2>2
<1>4. QED
  BY <1>1, <1>2, <1>3 DEF t

(* A write: one message more, of the writer's step, on one channel.        *)
LEMMA SendStep ==
    ASSUME RoundsInv, NEW p \in Party, NEW j \in 1..Len(Tasks(p)),
           Tasks(p)' = Rest(Tasks(p), j), \A q \in Party \ {p} : Tasks(q)' = Tasks(q),
           pc' = pc, NEW d \in Channel, Head(Tasks(p)[j]) = SendOp(d), d[3] = p,
           Len(chan[d]) < Cap,
           chan' = [chan EXCEPT ![d] = Append(@, pc[p])]
    PROVE  chan' \in [Channel -> Seq(1..Last)] /\ CountInv' /\ OrderInv'
<1>1. pc[p] \in 1..Last /\ Last \in Nat /\ pc[p] \in Nat
  BY OpTodo, LastNat
<1>2. chan \in [Channel -> Seq(1..Last)] /\ chan[d] \in Seq(1..Last)
  BY DEF RoundsInv, StateType
<1>3. \A c \in Channel : chan'[c] = IF c = d THEN Append(chan[d], pc[p]) ELSE chan[c]
  BY <1>2
<1>4. /\ Append(chan[d], pc[p]) \in Seq(1..Last)
      /\ Len(Append(chan[d], pc[p])) = Len(chan[d]) + 1
      /\ \A i \in 1..Len(Append(chan[d], pc[p])) : Append(chan[d], pc[p])[i] <= pc[p]
      /\ \A i, l \in 1..Len(Append(chan[d], pc[p])) :
            i <= l => Append(chan[d], pc[p])[i] <= Append(chan[d], pc[p])[l]
  BY <1>1, <1>2, OrderAppend DEF RoundsInv, OrderInv
<1>5. chan' \in [Channel -> Seq(1..Last)]
  BY <1>2, <1>4
<1>6. OrderInv'
  <2> SUFFICES ASSUME NEW c \in Channel
               PROVE  /\ Len(chan'[c]) <= Cap
                      /\ \A i \in 1..Len(chan'[c]) : chan'[c][i] <= pc[c[3]]
                      /\ \A i, l \in 1..Len(chan'[c]) : i <= l => chan'[c][i] <= chan'[c][l]
    BY DEF OrderInv
  <2>1. CASE c = d
    <3>1. chan'[c] = Append(chan[d], pc[p])
      BY <1>3, <2>1
    <3>2. Len(chan[d]) + 1 <= Cap
      <4>1. Len(chan[d]) \in Nat /\ Cap \in Nat
        BY <1>2, RoundsAssumption
      <4>2. QED
        BY <4>1
    <3>3. QED
      BY <1>4, <2>1, <3>1, <3>2
  <2>2. CASE c # d
    <3>1. chan'[c] = chan[c]
      BY <1>3, <2>2
    <3>2. QED
      BY <3>1 DEF RoundsInv, OrderInv
  <2>3. QED
    BY <2>1, <2>2
<1>7. CountInv'
  <2> SUFFICES ASSUME NEW c \in Channel, NEW k \in 1..Last
               PROVE  Count(chan'[c], k) + Rcvd(c, k)' = Sent(c, k)'
    BY DEF CountInv
  <2>1. Count(chan[c], k) + Rcvd(c, k) = Sent(c, k)
    BY DEF RoundsInv, CountInv
  <2>2. Count(chan[c], k) \in Nat /\ Rcvd(c, k) \in Nat /\ Sent(c, k) \in Nat
    BY SentBounds
  <2>3. Hit(SendOp(d), RecvOp(c)) = 0 /\ Hit(SendOp(d), SendOp(c)) = IF c = d THEN 1 ELSE 0
    BY DEF Hit, SendOp, RecvOp
  <2>4. /\ Sent(c, k)' = Sent(c, k) + (IF pc[c[3]] = k THEN Hit(SendOp(d), SendOp(c)) ELSE 0)
        /\ Rcvd(c, k)' = Rcvd(c, k) + (IF pc[c[4]] = k THEN Hit(SendOp(d), RecvOp(c)) ELSE 0)
    BY OpCounts
  <2>5. Count(chan'[c], k) = Count(chan[c], k) + (IF c = d /\ pc[c[3]] = k THEN 1 ELSE 0)
    <3>1. CASE c = d
      <4>1. Count(Append(chan[d], pc[p]), k) = Count(chan[d], k) + (IF pc[p] = k THEN 1 ELSE 0)
        <5> DEFINE S == 1..Last
        <5>1. chan[d] \in Seq(S) /\ pc[p] \in S
          BY <1>1, <1>2
        <5> HIDE DEF S
        <5>2. QED
          BY <5>1, CountAppend
      <4>2. chan'[c] = Append(chan[d], pc[p])
        BY <1>3, <3>1
      <4>3. QED
        BY <3>1, <4>1, <4>2
    <3>2. CASE c # d
      <4>1. chan'[c] = chan[c]
        BY <1>3, <3>2
      <4>2. QED
        BY <3>2, <4>1, <2>2
    <3>3. QED
      BY <3>1, <3>2
  <2>6. QED
    BY <2>1, <2>2, <2>3, <2>4, <2>5
<1>8. QED
  BY <1>5, <1>6, <1>7

(* A read: the oldest message is of the reader's step, and it is gone.     *)
LEMMA RecvStep ==
    ASSUME RoundsInv, NEW p \in Party, NEW j \in 1..Len(Tasks(p)),
           Tasks(p)' = Rest(Tasks(p), j), \A q \in Party \ {p} : Tasks(q)' = Tasks(q),
           pc' = pc, NEW d \in Channel, Head(Tasks(p)[j]) = RecvOp(d), d[4] = p,
           chan[d] # <<>>,
           chan' = [chan EXCEPT ![d] = Tail(@)]
    PROVE  chan' \in [Channel -> Seq(1..Last)] /\ CountInv' /\ OrderInv'
<1>1. Head(chan[d]) = pc[p] /\ Last \in Nat
  BY HeadMatches, LastNat
<1>2. chan \in [Channel -> Seq(1..Last)] /\ chan[d] \in Seq(1..Last)
  BY DEF RoundsInv, StateType
<1>3. \A c \in Channel : chan'[c] = IF c = d THEN Tail(chan[d]) ELSE chan[c]
  BY <1>2
<1>4. /\ Tail(chan[d]) \in Seq(1..Last)
      /\ Len(Tail(chan[d])) = Len(chan[d]) - 1
      /\ \A i \in 1..Len(Tail(chan[d])) : Tail(chan[d])[i] <= pc[d[3]]
      /\ \A i, l \in 1..Len(Tail(chan[d])) :
            i <= l => Tail(chan[d])[i] <= Tail(chan[d])[l]
  BY <1>1, <1>2, OrderTail DEF RoundsInv, OrderInv
<1>5. chan' \in [Channel -> Seq(1..Last)]
  BY <1>2, <1>4
<1>6. OrderInv'
  <2> SUFFICES ASSUME NEW c \in Channel
               PROVE  /\ Len(chan'[c]) <= Cap
                      /\ \A i \in 1..Len(chan'[c]) : chan'[c][i] <= pc[c[3]]
                      /\ \A i, l \in 1..Len(chan'[c]) : i <= l => chan'[c][i] <= chan'[c][l]
    BY DEF OrderInv
  <2>1. CASE c = d
    <3>1. chan'[c] = Tail(chan[d])
      BY <1>3, <2>1
    <3>2. Len(chan[d]) - 1 <= Cap
      <4>1. Len(chan[d]) \in Nat /\ Cap \in Nat /\ Len(chan[d]) <= Cap
        BY <1>2, RoundsAssumption DEF RoundsInv, OrderInv
      <4>2. QED
        BY <4>1
    <3>3. QED
      BY <1>4, <2>1, <3>1, <3>2
  <2>2. CASE c # d
    <3>1. chan'[c] = chan[c]
      BY <1>3, <2>2
    <3>2. QED
      BY <3>1 DEF RoundsInv, OrderInv
  <2>3. QED
    BY <2>1, <2>2
<1>7. CountInv'
  <2> SUFFICES ASSUME NEW c \in Channel, NEW k \in 1..Last
               PROVE  Count(chan'[c], k) + Rcvd(c, k)' = Sent(c, k)'
    BY DEF CountInv
  <2>1. Count(chan[c], k) + Rcvd(c, k) = Sent(c, k)
    BY DEF RoundsInv, CountInv
  <2>2. Count(chan[c], k) \in Nat /\ Rcvd(c, k) \in Nat /\ Sent(c, k) \in Nat
    BY SentBounds
  <2>3. Hit(RecvOp(d), SendOp(c)) = 0 /\ Hit(RecvOp(d), RecvOp(c)) = IF c = d THEN 1 ELSE 0
    BY DEF Hit, SendOp, RecvOp
  <2>4. /\ Sent(c, k)' = Sent(c, k) + (IF pc[c[3]] = k THEN Hit(RecvOp(d), SendOp(c)) ELSE 0)
        /\ Rcvd(c, k)' = Rcvd(c, k) + (IF pc[c[4]] = k THEN Hit(RecvOp(d), RecvOp(c)) ELSE 0)
    BY OpCounts
  <2>5. /\ Count(chan'[c], k) \in Nat
        /\ Count(chan[c], k) = Count(chan'[c], k) + (IF c = d /\ pc[c[4]] = k THEN 1 ELSE 0)
    <3>1. CASE c = d
      <4>1. Count(chan[d], k) = Count(Tail(chan[d]), k) + (IF pc[p] = k THEN 1 ELSE 0)
        BY <1>1, <1>2, CountTail
      <4>2. chan'[c] = Tail(chan[d])
        BY <1>3, <3>1
      <4>3. Count(Tail(chan[d]), k) \in Nat
        BY <1>4, HasCount
      <4>4. QED
        BY <3>1, <4>1, <4>2, <4>3
    <3>2. CASE c # d
      <4>1. chan'[c] = chan[c]
        BY <1>3, <3>2
      <4>2. QED
        BY <3>2, <4>1, <2>2
    <3>3. QED
      BY <3>1, <3>2
  <2>6. QED
    BY <2>1, <2>2, <2>3, <2>4, <2>5
<1>8. QED
  BY <1>5, <1>6, <1>7

(* So every operation on a socket keeps the counts and the order.          *)
LEMMA OpStep ==
    ASSUME RoundsInv, NEW p \in Party, NEW j \in 1..Len(Tasks(p)),
           Tasks(p)' = Rest(Tasks(p), j), \A q \in Party \ {p} : Tasks(q)' = Tasks(q),
           pc' = pc, Transfer(p, Head(Tasks(p)[j]))
    PROVE  /\ chan' \in [Channel -> Seq(1..Last)]
           /\ GoodTasks(p, Tasks(p)') /\ pc[p] \in 1..Last
           /\ LeftInv' /\ CountInv' /\ OrderInv'
<1> DEFINE op == Head(Tasks(p)[j])
           d == op.chan
<1>1. op \in Mine(p) /\ GoodTasks(p, Tasks(p)') /\ pc[p] \in 1..Last
  BY OpTodo
<1>2. LeftInv'
  BY OpLeft
<1>3. /\ d \in Channel
      /\ op.dir = "send" => op = SendOp(d) /\ d[3] = p
      /\ op.dir = "recv" => op = RecvOp(d) /\ d[4] = p
  <2> HIDE DEF op
  <2>1. QED
    BY <1>1, MineParts DEF Mine, SendOp, RecvOp
<1>4. CASE op.dir = "send" /\ Len(chan[d]) < Cap /\ chan' = [chan EXCEPT ![d] = Append(@, pc[p])]
  <2>1. Head(Tasks(p)[j]) = SendOp(d)
    BY <1>3, <1>4
  <2> HIDE DEF op, d
  <2>2. QED
    BY <1>1, <1>2, <1>3, <1>4, <2>1, SendStep
<1>5. CASE op.dir = "recv" /\ chan[d] # <<>> /\ chan' = [chan EXCEPT ![d] = Tail(@)]
  <2>1. Head(Tasks(p)[j]) = RecvOp(d)
    BY <1>3, <1>5
  <2> HIDE DEF op, d
  <2>2. QED
    BY <1>1, <1>2, <1>3, <1>5, <2>1, RecvStep
<1>6. QED
  BY <1>4, <1>5 DEF Transfer

(* An operation leaves a state in which all of the invariant holds, whichever
   thread performed it.                                                    *)
LEMMA PoolStepInv ==
    ASSUME RoundsInv, NEW p \in Party, NEW k \in DOMAIN queue[p], PoolStep(p, k)
    PROVE  RoundsInv'
<1>1. /\ queue[p] \in Seq(Seq(Mine(p))) /\ direct[p] \in Seq(Mine(p))
      /\ direct[p] # <<>> => queue[p] = <<>>
  BY DEF RoundsInv, TaskInv
<1>2. k \in 1..Len(queue[p]) /\ queue[p] # <<>>
  BY <1>1
<1>3. direct[p] = <<>> /\ Tasks(p) = queue[p]
  BY <1>1, <1>2 DEF Tasks
<1>4. /\ pc' = pc /\ direct' = direct /\ checking' = checking /\ down' = down
      /\ Transfer(p, Head(queue[p][k]))
      /\ queue' = [queue EXCEPT ![p] = Rest(queue[p], k)]
      /\ DOMAIN queue = Party
  BY DEF PoolStep, RoundsInv, StateType
<1>5. DOMAIN queue' = Party /\ queue'[p] = Rest(queue[p], k)
      /\ \A q \in Party \ {p} : queue'[q] = queue[q]
  BY <1>4
<1>6. Tasks(p)' = Rest(Tasks(p), k) /\ \A q \in Party \ {p} : Tasks(q)' = Tasks(q)
  BY <1>3, <1>4, <1>5 DEF Tasks
<1>7. /\ chan' \in [Channel -> Seq(1..Last)]
      /\ GoodTasks(p, Tasks(p)') /\ pc[p] \in 1..Last
      /\ LeftInv' /\ CountInv' /\ OrderInv'
  <2>1. Transfer(p, Head(Tasks(p)[k])) /\ k \in 1..Len(Tasks(p))
    BY <1>2, <1>3, <1>4
  <2>2. QED
    BY <1>4, <1>6, <2>1, OpStep
<1>8. StateType'
  BY <1>4, <1>5, <1>7 DEF RoundsInv, StateType
<1>9. TaskInv'
  <2>1. ASSUME NEW q \in Party
        PROVE  /\ queue'[q] \in Seq(Seq(Mine(q))) /\ direct'[q] \in Seq(Mine(q))
               /\ GoodTasks(q, Tasks(q)')
               /\ direct'[q] # <<>> => queue'[q] = <<>>
               /\ pc'[q] \notin 1..Last => queue'[q] = <<>> /\ direct'[q] = <<>>
    <3>1. CASE q = p
      <4>1. queue'[p] = Tasks(p)'
        BY <1>3, <1>4 DEF Tasks
      <4>2. queue'[p] \in Seq(Seq(Mine(p)))
        BY <1>7, <4>1 DEF GoodTasks
      <4>3. QED
        BY <1>1, <1>3, <1>4, <1>7, <3>1, <4>2
    <3>2. CASE q # p
      BY <1>4, <1>5, <1>6, <3>2 DEF RoundsInv, TaskInv
    <3>3. QED
      BY <3>1, <3>2
  <2>2. QED
    BY <2>1 DEF TaskInv
<1>10. QED
  BY <1>7, <1>8, <1>9 DEF RoundsInv

(* A list of one task, after one operation of it.                          *)
LEMMA RestOne ==
    ASSUME NEW S, NEW s \in Seq(S), s # <<>>
    PROVE  /\ <<s>>[1] = s /\ 1 \in 1..Len(<<s>>)
           /\ Tail(s) \in Seq(S)
           /\ Rest(<<s>>, 1) = IF Tail(s) = <<>> THEN <<>> ELSE <<Tail(s)>>
<1>1. Len(s) \in Nat \ {0} /\ Tail(s) \in Seq(S) /\ Len(Tail(s)) = Len(s) - 1
  BY HeadFacts
<1>2. \A n \in Nat \ {0} : n > 1 \/ n = 1
  OBVIOUS
<1>3. <<s>> \in Seq(Seq(S)) /\ Len(<<s>>) = 1 /\ <<s>>[1] = s /\ 1 \in 1..Len(<<s>>)
  OBVIOUS
<1>4. CASE Len(s) > 1
  <2>1. Rest(<<s>>, 1) = [<<s>> EXCEPT ![1] = Tail(s)]
    BY <1>3, <1>4 DEF Rest
  <2>2. [<<s>> EXCEPT ![1] = Tail(s)] = <<Tail(s)>>
    OBVIOUS
  <2>3. Tail(s) # <<>>
    BY <1>4, TailHas
  <2>4. QED
    BY <1>1, <1>3, <2>1, <2>2, <2>3
<1>5. CASE Len(s) = 1
  <2>1. Tail(s) = <<>>
    <3>1. Len(Tail(s)) = 0
      BY <1>1, <1>5
    <3>2. QED
      BY <1>1, <3>1, EmptySeq
  <2>2. ~ (Len(<<s>>[1]) > 1)
    <3>1. Len(<<s>>[1]) = 1
      BY <1>3, <1>5
    <3>2. ~ (1 > 1)
      OBVIOUS
    <3>3. QED
      BY <3>1, <3>2
  <2>3. Rest(<<s>>, 1) = SubSeq(<<s>>, 1, 1 - 1) \o SubSeq(<<s>>, 1 + 1, 1)
    BY <1>3, <2>2 DEF Rest
  <2>4. SubSeq(<<s>>, 1, 1 - 1) = <<>> /\ SubSeq(<<s>>, 1 + 1, 1) = <<>>
    OBVIOUS
  <2>5. <<>> \o <<>> = <<>>
    OBVIOUS
  <2>6. QED
    BY <1>1, <1>3, <2>1, <2>3, <2>4, <2>5
<1>6. QED
  BY <1>1, <1>2, <1>4, <1>5

(* The main thread's operations keep the invariant.                        *)
LEMMA MainStepInv ==
    ASSUME RoundsInv, NEW p \in Party, MainStep(p)
    PROVE  RoundsInv'
<1>1. /\ queue[p] \in Seq(Seq(Mine(p))) /\ direct[p] \in Seq(Mine(p))
      /\ direct[p] # <<>> => queue[p] = <<>>
  BY DEF RoundsInv, TaskInv
<1>2. direct[p] # <<>> /\ queue[p] = <<>> /\ Tasks(p) = <<direct[p]>>
  BY <1>1 DEF MainStep, Tasks
<1>3. /\ pc' = pc /\ queue' = queue /\ checking' = checking /\ down' = down
      /\ Transfer(p, Head(direct[p]))
      /\ direct' = [direct EXCEPT ![p] = Tail(direct[p])]
      /\ DOMAIN direct = Party
  BY DEF MainStep, RoundsInv, StateType
<1>4. DOMAIN direct' = Party /\ direct'[p] = Tail(direct[p])
      /\ \A q \in Party \ {p} : direct'[q] = direct[q]
  BY <1>3
<1>5. /\ Tasks(p)[1] = direct[p] /\ 1 \in 1..Len(Tasks(p))
      /\ Tail(direct[p]) \in Seq(Mine(p))
      /\ Rest(Tasks(p), 1) = IF Tail(direct[p]) = <<>> THEN <<>> ELSE <<Tail(direct[p])>>
  BY <1>1, <1>2, RestOne
<1>6. Tasks(p)' = Rest(Tasks(p), 1) /\ \A q \in Party \ {p} : Tasks(q)' = Tasks(q)
  BY <1>2, <1>3, <1>4, <1>5 DEF Tasks
<1>7. /\ chan' \in [Channel -> Seq(1..Last)]
      /\ GoodTasks(p, Tasks(p)') /\ pc[p] \in 1..Last
      /\ LeftInv' /\ CountInv' /\ OrderInv'
  <2>1. Transfer(p, Head(Tasks(p)[1]))
    BY <1>3, <1>5
  <2>2. QED
    BY <1>3, <1>5, <1>6, <2>1, OpStep
<1>8. StateType'
  BY <1>3, <1>4, <1>7 DEF RoundsInv, StateType
<1>9. TaskInv'
  <2>1. ASSUME NEW q \in Party
        PROVE  /\ queue'[q] \in Seq(Seq(Mine(q))) /\ direct'[q] \in Seq(Mine(q))
               /\ GoodTasks(q, Tasks(q)')
               /\ direct'[q] # <<>> => queue'[q] = <<>>
               /\ pc'[q] \notin 1..Last => queue'[q] = <<>> /\ direct'[q] = <<>>
    <3>1. CASE q = p
      BY <1>1, <1>2, <1>3, <1>4, <1>5, <1>7, <3>1
    <3>2. CASE q # p
      BY <1>3, <1>4, <1>6, <3>2 DEF RoundsInv, TaskInv
    <3>3. QED
      BY <3>1, <3>2
  <2>2. QED
    BY <2>1 DEF TaskInv
<1>10. QED
  BY <1>7, <1>8, <1>9 DEF RoundsInv

(* The tasks of the step a party enters.                                   *)
LEMMA Entered ==
    ASSUME RoundsInv, NEW p \in Party, NextStep(p)
    PROVE  /\ pc[p] \in 0..Last /\ Tasks(p) = <<>> /\ queue[p] = <<>> /\ direct[p] = <<>>
           /\ pc' \in [Party -> 0..(Last + 1)] /\ pc'[p] = pc[p] + 1
           /\ \A q \in Party \ {p} : pc'[q] = pc[q] /\ queue'[q] = queue[q] /\ direct'[q] = direct[q]
           /\ \A q \in Party \ {p} : Tasks(q)' = Tasks(q)
           /\ DOMAIN queue' = Party /\ DOMAIN direct' = Party
           /\ checking' \in [Party -> BOOLEAN] /\ chan' = chan /\ down' = down
           /\ queue'[p] \in Seq(Seq(Mine(p))) /\ direct'[p] \in Seq(Mine(p))
           /\ direct'[p] # <<>> => queue'[p] = <<>>
           /\ Tasks(p)' = IF pc[p] = Last THEN <<>> ELSE Program[p][pc[p] + 1].tasks
<1>1. /\ pc \in [Party -> 0..(Last + 1)] /\ Last \in Nat /\ pc[p] <= Last
      /\ DOMAIN queue = Party /\ DOMAIN direct = Party /\ checking \in [Party -> BOOLEAN]
  BY LastNat DEF RoundsInv, StateType, NextStep
<1>2. queue[p] = <<>> /\ direct[p] = <<>> /\ Tasks(p) = <<>> /\ chan' = chan /\ down' = down
  BY DEF NextStep, Joined, Tasks
<1>3. pc' = [pc EXCEPT ![p] = pc[p] + 1]
  BY DEF NextStep
<1>4. /\ pc[p] \in 0..Last /\ pc' \in [Party -> 0..(Last + 1)] /\ pc'[p] = pc[p] + 1
      /\ \A q \in Party \ {p} : pc'[q] = pc[q]
  BY <1>1, <1>3
<1>5. CASE pc[p] = Last
  <2>1. queue' = queue /\ direct' = direct /\ checking' = checking
    BY <1>5 DEF NextStep
  <2>2. <<>> \in Seq(Seq(Mine(p))) /\ <<>> \in Seq(Mine(p))
    OBVIOUS
  <2>3. Tasks(p)' = <<>> /\ \A q \in Party \ {p} : Tasks(q)' = Tasks(q)
    BY <1>2, <2>1 DEF Tasks
  <2>4. QED
    BY <1>1, <1>2, <1>4, <1>5, <2>1, <2>2, <2>3
<1>6. CASE pc[p] # Last
  <2> DEFINE step == Program[p][pc[p] + 1]
  <2>1. /\ queue' = [queue EXCEPT ![p] = IF step.by = "pool" THEN step.tasks ELSE <<>>]
        /\ direct' = [direct EXCEPT ![p] = IF step.by = "main" THEN step.tasks[1] ELSE <<>>]
        /\ checking' = [checking EXCEPT ![p] = (checking[p] \/ step.by = "begin") /\ step.by # "end"]
    BY <1>6 DEF NextStep
  <2>2. pc[p] + 1 \in 1..Last
    BY <1>1, <1>4, <1>6
  <2>3. GoodStep(p, step)
    BY <2>2, StepFacts
  <2> HIDE DEF step
  <2>4. /\ step.by \in {"pool", "main", "begin", "end"} /\ step.tasks \in Seq(Seq(Mine(p)))
        /\ \A k \in 1..Len(step.tasks) : step.tasks[k] # <<>>
        /\ step.by = "main" => Len(step.tasks) = 1
        /\ step.by \in {"begin", "end"} => step.tasks = <<>>
    BY <2>3 DEF GoodStep, GoodTasks
  <2>5. step.by = "main" => /\ step.tasks[1] \in Seq(Mine(p)) /\ step.tasks[1] # <<>>
                            /\ <<step.tasks[1]>> = step.tasks
    BY <2>4
  <2>6. <<>> \in Seq(Seq(Mine(p))) /\ <<>> \in Seq(Mine(p))
    OBVIOUS
  <2>7. /\ DOMAIN queue' = Party /\ DOMAIN direct' = Party
        /\ queue'[p] = IF step.by = "pool" THEN step.tasks ELSE <<>>
        /\ direct'[p] = IF step.by = "main" THEN step.tasks[1] ELSE <<>>
        /\ \A q \in Party \ {p} : queue'[q] = queue[q] /\ direct'[q] = direct[q]
    BY <1>1, <2>1
  <2>8. checking' \in [Party -> BOOLEAN]
    BY <1>1, <2>1, Zenon
  <2>9. Tasks(p)' = step.tasks
    <3>1. Tasks(p)' = IF direct'[p] = <<>> THEN queue'[p] ELSE <<direct'[p]>>
      BY DEF Tasks
    <3>2. CASE step.by = "pool"
      BY <2>7, <3>1, <3>2
    <3>3. CASE step.by = "main"
      BY <2>5, <2>7, <3>1, <3>3
    <3>4. CASE step.by \in {"begin", "end"}
      BY <2>4, <2>7, <3>1, <3>4
    <3>5. QED
      BY <2>4, <3>2, <3>3, <3>4
  <2>10. \A q \in Party \ {p} : Tasks(q)' = Tasks(q)
    BY <2>7 DEF Tasks
  <2>11. /\ queue'[p] \in Seq(Seq(Mine(p))) /\ direct'[p] \in Seq(Mine(p))
         /\ direct'[p] # <<>> => queue'[p] = <<>>
    BY <2>4, <2>5, <2>6, <2>7
  <2>12. Tasks(p)' = Program[p][pc[p] + 1].tasks
    BY <2>9 DEF step
  <2>13. QED
    BY <1>2, <1>4, <1>6, <2>7, <2>8, <2>10, <2>11, <2>12
<1>7. QED
  BY <1>5, <1>6

(* Entering a step moves no counter: the step left is done, of the step
   entered everything is still to do.                                      *)
LEMMA EnterCounts ==
    ASSUME RoundsInv, NEW p \in Party, NextStep(p), NEW c \in Channel
    PROVE  /\ c[3] = p /\ pc'[p] \in 1..Last => Todo(Tasks(p)', SendOp(c)) = Size(pc'[p], c)
           /\ c[4] = p /\ pc'[p] \in 1..Last => Todo(Tasks(p)', RecvOp(c)) = Size(pc'[p], c)
           /\ \A k \in 1..Last : Sent(c, k)' = Sent(c, k) /\ Rcvd(c, k)' = Rcvd(c, k)
<1>1. /\ pc[p] \in 0..Last /\ Tasks(p) = <<>> /\ pc'[p] = pc[p] + 1 /\ Last \in Nat
      /\ \A q \in Party \ {p} : pc'[q] = pc[q] /\ Tasks(q)' = Tasks(q)
      /\ Tasks(p)' = IF pc[p] = Last THEN <<>> ELSE Program[p][pc[p] + 1].tasks
  BY Entered, LastNat
<1>2. Todo(Tasks(p), SendOp(c)) = 0 /\ Todo(Tasks(p), RecvOp(c)) = 0
  BY <1>1, TodoEmpty
<1>3. c[3] \in Party /\ c[4] \in Party
  BY ChannelParts
<1>4. ASSUME pc'[p] \in 1..Last
      PROVE  /\ c[3] = p => Todo(Tasks(p)', SendOp(c)) = Size(pc'[p], c)
             /\ c[4] = p => Todo(Tasks(p)', RecvOp(c)) = Size(pc'[p], c)
  <2>1. pc[p] # Last /\ pc[p] + 1 \in 1..Last
    BY <1>1, <1>4
  <2>2. Tasks(p)' = Program[p][pc[p] + 1].tasks
    BY <1>1, <2>1
  <2>3. Size(pc[p] + 1, c) = Todo(Program[c[4]][pc[p] + 1].tasks, RecvOp(c))
    BY <2>1, StepFacts
  <2>4. Size(pc[p] + 1, c) = Todo(Program[c[3]][pc[p] + 1].tasks, SendOp(c))
    BY DEF Size
  <2>5. QED
    BY <1>1, <2>2, <2>3, <2>4
<1>5. ASSUME NEW k \in 1..Last PROVE Sent(c, k)' = Sent(c, k)
  <2>1. Size(k, c) \in Nat /\ Size(k, c)' = Size(k, c)
    BY StepFacts, SizeFixed
  <2>2. Sent(c, k) = IF pc[c[3]] > k THEN Size(k, c)
                     ELSE IF pc[c[3]] = k THEN Size(k, c) - Todo(Tasks(c[3]), SendOp(c)) ELSE 0
    BY DEF Sent
  <2>3. Sent(c, k)' = IF pc'[c[3]] > k THEN Size(k, c)
                      ELSE IF pc'[c[3]] = k THEN Size(k, c) - Todo(Tasks(c[3])', SendOp(c)) ELSE 0
    BY <2>1 DEF Sent
  <2>4. CASE c[3] = p
    <3>1. pc'[p] = k => Todo(Tasks(p)', SendOp(c)) = Size(k, c)
      BY <1>4, <2>4
    <3>2. Sent(c, k) = IF pc[p] > k THEN Size(k, c) ELSE IF pc[p] = k THEN Size(k, c) ELSE 0
      BY <1>2, <2>1, <2>2, <2>4
    <3>3. Sent(c, k)' = IF pc[p] + 1 > k THEN Size(k, c) ELSE 0
      BY <1>1, <2>1, <2>3, <2>4, <3>1
    <3>4. pc[p] \in Nat /\ k \in Nat
      BY <1>1
    <3>5. pc[p] + 1 > k <=> (pc[p] > k \/ pc[p] = k)
      BY <3>4
    <3>6. QED
      BY <3>2, <3>3, <3>5
  <2>5. CASE c[3] # p
    BY <1>1, <1>3, <2>2, <2>3, <2>5
  <2>6. QED
    BY <2>4, <2>5
<1>6. ASSUME NEW k \in 1..Last PROVE Rcvd(c, k)' = Rcvd(c, k)
  <2>1. Size(k, c) \in Nat /\ Size(k, c)' = Size(k, c)
    BY StepFacts, SizeFixed
  <2>2. Rcvd(c, k) = IF pc[c[4]] > k THEN Size(k, c)
                     ELSE IF pc[c[4]] = k THEN Size(k, c) - Todo(Tasks(c[4]), RecvOp(c)) ELSE 0
    BY DEF Rcvd
  <2>3. Rcvd(c, k)' = IF pc'[c[4]] > k THEN Size(k, c)
                      ELSE IF pc'[c[4]] = k THEN Size(k, c) - Todo(Tasks(c[4])', RecvOp(c)) ELSE 0
    BY <2>1 DEF Rcvd
  <2>4. CASE c[4] = p
    <3>1. pc'[p] = k => Todo(Tasks(p)', RecvOp(c)) = Size(k, c)
      BY <1>4, <2>4
    <3>2. Rcvd(c, k) = IF pc[p] > k THEN Size(k, c) ELSE IF pc[p] = k THEN Size(k, c) ELSE 0
      BY <1>2, <2>1, <2>2, <2>4
    <3>3. Rcvd(c, k)' = IF pc[p] + 1 > k THEN Size(k, c) ELSE 0
      BY <1>1, <2>1, <2>3, <2>4, <3>1
    <3>4. pc[p] \in Nat /\ k \in Nat
      BY <1>1
    <3>5. pc[p] + 1 > k <=> (pc[p] > k \/ pc[p] = k)
      BY <3>4
    <3>6. QED
      BY <3>2, <3>3, <3>5
  <2>5. CASE c[4] # p
    BY <1>1, <1>3, <2>2, <2>3, <2>5
  <2>6. QED
    BY <2>4, <2>5
<1>7. QED
  BY <1>4, <1>5, <1>6

(* Joining a step and entering the next keeps the invariant.               *)
LEMMA NextStepInv ==
    ASSUME RoundsInv, NEW p \in Party, NextStep(p)
    PROVE  RoundsInv'
<1>1. /\ pc[p] \in 0..Last /\ Last \in Nat
      /\ pc' \in [Party -> 0..(Last + 1)] /\ pc'[p] = pc[p] + 1
      /\ \A q \in Party \ {p} : /\ pc'[q] = pc[q] /\ queue'[q] = queue[q] /\ direct'[q] = direct[q]
                                /\ Tasks(q)' = Tasks(q)
      /\ DOMAIN queue' = Party /\ DOMAIN direct' = Party
      /\ checking' \in [Party -> BOOLEAN] /\ chan' = chan /\ down' = down
      /\ queue'[p] \in Seq(Seq(Mine(p))) /\ direct'[p] \in Seq(Mine(p))
      /\ direct'[p] # <<>> => queue'[p] = <<>>
      /\ Tasks(p)' = IF pc[p] = Last THEN <<>> ELSE Program[p][pc[p] + 1].tasks
  BY Entered, LastNat
<1>2. StateType'
  BY <1>1 DEF RoundsInv, StateType
<1>3. GoodTasks(p, Tasks(p)')
  <2>1. CASE pc[p] = Last
    <3>1. GoodTasks(p, <<>>)
      BY DEF GoodTasks
    <3>2. QED
      BY <1>1, <2>1, <3>1
  <2>2. CASE pc[p] # Last
    <3>1. pc[p] + 1 \in 1..Last
      BY <1>1, <2>2
    <3>2. GoodTasks(p, Program[p][pc[p] + 1].tasks)
      BY <3>1, StepFacts DEF GoodStep
    <3>3. QED
      BY <1>1, <2>2, <3>2
  <2>3. QED
    BY <2>1, <2>2
<1>4. pc'[p] \notin 1..Last => queue'[p] = <<>> /\ direct'[p] = <<>>
  <2>1. ASSUME pc'[p] \notin 1..Last PROVE pc[p] = Last
    BY <1>1, <2>1
  <2>2. ASSUME pc[p] = Last PROVE queue'[p] = queue[p] /\ direct'[p] = direct[p]
    BY <2>2 DEF NextStep
  <2>3. queue[p] = <<>> /\ direct[p] = <<>>
    BY Entered
  <2>4. QED
    BY <2>1, <2>2, <2>3
<1>5. TaskInv'
  <2>1. ASSUME NEW q \in Party
        PROVE  /\ queue'[q] \in Seq(Seq(Mine(q))) /\ direct'[q] \in Seq(Mine(q))
               /\ GoodTasks(q, Tasks(q)')
               /\ direct'[q] # <<>> => queue'[q] = <<>>
               /\ pc'[q] \notin 1..Last => queue'[q] = <<>> /\ direct'[q] = <<>>
    <3>1. CASE q = p
      BY <1>1, <1>3, <1>4, <3>1
    <3>2. CASE q # p
      BY <1>1, <3>2 DEF RoundsInv, TaskInv
    <3>3. QED
      BY <3>1, <3>2
  <2>2. QED
    BY <2>1 DEF TaskInv
<1>6. LeftInv'
  <2>1. SUFFICES ASSUME NEW c \in Channel
                 PROVE  /\ pc'[c[3]] \in 1..Last =>
                             Todo(Tasks(c[3])', SendOp(c)) <= Size(pc'[c[3]], c)
                        /\ pc'[c[4]] \in 1..Last =>
                             Todo(Tasks(c[4])', RecvOp(c)) <= Size(pc'[c[4]], c)
    BY DEF LeftInv, Size
  <2>2. c[3] \in Party /\ c[4] \in Party
    BY ChannelParts
  <2>3. \A k \in 1..Last : Size(k, c) \in Nat /\ Size(k, c) <= Size(k, c)
    BY StepFacts
  <2>4. CASE c[3] # p
    <3>1. pc[c[3]] \in 1..Last => Todo(Tasks(c[3]), SendOp(c)) <= Size(pc[c[3]], c)
      BY DEF RoundsInv, LeftInv
    <3>2. pc'[c[3]] \in 1..Last => Todo(Tasks(c[3])', SendOp(c)) <= Size(pc'[c[3]], c)
      BY <1>1, <2>2, <2>4, <3>1
    <3>3. CASE c[4] = p
      BY <2>3, <3>2, <3>3, EnterCounts
    <3>4. CASE c[4] # p
      <4>1. pc[c[4]] \in 1..Last => Todo(Tasks(c[4]), RecvOp(c)) <= Size(pc[c[4]], c)
        BY DEF RoundsInv, LeftInv
      <4>2. QED
        BY <1>1, <2>2, <3>2, <3>4, <4>1
    <3>5. QED
      BY <3>3, <3>4
  <2>5. CASE c[3] = p
    <3>1. c[4] # p
      BY <2>5, ChannelParts
    <3>2. pc[c[4]] \in 1..Last => Todo(Tasks(c[4]), RecvOp(c)) <= Size(pc[c[4]], c)
      BY DEF RoundsInv, LeftInv
    <3>3. pc'[c[4]] \in 1..Last => Todo(Tasks(c[4])', RecvOp(c)) <= Size(pc'[c[4]], c)
      BY <1>1, <2>2, <3>1, <3>2
    <3>4. QED
      BY <2>3, <2>5, <3>3, EnterCounts
  <2>6. QED
    BY <2>4, <2>5
<1>7. CountInv'
  <2> SUFFICES ASSUME NEW c \in Channel, NEW k \in 1..Last
               PROVE  Count(chan'[c], k) + Rcvd(c, k)' = Sent(c, k)'
    BY DEF CountInv
  <2>1. Sent(c, k)' = Sent(c, k) /\ Rcvd(c, k)' = Rcvd(c, k)
    BY EnterCounts
  <2>2. QED
    BY <1>1, <2>1 DEF RoundsInv, CountInv
<1>8. OrderInv'
  <2> SUFFICES ASSUME NEW c \in Channel
               PROVE  /\ Len(chan[c]) <= Cap
                      /\ \A i \in 1..Len(chan[c]) : chan[c][i] <= pc'[c[3]]
                      /\ \A i, j \in 1..Len(chan[c]) : i <= j => chan[c][i] <= chan[c][j]
    BY <1>1 DEF OrderInv
  <2>1. /\ Len(chan[c]) <= Cap
        /\ \A i \in 1..Len(chan[c]) : chan[c][i] <= pc[c[3]]
        /\ \A i, j \in 1..Len(chan[c]) : i <= j => chan[c][i] <= chan[c][j]
    BY DEF RoundsInv, OrderInv
  <2>2. /\ c[3] \in Party /\ pc[c[3]] \in Nat
        /\ \A i \in 1..Len(chan[c]) : chan[c][i] \in Nat
    <3>1. chan[c] \in Seq(1..Last) /\ pc[c[3]] \in 0..(Last + 1)
      BY ChannelParts DEF RoundsInv, StateType
    <3>2. pc[c[3]] \in Nat /\ c[3] \in Party
      BY <1>1, <3>1, ChannelParts
    <3>3. \A i \in 1..Len(chan[c]) : chan[c][i] \in 1..Last
      <4> DEFINE S == 1..Last
      <4>1. chan[c] \in Seq(S)
        BY <3>1
      <4> HIDE DEF S
      <4>2. \A i \in 1..Len(chan[c]) : chan[c][i] \in S
        BY <4>1
      <4>3. QED
        BY <4>2 DEF S
    <3>4. QED
      BY <1>1, <3>2, <3>3
  <2>3. pc'[c[3]] = pc[c[3]] \/ pc'[c[3]] = pc[c[3]] + 1
    BY <1>1, <2>2
  <2>4. QED
    BY <2>1, <2>2, <2>3
<1>9. QED
  BY <1>2, <1>5, <1>6, <1>7, <1>8 DEF RoundsInv

(* Before the first step nothing is sent, received or left to do.          *)
LEMMA InitInv == Init => RoundsInv
<1> SUFFICES ASSUME Init PROVE RoundsInv
  OBVIOUS
<1>1. /\ \A p \in Party : pc[p] = 0 /\ queue[p] = <<>> /\ direct[p] = <<>> /\ Tasks(p) = <<>>
      /\ \A c \in Channel : chan[c] = <<>>
      /\ Last \in Nat
  BY LastNat DEF Init, Tasks
<1>2. StateType
  <2>1. <<>> \in Seq(1..Last) /\ 0 \in 0..(Last + 1)
    BY <1>1
  <2>2. QED
    BY <2>1 DEF Init, StateType
<1>3. TaskInv
  <2>1. \A p \in Party : GoodTasks(p, <<>>)
    BY DEF GoodTasks
  <2>2. \A p \in Party : <<>> \in Seq(Seq(Mine(p))) /\ <<>> \in Seq(Mine(p))
    OBVIOUS
  <2>3. QED
    BY <1>1, <2>1, <2>2 DEF TaskInv
<1>4. \A c \in Channel : c[3] \in Party /\ c[4] \in Party
  BY ChannelParts
<1>5. LeftInv
  BY <1>1, <1>4 DEF LeftInv
<1>6. CountInv
  <2> SUFFICES ASSUME NEW c \in Channel, NEW k \in 1..Last
               PROVE  Count(chan[c], k) + Rcvd(c, k) = Sent(c, k)
    BY DEF CountInv
  <2>1. Count(chan[c], k) = 0
    BY <1>1, CountEmpty
  <2>2. Rcvd(c, k) = 0 /\ Sent(c, k) = 0
    BY <1>1, <1>4 DEF Rcvd, Sent
  <2>3. QED
    BY <2>1, <2>2
<1>7. OrderInv
  <2>1. Len(<<>>) = 0 /\ 0 <= Cap /\ 1..0 = {}
    BY RoundsAssumption
  <2>2. QED
    BY <1>1, <2>1 DEF OrderInv
<1>8. QED
  BY <1>2, <1>3, <1>5, <1>6, <1>7 DEF RoundsInv

(* A process that ends leaves everything else as it was.                   *)
LEMMA LeaveInv ==
    ASSUME RoundsInv, pc' = pc, queue' = queue, direct' = direct, checking' = checking,
           chan' = chan, down' \subseteq Party
    PROVE  RoundsInv'
<1>1. \A p : Tasks(p)' = Tasks(p)
  BY DEF Tasks
<1>2. \A k, c : Size(k, c)' = Size(k, c)
  BY SizeFixed
<1>3. \A k, c : Sent(c, k)' = Sent(c, k) /\ Rcvd(c, k)' = Rcvd(c, k)
  BY <1>1, <1>2 DEF Sent, Rcvd
<1>4. StateType'
  BY DEF RoundsInv, StateType
<1>5. TaskInv'
  BY <1>1 DEF RoundsInv, TaskInv
<1>6. LeftInv'
  BY <1>1, <1>2 DEF RoundsInv, LeftInv, Size
<1>7. CountInv'
  BY <1>3 DEF RoundsInv, CountInv
<1>8. OrderInv'
  BY DEF RoundsInv, OrderInv
<1>9. QED
  BY <1>4, <1>5, <1>6, <1>7, <1>8 DEF RoundsInv

(* Every step of a party, a kill or a failed connection keeps the invariant.*)
LEMMA NextInv == RoundsInv /\ [Next]_vars => RoundsInv'
<1> SUFFICES ASSUME RoundsInv, [Next]_vars PROVE RoundsInv'
  OBVIOUS
<1>1. down \subseteq Party
  BY DEF RoundsInv, StateType
<1>2. ASSUME NEW p \in Party, NextStep(p) PROVE RoundsInv'
  BY <1>2, NextStepInv
<1>3. ASSUME NEW p \in Party, NEW k \in DOMAIN queue[p], PoolStep(p, k) PROVE RoundsInv'
  BY <1>3, PoolStepInv
<1>4. ASSUME NEW p \in Party, MainStep(p) PROVE RoundsInv'
  BY <1>4, MainStepInv
<1>5. ASSUME NEW p \in Party, Broken(p) \/ Crash(p) PROVE RoundsInv'
  BY <1>1, <1>5, LeaveInv DEF Broken, Crash, Ended
<1>6. CASE UNCHANGED vars
  BY <1>1, <1>6, LeaveInv DEF vars
<1>7. QED
  BY <1>2, <1>3, <1>4, <1>5, <1>6 DEF Next, Work, Done

-----------------------------------------------------------------------------
(* Of every step k and every channel, the messages of k on the channel are
   those its sender has sent in k less those its reader has received in k;
   they lie there in the order of the steps, and no task is left that the
   step did not have.                                                      *)
THEOREM RoundsInvariant == Spec => []RoundsInv
BY InitInv, NextInv, PTL DEF Spec

(* Every variable keeps its type, and no socket ever holds more than Cap
   messages in one direction, however the threads of the parties interleave. *)
THEOREM TypeCorrect == Spec => []TypeOK
<1>1. RoundsInv => TypeOK
  <2> SUFFICES ASSUME RoundsInv PROVE TypeOK
    OBVIOUS
  <2>1. /\ pc \in [Party -> 0..(Last + 1)] /\ checking \in [Party -> BOOLEAN]
        /\ chan \in [Channel -> Seq(1..Last)] /\ down \subseteq Party
    BY DEF RoundsInv, StateType
  <2>2. \A p \in Party : Mine(p) \subseteq Operation
    BY DEF Mine
  <2>3. ASSUME NEW p \in Party, NEW k \in DOMAIN queue[p]
        PROVE  queue[p][k] # <<>> /\ \A i \in DOMAIN queue[p][k] : queue[p][k][i] \in Operation
    <3>1. queue[p] \in Seq(Seq(Mine(p))) /\ (direct[p] # <<>> => queue[p] = <<>>)
          /\ GoodTasks(p, Tasks(p))
      BY DEF RoundsInv, TaskInv
    <3>2. k \in 1..Len(queue[p]) /\ queue[p] # <<>> /\ queue[p][k] \in Seq(Mine(p))
      BY <2>3, <3>1
    <3>3. Tasks(p) = queue[p]
      BY <3>1, <3>2 DEF Tasks
    <3>4. queue[p][k] # <<>>
      BY <3>1, <3>2, <3>3 DEF GoodTasks
    <3>5. \A i \in DOMAIN queue[p][k] : queue[p][k][i] \in Mine(p)
      BY <3>2
    <3>6. QED
      BY <2>2, <3>4, <3>5
  <2>4. ASSUME NEW p \in Party, NEW i \in DOMAIN direct[p] PROVE direct[p][i] \in Operation
    <3>1. direct[p] \in Seq(Mine(p))
      BY DEF RoundsInv, TaskInv
    <3>2. QED
      BY <2>2, <2>4, <3>1
  <2>5. ASSUME NEW c \in Channel
        PROVE  Len(chan[c]) <= Cap /\ \A i \in DOMAIN chan[c] : chan[c][i] \in 1..Last
    <3>1. chan[c] \in Seq(1..Last) /\ Len(chan[c]) <= Cap
      BY <2>1 DEF RoundsInv, OrderInv
    <3> DEFINE S == 1..Last
    <3>2. chan[c] \in Seq(S)
      BY <3>1
    <3> HIDE DEF S
    <3>3. \A i \in DOMAIN chan[c] : chan[c][i] \in S
      BY <3>2
    <3>4. QED
      BY <3>1, <3>3 DEF S
  <2>6. QED
    BY <2>1, <2>3, <2>4, <2>5 DEF TypeOK
<1>2. QED
  BY <1>1, RoundsInvariant, PTL

(* The operations a party's threads are at are the heads of its tasks.     *)
LEMMA CurrentTasks ==
    ASSUME RoundsInv, NEW p \in Party, NEW op \in Current(p)
    PROVE  \E j \in 1..Len(Tasks(p)) : Head(Tasks(p)[j]) = op
<1>1. queue[p] \in Seq(Seq(Mine(p))) /\ (direct[p] # <<>> => queue[p] = <<>>)
  BY DEF RoundsInv, TaskInv
<1>2. CASE \E k \in Running(p) : op = Head(queue[p][k])
  <2>1. PICK k \in Running(p) : op = Head(queue[p][k])
    BY <1>2
  <2>2. k \in 1..Len(queue[p]) /\ queue[p] # <<>>
    BY <1>1, <2>1 DEF Running
  <2>3. Tasks(p) = queue[p]
    BY <1>1, <2>2 DEF Tasks
  <2>4. QED
    BY <2>1, <2>2, <2>3
<1>3. CASE direct[p] # <<>> /\ op = Head(direct[p])
  <2>1. Tasks(p) = <<direct[p]>>
    BY <1>3 DEF Tasks
  <2>2. Tasks(p)[1] = direct[p] /\ 1 \in 1..Len(Tasks(p))
    BY <2>1
  <2>3. QED
    BY <1>3, <2>2
<1>4. QED
  BY <1>2, <1>3 DEF Current

(* A thread never reads a message of another step than its own, although
   messages carry no type and the parties are joined only by the messages:
   whatever lies first on a socket one of its threads is about to read was
   written by its peer in the reader's step.                               *)
THEOREM MessagesMatchHolds == Spec => []MessagesMatch
<1>1. RoundsInv => MessagesMatch
  <2> SUFFICES ASSUME RoundsInv, NEW p \in Party \ down, NEW op \in Current(p),
                      op.dir = "recv", chan[op.chan] # <<>>
               PROVE  Head(chan[op.chan]) = pc[p]
    BY DEF MessagesMatch
  <2>1. PICK j \in 1..Len(Tasks(p)) : Head(Tasks(p)[j]) = op
    BY CurrentTasks
  <2>2. op \in Mine(p)
    <3>1. GoodTasks(p, Tasks(p))
      BY DEF RoundsInv, TaskInv
    <3>2. Tasks(p)[j] \in Seq(Mine(p)) /\ Tasks(p)[j] # <<>>
      BY <3>1 DEF GoodTasks
    <3>3. Head(Tasks(p)[j]) \in Mine(p)
      BY <3>2, HeadFacts
    <3>4. QED
      BY <2>1, <3>3
  <2>3. op.chan \in Channel /\ op = RecvOp(op.chan) /\ op.chan[4] = p
    BY <2>2, MineParts DEF Mine, RecvOp
  <2>4. QED
    BY <2>1, <2>3, HeadMatches
<1>2. QED
  BY <1>1, RoundsInvariant, PTL

(* No two threads of a process, pool or main, are ever in a read or a write
   of one SSL object.                                                      *)
THEOREM OneThreadPerSocketHolds == Spec => []OneThreadPerSocket
<1>1. RoundsInv => OneThreadPerSocket
  <2> SUFFICES ASSUME RoundsInv, NEW p \in Party
               PROVE  /\ \A j, k \in Running(p) :
                            Ssl(p, Head(queue[p][j])) = Ssl(p, Head(queue[p][k])) => j = k
                      /\ direct[p] # <<>> =>
                            \A k \in Running(p) : Ssl(p, Head(queue[p][k])) # Ssl(p, Head(direct[p]))
    BY DEF OneThreadPerSocket
  <2>1. /\ queue[p] \in Seq(Seq(Mine(p))) /\ (direct[p] # <<>> => queue[p] = <<>>)
        /\ GoodTasks(p, Tasks(p))
    BY DEF RoundsInv, TaskInv
  <2>2. Running(p) \subseteq 1..Len(queue[p])
    BY <2>1 DEF Running
  <2>3. ASSUME direct[p] # <<>> PROVE Running(p) = {}
    BY <2>1, <2>2, <2>3
  <2>4. ASSUME NEW j \in Running(p), NEW k \in Running(p),
               Ssl(p, Head(queue[p][j])) = Ssl(p, Head(queue[p][k]))
        PROVE  j = k
    <3>1. Tasks(p) = queue[p]
      BY <2>3, <2>4 DEF Tasks
    <3>2. GoodTasks(p, queue[p]) /\ j \in 1..Len(queue[p]) /\ k \in 1..Len(queue[p])
      BY <2>1, <2>2, <3>1
    <3>3. /\ queue[p][j] \in Seq(Mine(p)) /\ queue[p][j] # <<>>
          /\ queue[p][k] \in Seq(Mine(p)) /\ queue[p][k] # <<>>
      BY <2>1, <3>2 DEF GoodTasks
    <3>4. /\ Head(queue[p][j]) \in Mine(p) /\ Has(queue[p][j], Head(queue[p][j]))
          /\ Head(queue[p][k]) \in Mine(p) /\ Has(queue[p][k], Head(queue[p][k]))
      BY <3>3, HeadFacts
    <3>5. QED
      BY <2>4, <3>2, <3>4 DEF GoodTasks
  <2>5. QED
    BY <2>3, <2>4
<1>2. QED
  BY <1>1, RoundsInvariant, PTL

(* When all parties have finished every message has been read, so a further
   run over the same connections starts with empty sockets.                *)
THEOREM CleanEndHolds == Spec => []CleanEnd
<1>1. RoundsInv => CleanEnd
  <2> SUFFICES ASSUME RoundsInv, \A p \in Party : pc[p] > Last, NEW c \in Channel, chan[c] # <<>>
               PROVE  FALSE
    BY DEF CleanEnd
  <2> DEFINE k == Head(chan[c])
  <2>1. chan[c] \in Seq(1..Last)
    BY DEF RoundsInv, StateType
  <2>2. k \in 1..Last /\ Has(chan[c], k)
    BY <2>1, HeadFacts
  <2> HIDE DEF k
  <2>3. Count(chan[c], k) # 0
    BY <2>1, <2>2, HasCount
  <2>4. pc[c[3]] > k /\ pc[c[4]] > k
    <3>1. /\ pc[c[3]] > Last /\ pc[c[3]] \in Nat
          /\ pc[c[4]] > Last /\ pc[c[4]] \in Nat
      BY <2>2, ChannelParts, SentBounds
    <3>2. QED
      BY <2>2, <3>1, LastNat
  <2>5. Sent(c, k) = Size(k, c) /\ Rcvd(c, k) = Size(k, c)
    BY <2>4 DEF Sent, Rcvd
  <2>6. Count(chan[c], k) + Rcvd(c, k) = Sent(c, k)
    BY <2>2 DEF RoundsInv, CountInv
  <2>7. QED
    BY <2>2, <2>3, <2>5, <2>6, SentBounds
<1>2. QED
  BY <1>1, RoundsInvariant, PTL

-----------------------------------------------------------------------------
(* A party that has joined a step has received what the step reads, so the
   parties it hears from there have sent it: they are in the step, or past it. *)
LEMMA HeardHaveEntered ==
    ASSUME RoundsInv, NEW p \in Party, Tasks(p) = <<>>, NEW q \in Hears(p, pc[p])
    PROVE  pc[q] >= pc[p]
<1> DEFINE k == pc[p]
           tasks == Program[p][k].tasks
<1>1. k \in 1..Last /\ q \in Sources(Program[p][k])
  <2>1. k \in 1..Last /\ q \in SourcesOf[p][k]
    BY DEF Hears
  <2>2. QED
    BY <2>1 DEF SourcesOf
<1>2. GoodStep(p, Program[p][k])
  BY <1>1, StepFacts
<1>3. PICK t \in Range(tasks) : \E o \in Range(t) : o.dir = "recv" /\ q = o.chan[3]
  BY <1>1 DEF Sources
<1>4. PICK o \in Range(t) : o.dir = "recv" /\ q = o.chan[3]
  BY <1>3
<1> HIDE DEF k, tasks
<1>5. GoodTasks(p, tasks) /\ tasks \in Seq(Seq(Mine(p)))
  BY <1>2 DEF GoodStep, tasks
<1>6. PICK j \in 1..Len(tasks) : tasks[j] = t
  BY <1>5 DEF Range
<1>7. tasks[j] \in Seq(Mine(p))
  BY <1>5
<1>8. PICK i \in 1..Len(t) : t[i] = o
  BY <1>6, <1>7 DEF Range
<1>9. o \in Mine(p) /\ Has(tasks[j], o)
  BY <1>6, <1>7, <1>8 DEF Has
<1> DEFINE c == o.chan
<1>10. c \in Channel /\ o = RecvOp(c) /\ c[4] = p /\ c[3] = q
  BY <1>4, <1>9, MineParts DEF Mine, RecvOp
<1> HIDE DEF c
<1>11. Todo(tasks, o) # 0
  <2>1. Apart(tasks, o)
    BY <1>5, <1>9, GoodApart
  <2>2. Todo(tasks, o) = Count(tasks[j], o)
    BY <1>9, <2>1, TodoAt
  <2>3. QED
    BY <1>7, <1>9, <2>2, HasCount
<1>12. Size(k, c) = Todo(tasks, o) /\ Size(k, c) \in Nat
  BY <1>1, <1>10, StepFacts DEF tasks, k
<1>13. Rcvd(c, k) = Size(k, c)
  <2>1. Todo(Tasks(p), RecvOp(c)) = 0
    BY TodoEmpty
  <2>2. pc[c[4]] = k
    BY <1>10 DEF k
  <2>3. Rcvd(c, k) = IF k > k THEN Size(k, c) ELSE Size(k, c) - 0
    BY <1>10, <2>1, <2>2 DEF Rcvd
  <2>4. QED
    BY <1>12, <2>3
<1>14. Count(chan[c], k) + Rcvd(c, k) = Sent(c, k) /\ k \in 1..Last
  BY <1>1, <1>10 DEF RoundsInv, CountInv, k
<1>15. Sent(c, k) # 0 /\ pc[q] \in Nat
  BY <1>10, <1>11, <1>12, <1>13, <1>14, SentBounds
<1>16. pc[c[3]] > k \/ pc[c[3]] = k
  BY <1>15 DEF Sent
<1>17. pc[q] >= k
  BY <1>10, <1>14, <1>15, <1>16
<1>18. QED
  BY <1>17 DEF k

(* Every step is an advance or a leave of Lockstep, or is not seen there.  *)
LEMMA LockstepStep == RoundsInv /\ [Next]_vars => [L!LockNext]_<<pc, down>>
<1> SUFFICES ASSUME RoundsInv, [Next]_vars PROVE [L!LockNext]_<<pc, down>>
  OBVIOUS
<1>1. ASSUME NEW p \in Party, NextStep(p) PROVE L!LockNext
  <2>1. Tasks(p) = <<>>
    BY <1>1, Entered
  <2>2. \A q \in Hears(p, pc[p]) : pc[q] >= pc[p]
    BY <2>1, HeardHaveEntered
  <2>3. L!Advance(p)
    BY <1>1, <2>2 DEF NextStep, Up, L!Advance
  <2>4. QED
    BY <2>3 DEF L!LockNext
<1>2. ASSUME NEW p \in Party, Crash(p) PROVE L!LockNext
  <2>1. L!Leave(p)
    BY <1>2 DEF Crash, Up, Ended, L!Leave
  <2>2. QED
    BY <2>1 DEF L!LockNext
<1>3. ASSUME NEW p \in Party, Broken(p) PROVE L!LockNext
  <2>1. PICK op : op \in Current(p)
    BY <1>3 DEF Broken
  <2>2. Tasks(p) # <<>>
    <3>1. PICK j \in 1..Len(Tasks(p)) : Head(Tasks(p)[j]) = op
      BY <2>1, CurrentTasks
    <3>2. QED
      BY <3>1
  <2>3. pc[p] \in 1..Last
    BY <2>2 DEF RoundsInv, TaskInv, Tasks
  <2>4. pc[p] <= Last
    BY <2>3, LastNat
  <2>5. L!Leave(p)
    BY <1>3, <2>4 DEF Broken, Up, Ended, L!Leave
  <2>6. QED
    BY <2>5 DEF L!LockNext
<1>4. ASSUME NEW p \in Party, MainStep(p) \/ \E k \in DOMAIN queue[p] : PoolStep(p, k)
      PROVE  UNCHANGED <<pc, down>>
  BY <1>4 DEF MainStep, PoolStep
<1>5. CASE UNCHANGED vars
  BY <1>5 DEF vars
<1>6. QED
  BY <1>1, <1>2, <1>3, <1>4, <1>5 DEF Next, Work, Done

(* The message rounds implement Lockstep for every number of parties, pool
   size and socket capacity: nobody leaves a step before everyone it hears
   from there has entered it, so nobody opens before all have committed.   *)
THEOREM RoundsImplementLockstepHolds == Spec => RoundsImplementLockstep
<1>1. Init => L!LockInit
  BY DEF Init, L!LockInit
<1>2. QED
  BY <1>1, LockstepStep, RoundsInvariant, PTL
     DEF Spec, RoundsImplementLockstep, L!LockSpec, L!lockVars

=============================================================================
