------------------------------ MODULE U2FProofs ------------------------------
(***************************************************************************)
(* Proofs about U2F, for every number of parties, every set of operations  *)
(* and every attempt limit.  The first part is about the Merkle tree: the  *)
(* path of a place validates the leaf at this place and no other leaf.     *)
(* The recursive functions of the module are tied to their equations by a  *)
(* least counterexample, and so is what the levels and the path satisfy.   *)
(***************************************************************************)
EXTENDS U2F, FiniteSetTheorems, TLAPS

-----------------------------------------------------------------------------
(* Natural numbers and divisions by two.                                    *)

\* A non-empty set of natural numbers has a least element.
LEMMA NatMin ==
    ASSUME NEW T \in SUBSET Nat, T # {}
    PROVE  \E x \in T : \A y \in T : x <= y
<1>1. IsWellFoundedOn(OpToRel(<, Nat), Nat)
  BY NatLessThanWellFounded
<1>2. PICK x \in T : \A y \in T : ~(<<y, x>> \in OpToRel(<, Nat))
  BY <1>1, WFMin
<1>3. \A y \in T : ~(y < x)
  BY <1>2 DEF OpToRel
<1>4. QED
  BY <1>3

\* Halving, rounded up, as Above and Positions do it.
LEMMA Halving ==
    ASSUME NEW m \in Nat \ {0}
    PROVE  /\ (m + 1) \div 2 \in Nat \ {0}
           /\ (m + 1) \div 2 <= m
           /\ m > 1 => (m + 1) \div 2 < m
           /\ \A j \in 1..m : (j + 1) \div 2 \in 1..((m + 1) \div 2)
           /\ \A j \in 1..m : IF j % 2 = 1 THEN 2 * ((j + 1) \div 2) = j + 1
                                           ELSE j % 2 = 0 /\ 2 * ((j + 1) \div 2) = j
<1>1. \A x \in Nat : x = (2 * (x \div 2)) + (x % 2) /\ x % 2 \in {0, 1} /\ x \div 2 \in Nat
  OBVIOUS
<1>2. QED
  BY <1>1

-----------------------------------------------------------------------------
(* The recursive functions of the tree satisfy their equations.             *)

\* The levels: the leaves, and then each level above the one before.
LEMMA LevelsDef ==
    ASSUME NEW cs, Len(cs) \in Nat
    PROVE  Levels(cs) = [k \in 0..Len(cs) |->
               IF k = 0 THEN [i \in 1..Len(cs) |-> Leaf(cs[i])] ELSE Above(Levels(cs)[k - 1])]
<1> DEFINE leaves == [i \in 1..Len(cs) |-> Leaf(cs[i])]
           Is(f, n) == f = [k \in 0..n |-> IF k = 0 THEN leaves ELSE Above(f[k - 1])]
           Bad == {n \in Nat : ~\E f : Is(f, n)}
<1> HIDE DEF leaves
<1>1. SUFFICES \E f : Is(f, Len(cs))
  BY DEF Levels, leaves
<1>2. SUFFICES ASSUME Bad # {} PROVE FALSE
  OBVIOUS
<1>3. PICK n \in Bad : \A y \in Bad : n <= y
  <2>1. Bad \in SUBSET Nat
    OBVIOUS
  <2> HIDE DEF Bad
  <2>2. QED
    BY <1>2, <2>1, NatMin
<1>4. n # 0
  <2>1. Is([k \in 0..0 |-> leaves], 0)
    OBVIOUS
  <2>2. QED
    BY <1>3, <2>1
<1>5. PICK g : Is(g, n - 1)
  <2>1. n - 1 \in Nat /\ ~(n <= n - 1)
    BY <1>3, <1>4
  <2>2. QED
    BY <1>3, <2>1
<1>6. Is([k \in 0..n |-> IF k = n THEN Above(g[n - 1]) ELSE g[k]], n)
  BY <1>3, <1>4, <1>5
<1>7. QED
  BY <1>3, <1>6

\* The places of a path: a leaf, and then half of the place before.
LEMMA PositionsDef ==
    ASSUME NEW i, NEW m \in Nat
    PROVE  Positions(i, m) = [k \in 0..m |->
               IF k = 0 THEN i ELSE (Positions(i, m)[k - 1] + 1) \div 2]
<1> DEFINE Is(f, n) == f = [k \in 0..n |-> IF k = 0 THEN i ELSE (f[k - 1] + 1) \div 2]
           Bad == {n \in Nat : ~\E f : Is(f, n)}
<1>1. SUFFICES \E f : Is(f, m)
  BY DEF Positions
<1>2. SUFFICES ASSUME Bad # {} PROVE FALSE
  OBVIOUS
<1>3. PICK n \in Bad : \A y \in Bad : n <= y
  <2>1. Bad \in SUBSET Nat
    OBVIOUS
  <2> HIDE DEF Bad
  <2>2. QED
    BY <1>2, <2>1, NatMin
<1>4. n # 0
  <2>1. Is([k \in 0..0 |-> i], 0)
    OBVIOUS
  <2>2. QED
    BY <1>3, <2>1
<1>5. PICK g : Is(g, n - 1)
  <2>1. n - 1 \in Nat /\ ~(n <= n - 1)
    BY <1>3, <1>4
  <2>2. QED
    BY <1>3, <2>1
<1>6. Is([k \in 0..n |-> IF k = n THEN (g[n - 1] + 1) \div 2 ELSE g[k]], n)
  BY <1>3, <1>4, <1>5
<1>7. QED
  BY <1>3, <1>6

\* The hashes of a validation: the leaf, and then each step combined in.
LEMMA ClimbDef ==
    ASSUME NEW proof, NEW leaf, Len(proof) \in Nat
    PROVE  \E h : /\ h = [k \in 0..Len(proof) |-> IF k = 0 THEN leaf ELSE Combine(proof[k], h[k - 1])]
                  /\ \A root : validate_proof(proof, leaf, root) <=> h[Len(proof)] = root
<1> DEFINE Is(f, n) == f = [k \in 0..n |-> IF k = 0 THEN leaf ELSE Combine(proof[k], f[k - 1])]
           Bad == {n \in Nat : ~\E f : Is(f, n)}
<1>1. SUFFICES \E f : Is(f, Len(proof))
  BY DEF validate_proof
<1>2. SUFFICES ASSUME Bad # {} PROVE FALSE
  OBVIOUS
<1>3. PICK n \in Bad : \A y \in Bad : n <= y
  <2>1. Bad \in SUBSET Nat
    OBVIOUS
  <2> HIDE DEF Bad
  <2>2. QED
    BY <1>2, <2>1, NatMin
<1>4. n # 0
  <2>1. Is([k \in 0..0 |-> leaf], 0)
    OBVIOUS
  <2>2. QED
    BY <1>3, <2>1
<1>5. PICK g : Is(g, n - 1)
  <2>1. n - 1 \in Nat /\ ~(n <= n - 1)
    BY <1>3, <1>4
  <2>2. QED
    BY <1>3, <2>1
<1>6. Is([k \in 0..n |-> IF k = n THEN Combine(proof[n], g[n - 1]) ELSE g[k]], n)
  BY <1>3, <1>4, <1>5
<1>7. QED
  BY <1>3, <1>6

-----------------------------------------------------------------------------
(* One level of the tree.                                                   *)

\* s is a sequence of length n.
Row(s, n) == s = [i \in 1..n |-> s[i]]

LEMMA RowLen ==
    ASSUME NEW n \in Nat, NEW s, Row(s, n)
    PROVE  Len(s) = n
BY DEF Row

\* The level above has half as many hashes.
LEMMA AboveLen ==
    ASSUME NEW n \in Nat \ {0}, NEW level, Row(level, n)
    PROVE  /\ Row(Above(level), (n + 1) \div 2)
           /\ Len(Above(level)) = (n + 1) \div 2
<1>1. Len(level) = n
  BY RowLen
<1>2. (n + 1) \div 2 \in Nat
  BY Halving
<1>3. DOMAIN Above(level) = 1..((n + 1) \div 2) /\ Row(Above(level), (n + 1) \div 2)
  BY <1>1 DEF Above, Row
<1>4. QED
  BY <1>1, <1>2, <1>3

\* A path's step turns the hash at a place into the hash at the place above.
LEMMA ClimbStep ==
    ASSUME NEW n \in Nat \ {0}, NEW level, Row(level, n), NEW j \in 1..n
    PROVE  Above(level)[(j + 1) \div 2] = Combine(PathStep(level, j), level[j])
<1>1. Len(level) = n
  BY RowLen
<1> DEFINE u == (j + 1) \div 2
<1>2. u \in 1..((n + 1) \div 2) /\ (IF j % 2 = 1 THEN 2 * u = j + 1 ELSE j % 2 = 0 /\ 2 * u = j)
  BY Halving
<1>3. Above(level)[u] = IF 2 * u <= n THEN Node(level[2 * u - 1], level[2 * u]) ELSE level[2 * u - 1]
  BY <1>1, <1>2 DEF Above
<1> SUFFICES Above(level)[u] = Combine(PathStep(level, j), level[j])
  OBVIOUS
<1> HIDE DEF u
<1>4. CASE j % 2 = 1
  <2>1. 2 * u = j + 1 /\ 2 * u - 1 = j
    BY <1>2, <1>4
  <2>2. CASE j + 1 <= n
    BY <1>1, <1>3, <1>4, <2>1, <2>2 DEF PathStep, Beside, Combine
  <2>3. CASE ~(j + 1 <= n)
    BY <1>1, <1>3, <1>4, <2>1, <2>3 DEF PathStep, Beside, Combine
  <2>4. QED
    BY <2>2, <2>3
<1>5. CASE j % 2 # 1
  <2>1. 2 * u = j /\ j - 1 \in 1..n /\ 2 * u - 1 = j - 1
    BY <1>2, <1>5
  <2>2. QED
    BY <1>1, <1>3, <1>5, <2>1 DEF PathStep, Beside, Combine
<1>6. QED
  BY <1>4, <1>5

\* Hashes do not collide: a step keeps two hashes apart.
LEMMA CombineInjective ==
    ASSUME NEW step, NEW g, NEW h, Combine(step, g) = Combine(step, h)
    PROVE  g = h
BY DEF Combine, Node

-----------------------------------------------------------------------------
(* The whole tree, over n challenges.                                       *)

\* The levels of a sequence, one by one.
LEMMA LevelSteps ==
    ASSUME NEW n \in Nat \ {0}, NEW cs, Row(cs, n)
    PROVE  /\ Levels(cs)[0] = [i \in 1..n |-> Leaf(cs[i])]
           /\ \A k \in 1..n : Levels(cs)[k] = Above(Levels(cs)[k - 1])
<1>1. Len(cs) = n
  BY RowLen
<1>2. QED
  BY <1>1, LevelsDef

\* Each level is a sequence; it is shorter than the one before until one hash is left.
LEMMA LevelWidths ==
    ASSUME NEW n \in Nat \ {0}, NEW cs, Row(cs, n)
    PROVE  \A k \in 0..n : \E w \in Nat \ {0} :
               /\ Row(Levels(cs)[k], w)
               /\ w = 1 \/ w + k <= n
<1> DEFINE L == Levels(cs)
           Wide(k) == \E w \in Nat \ {0} : Row(L[k], w) /\ (w = 1 \/ w + k <= n)
           Bad == {k \in 0..n : ~Wide(k)}
<1>1. /\ L[0] = [i \in 1..n |-> Leaf(cs[i])]
      /\ \A k \in 1..n : L[k] = Above(L[k - 1])
  BY LevelSteps
<1> HIDE DEF L
<1>2. Wide(0)
  BY <1>1 DEF Row
<1>3. ASSUME NEW k \in 1..n, Wide(k - 1) PROVE Wide(k)
  <2>1. PICK w \in Nat \ {0} : Row(L[k - 1], w) /\ (w = 1 \/ w + (k - 1) <= n)
    BY <1>3
  <2>2. Row(L[k], (w + 1) \div 2)
    BY <1>1, <2>1, AboveLen
  <2>3. (w + 1) \div 2 \in Nat \ {0} /\ (w = 1 \/ (w + 1) \div 2 < w) /\ (w + 1) \div 2 <= w
    BY Halving
  <2>4. (w + 1) \div 2 = 1 \/ (w + 1) \div 2 + k <= n
    BY <2>1, <2>3
  <2>5. QED
    BY <2>2, <2>3, <2>4
<1>4. Bad = {}
  <2>1. SUFFICES ASSUME Bad # {} PROVE FALSE
    OBVIOUS
  <2>2. PICK k \in Bad : \A y \in Bad : k <= y
    <3>1. Bad \in SUBSET Nat
      OBVIOUS
    <3> HIDE DEF Bad
    <3>2. QED
      BY <2>1, <3>1, NatMin
  <2>3. k \in 0..n /\ ~Wide(k)
    BY <2>2
  <2> HIDE DEF Wide
  <2>4. k \in 1..n /\ k - 1 \in 0..n /\ ~(k <= k - 1)
    BY <1>2, <2>3
  <2>5. Wide(k - 1)
    BY <2>2, <2>4
  <2>6. QED
    BY <1>3, <2>3, <2>4, <2>5
<1>5. QED
  BY <1>4 DEF L

\* The place of a path lies in its level, and its last place is the root's.
LEMMA PathPlaces ==
    ASSUME NEW n \in Nat \ {0}, NEW cs, Row(cs, n), NEW i \in 1..n
    PROVE  /\ \A k \in 0..n : Positions(i, n)[k] \in 1..Len(Levels(cs)[k])
           /\ Positions(i, n)[n] = 1
<1> DEFINE L == Levels(cs)
           P == Positions(i, n)
           Inside(k) == P[k] \in 1..Len(L[k])
           Bad == {k \in 0..n : ~Inside(k)}
<1>1. /\ L[0] = [j \in 1..n |-> Leaf(cs[j])]
      /\ \A k \in 1..n : L[k] = Above(L[k - 1])
  BY LevelSteps
<1>2. P[0] = i /\ \A k \in 1..n : P[k] = (P[k - 1] + 1) \div 2
  BY PositionsDef
<1>3. \A k \in 0..n : \E w \in Nat \ {0} : Row(L[k], w) /\ (w = 1 \/ w + k <= n)
  BY LevelWidths
<1> HIDE DEF L, P
<1>4. Inside(0)
  BY <1>1, <1>2
<1>5. ASSUME NEW k \in 1..n, Inside(k - 1) PROVE Inside(k)
  <2>1. PICK w \in Nat \ {0} : Row(L[k - 1], w)
    BY <1>3
  <2>2. Len(L[k - 1]) = w
    BY <2>1, RowLen
  <2>3. Len(Above(L[k - 1])) = (w + 1) \div 2
    BY <2>1, AboveLen
  <2>4. QED
    BY <1>1, <1>2, <1>5, <2>2, <2>3, Halving
<1>6. Bad = {}
  <2>1. SUFFICES ASSUME Bad # {} PROVE FALSE
    OBVIOUS
  <2>2. PICK k \in Bad : \A y \in Bad : k <= y
    <3>1. Bad \in SUBSET Nat
      OBVIOUS
    <3> HIDE DEF Bad
    <3>2. QED
      BY <2>1, <3>1, NatMin
  <2>3. k \in 0..n /\ ~Inside(k)
    BY <2>2
  <2> HIDE DEF Inside
  <2>4. k \in 1..n /\ k - 1 \in 0..n /\ ~(k <= k - 1)
    BY <1>4, <2>3
  <2>5. Inside(k - 1)
    BY <2>2, <2>4
  <2>6. QED
    BY <1>5, <2>3, <2>4, <2>5
<1>7. P[n] = 1
  <2>1. PICK w \in Nat \ {0} : Row(L[n], w) /\ (w = 1 \/ w + n <= n)
    BY <1>3
  <2>2. w = 1
    BY <2>1
  <2>3. Len(L[n]) = w
    BY <2>1, RowLen
  <2>4. Inside(n)
    BY <1>6
  <2>5. QED
    BY <2>2, <2>3, <2>4
<1>8. QED
  BY <1>6, <1>7 DEF L, P

\* The path of place i validates the challenge at place i and no other, for
\* every number of challenges.  This is what verify_merkle_proof rests on.
THEOREM PathFitsItsLeafOnly ==
    ASSUME NEW n \in Nat \ {0}, NEW cs, Row(cs, n), NEW i \in 1..n, NEW c
    PROVE  validate_proof(get_proof(cs, i), Leaf(c), build_tree(cs)) <=> c = cs[i]
<1> DEFINE L == Levels(cs)
           P == Positions(i, n)
           proof == get_proof(cs, i)
<1>0. Len(cs) = n
  BY RowLen
<1>1. /\ L[0] = [j \in 1..n |-> Leaf(cs[j])]
      /\ \A k \in 1..n : L[k] = Above(L[k - 1])
  BY LevelSteps
<1>2. P[0] = i /\ \A k \in 1..n : P[k] = (P[k - 1] + 1) \div 2
  BY PositionsDef
<1>3. Len(proof) = n /\ \A k \in 1..n : proof[k] = PathStep(L[k - 1], P[k - 1])
  BY <1>0 DEF get_proof
<1>4. \A k \in 0..n : \E w \in Nat \ {0} : Row(L[k], w)
  BY LevelWidths
<1>5. (\A k \in 0..n : P[k] \in 1..Len(L[k])) /\ P[n] = 1
  BY PathPlaces
<1>6. build_tree(cs) = L[n][1]
  BY <1>0 DEF build_tree
<1>7. PICK h : /\ h = [k \in 0..n |-> IF k = 0 THEN Leaf(c) ELSE Combine(proof[k], h[k - 1])]
               /\ \A root : validate_proof(proof, Leaf(c), root) <=> h[n] = root
  <2> HIDE DEF proof
  <2>1. QED
    BY <1>3, ClimbDef
<1>8. h[0] = Leaf(c) /\ \A k \in 1..n : h[k] = Combine(proof[k], h[k - 1])
  BY <1>7
<1> HIDE DEF L, P, proof
<1> DEFINE Right(k) == h[k] = L[k][P[k]] <=> c = cs[i]
           Bad == {k \in 0..n : ~Right(k)}
<1>9. Right(0)
  BY <1>1, <1>2, <1>8 DEF Leaf
<1>10. ASSUME NEW k \in 1..n, Right(k - 1) PROVE Right(k)
  <2>1. PICK w \in Nat \ {0} : Row(L[k - 1], w)
    BY <1>4
  <2>2. P[k - 1] \in 1..w
    BY <1>5, <2>1, RowLen
  <2>3. L[k][P[k]] = Combine(proof[k], L[k - 1][P[k - 1]])
    BY <1>1, <1>2, <1>3, <2>1, <2>2, ClimbStep
  <2>4. h[k] = Combine(proof[k], h[k - 1])
    BY <1>8
  <2>5. QED
    BY <1>10, <2>3, <2>4, CombineInjective
<1>11. Bad = {}
  <2>1. SUFFICES ASSUME Bad # {} PROVE FALSE
    OBVIOUS
  <2>2. PICK k \in Bad : \A y \in Bad : k <= y
    <3>1. Bad \in SUBSET Nat
      OBVIOUS
    <3> HIDE DEF Bad
    <3>2. QED
      BY <2>1, <3>1, NatMin
  <2>3. k \in 0..n /\ ~Right(k)
    BY <2>2
  <2> HIDE DEF Right
  <2>4. k \in 1..n /\ k - 1 \in 0..n /\ ~(k <= k - 1)
    BY <1>9, <2>3
  <2>5. Right(k - 1)
    BY <2>2, <2>4
  <2>6. QED
    BY <1>10, <2>3, <2>4, <2>5
<1>12. Right(n)
  BY <1>11
<1>13. QED
  BY <1>5, <1>6, <1>7, <1>12 DEF proof

-----------------------------------------------------------------------------
(* The order of the challenges.                                             *)

\* An ascending arrangement of the numbers 1..n is 1, 2, ..., n.
LEMMA AscendingIsIdentity ==
    ASSUME NEW n \in Nat, NEW k \in [1..n -> 1..n],
           \A i, j \in 1..n : i < j => k[i] < k[j]
    PROVE  \A i \in 1..n : k[i] = i
<1>1. \A i \in 1..n : i <= k[i]
  <2> DEFINE Bad == {i \in 1..n : ~(i <= k[i])}
  <2>1. SUFFICES ASSUME Bad # {} PROVE FALSE
    OBVIOUS
  <2>2. PICK i \in Bad : \A y \in Bad : i <= y
    <3>1. Bad \in SUBSET Nat
      OBVIOUS
    <3> HIDE DEF Bad
    <3>2. QED
      BY <2>1, <3>1, NatMin
  <2>3. i \in 1..n /\ k[i] \in 1..n /\ k[i] < i
    BY <2>2
  <2>4. i - 1 \in 1..n /\ i - 1 \notin Bad
    BY <2>2, <2>3
  <2>5. i - 1 <= k[i - 1] /\ k[i - 1] < k[i] /\ k[i - 1] \in 1..n
    BY <2>3, <2>4
  <2>6. QED
    BY <2>3, <2>5
<1>2. \A i \in 1..n : k[i] <= i
  <2> DEFINE Bad == {d \in 0..n : n - d \in 1..n /\ ~(k[n - d] <= n - d)}
  <2>1. SUFFICES ASSUME NEW i \in 1..n, ~(k[i] <= i) PROVE FALSE
    OBVIOUS
  <2>2. Bad # {}
    <3>1. n - i \in 0..n /\ n - (n - i) = i
      OBVIOUS
    <3>2. n - i \in Bad
      BY <2>1, <3>1
    <3>3. QED
      BY <3>2
  <2>3. PICK d \in Bad : \A y \in Bad : d <= y
    <3>1. Bad \in SUBSET Nat
      OBVIOUS
    <3> HIDE DEF Bad
    <3>2. QED
      BY <2>2, <3>1, NatMin
  <2>4. d \in 0..n /\ n - d \in 1..n /\ k[n - d] \in 1..n /\ n - d < k[n - d]
    BY <2>3
  <2>5. d - 1 \in 0..n /\ n - (d - 1) \in 1..n /\ ~(d <= d - 1)
    BY <2>4
  <2>6. d - 1 \notin Bad
    BY <2>3, <2>5
  <2>7. k[n - (d - 1)] <= n - (d - 1) /\ k[n - d] < k[n - (d - 1)] /\ k[n - (d - 1)] \in 1..n
    BY <2>4, <2>5, <2>6
  <2>8. QED
    BY <2>4, <2>5, <2>7
<1>3. QED
  BY <1>1, <1>2

\* Whatever the order in which the challenges came, each ends at the place of
\* the party that made it.
LEMMA SortedByParty ==
    ASSUME NEW o \in Op, NEW came \in SetToSeqs(Party)
    PROVE  Sorted(o, came) = [i \in 1..N |-> issued[o][i]]
<1>1. N \in Nat \ {0} /\ IsFiniteSet(1..N) /\ Cardinality(1..N) = N
  BY U2FAssumption, FS_Interval
<1>2. came \in [1..N -> 1..N] /\ \A i, j \in 1..N : i # j => came[i] # came[j]
  BY <1>1 DEF SetToSeqs, Party
<1>3. ToSet(came) = 1..N
  <2>1. came \in Injection(1..N, 1..N)
    BY <1>2 DEF Injection, IsInjective
  <2>2. came \in Surjection(1..N, 1..N)
    BY <1>1, <2>1, FS_Injection
  <2>3. QED
    BY <1>2, <2>2 DEF Surjection, ToSet
<1> DEFINE Rises(k) == \A i, j \in DOMAIN k : i < j => k[i] < k[j]
           keys == CHOOSE k \in SetToSeqs(1..N) : Rises(k)
<1>4. keys \in SetToSeqs(1..N) /\ Rises(keys)
  <2>1. [i \in 1..N |-> i] \in SetToSeqs(1..N) /\ Rises([i \in 1..N |-> i])
    BY <1>1 DEF SetToSeqs
  <2>2. QED
    BY <2>1
<1>5. keys \in [1..N -> 1..N]
  BY <1>1, <1>4 DEF SetToSeqs
<1>6. Sorted(o, came) = [i \in 1..N |-> issued[o][keys[i]]]
  BY <1>3 DEF Sorted
<1> HIDE DEF keys
<1>7. \A i \in 1..N : keys[i] = i
  BY <1>1, <1>4, <1>5, AscendingIsIdentity
<1>8. QED
  BY <1>6, <1>7

-----------------------------------------------------------------------------
(* The invariants.                                                          *)

Challenge == Party \X Nat

\* what the variables hold; an answer is only known to exist
Typed ==
    /\ issued \in [Op -> [Party -> Challenge \cup {None}]]
    /\ slot \in [Party -> Challenge \cup {None}]
    /\ made \in [Party -> Nat]
    /\ DOMAIN answer = Op /\ answer = [o \in Op |-> answer[o]]
    /\ verdict \in [Op -> [Party -> {"none", "passed", "failed", "locked"}]]
    /\ passcode \in [Passcode -> {"none", "passed", "failed", "locked"}]
    /\ counter \in [Party -> 0..MAX_FAULTY_ATTEMPTS]
    /\ locked \subseteq Party

\* an answer is about the challenges of all parties, each at its party's place
AnswerInv ==
    \A o \in Op : answer[o] # None =>
        /\ \A p \in Party : issued[o][p] # None
        /\ answer[o] = generate_response([i \in 1..N |-> issued[o][i]])

\* the challenges of a party are numbered; its slot holds the last of them,
\* which it made for some operation
ChallengeInv ==
    \A p \in Party :
        /\ \A o \in Op : issued[o][p] # None => \E m \in 1..made[p] : issued[o][p] = <<p, m>>
        /\ made[p] > 0 => /\ slot[p] = <<p, made[p]>>
                          /\ \E q \in Op : issued[q][p] = slot[p]

\* no verdict without an answer
VerdictInv == \A o \in Op, p \in Party : verdict[o][p] # "none" => answer[o] # None

ResponseInv == Typed /\ AnswerInv /\ ChallengeInv /\ VerdictInv

LEMMA InitResponse == Init => ResponseInv
<1> SUFFICES ASSUME Init PROVE ResponseInv
  OBVIOUS
<1> USE U2FAssumption DEF Init
<1>1. Typed
  BY DEF Typed
<1>2. AnswerInv /\ VerdictInv
  BY DEF AnswerInv, VerdictInv
<1>3. ChallengeInv
  BY DEF ChallengeInv
<1>4. QED
  BY <1>1, <1>2, <1>3 DEF ResponseInv

\* A party that is asked for a challenge leaves every answer as it is: an
\* operation with an answer has all its challenges.
LEMMA GenResponse ==
    ASSUME ResponseInv, NEW o \in Op, NEW p \in Party, auth_u2f_gen_challenge(o, p)
    PROVE  ResponseInv'
<1> USE DEF auth_u2f_gen_challenge
<1>0. Typed /\ AnswerInv /\ ChallengeInv /\ VerdictInv
  BY DEF ResponseInv
<1> DEFINE c == <<p, made[p] + 1>>
<1>1. /\ made' = [made EXCEPT ![p] = made[p] + 1] /\ made'[p] = made[p] + 1
      /\ made[p] \in Nat
      /\ c \in Challenge
  BY <1>0 DEF Typed, Challenge
<1>2. /\ issued' = [issued EXCEPT ![o] = [issued[o] EXCEPT ![p] = c]]
      /\ slot' = [slot EXCEPT ![p] = c]
  BY <1>1
<1>3. c # None
  BY <1>1, U2FAssumption DEF Challenge, Party
<1>4. Typed'
  BY <1>0, <1>1, <1>2 DEF Typed
<1>5. /\ issued'[o][p] = c
      /\ \A q \in Op, r \in Party : q # o \/ r # p => issued'[q][r] = issued[q][r]
      /\ slot'[p] = c
      /\ \A r \in Party : r # p => slot'[r] = slot[r] /\ made'[r] = made[r]
  BY <1>0, <1>1, <1>2 DEF Typed
<1> HIDE DEF c
<1>6. AnswerInv'
  <2> SUFFICES ASSUME NEW q \in Op, answer'[q] # None
               PROVE  /\ \A r \in Party : issued'[q][r] # None
                      /\ answer'[q] = generate_response([i \in 1..N |-> issued'[q][i]])
    BY DEF AnswerInv, generate_response
  <2>1. /\ \A r \in Party : issued[q][r] # None
        /\ answer[q] = generate_response([i \in 1..N |-> issued[q][i]])
    BY <1>0 DEF AnswerInv
  <2>2. q # o
    BY <2>1
  <2>3. \A r \in Party : issued'[q][r] = issued[q][r]
    BY <1>5, <2>2
  <2>4. [i \in 1..N |-> issued'[q][i]] = [i \in 1..N |-> issued[q][i]]
    BY <2>3 DEF Party
  <2>5. QED
    BY <2>1, <2>3, <2>4
<1>7. ChallengeInv'
  <2> SUFFICES ASSUME NEW r \in Party
               PROVE  /\ \A q \in Op : issued'[q][r] # None =>
                             \E m \in 1..made'[r] : issued'[q][r] = <<r, m>>
                      /\ made'[r] > 0 => /\ slot'[r] = <<r, made'[r]>>
                                         /\ \E q \in Op : issued'[q][r] = slot'[r]
    BY DEF ChallengeInv
  <2>1. /\ \A q \in Op : issued[q][r] # None => \E m \in 1..made[r] : issued[q][r] = <<r, m>>
        /\ made[r] > 0 => slot[r] = <<r, made[r]>> /\ \E q \in Op : issued[q][r] = slot[r]
    BY <1>0 DEF ChallengeInv
  <2>2. CASE r = p
    <3>1. ASSUME NEW q \in Op, issued'[q][r] # None
          PROVE  \E m \in 1..made'[r] : issued'[q][r] = <<r, m>>
      <4>1. CASE q = o
        BY <1>1, <1>5, <2>2, <4>1 DEF c
      <4>2. CASE q # o
        <5>1. issued'[q][r] = issued[q][r]
          BY <1>5, <4>2
        <5>2. PICK m \in 1..made[r] : issued[q][r] = <<r, m>>
          BY <2>1, <3>1, <5>1
        <5>3. m \in 1..made'[r]
          BY <1>1, <2>2, <5>2
        <5>4. QED
          BY <5>1, <5>2, <5>3
      <4>3. QED
        BY <4>1, <4>2
    <3>2. slot'[r] = <<r, made'[r]>> /\ issued'[o][r] = slot'[r]
      BY <1>1, <1>5, <2>2 DEF c
    <3>3. QED
      BY <3>1, <3>2
  <2>3. CASE r # p
    <3>1. /\ made'[r] = made[r] /\ slot'[r] = slot[r]
          /\ \A q \in Op : issued'[q][r] = issued[q][r]
      BY <1>5, <2>3
    <3>2. QED
      BY <2>1, <3>1
  <2>4. QED
    BY <2>2, <2>3
<1>8. VerdictInv'
  BY <1>0 DEF VerdictInv
<1>9. QED
  BY <1>4, <1>6, <1>7, <1>8 DEF ResponseInv

\* The answer that is signed is about all challenges, in the order of the parties.
LEMMA SignResponse ==
    ASSUME ResponseInv, NEW o \in Op, NEW came \in SetToSeqs(Party), Sign(o, came)
    PROVE  ResponseInv'
<1> USE DEF Sign
<1>0. Typed /\ AnswerInv /\ ChallengeInv /\ VerdictInv
  BY DEF ResponseInv
<1>1. answer' = [answer EXCEPT ![o] = generate_response([i \in 1..N |-> issued[o][i]])]
  BY SortedByParty
<1>2. Typed'
  BY <1>0, <1>1 DEF Typed
<1>3. AnswerInv'
  <2> SUFFICES ASSUME NEW q \in Op, answer'[q] # None
               PROVE  /\ \A r \in Party : issued[q][r] # None
                      /\ answer'[q] = generate_response([i \in 1..N |-> issued[q][i]])
    BY DEF AnswerInv
  <2>1. CASE q = o
    BY <1>0, <1>1, <2>1 DEF Typed
  <2>2. CASE q # o
    <3>1. answer'[q] = answer[q]
      BY <1>0, <1>1, <2>2 DEF Typed
    <3>2. QED
      BY <1>0, <3>1 DEF AnswerInv
  <2>3. QED
    BY <2>1, <2>2
<1>4. ChallengeInv'
  BY <1>0 DEF ChallengeInv
<1>5. VerdictInv'
  <2>1. \A q \in Op, p \in Party : verdict[q][p] # "none" => q # o
    BY <1>0 DEF VerdictInv
  <2>2. \A q \in Op : q # o => answer'[q] = answer[q]
    BY <1>0, <1>1 DEF Typed
  <2>3. QED
    BY <1>0, <2>1, <2>2 DEF VerdictInv
<1>6. QED
  BY <1>2, <1>3, <1>4, <1>5 DEF ResponseInv

\* What is counted at some parties leaves the counters in their range.
LEMMA CountTyped ==
    ASSUME Typed, NEW ps \in SUBSET Party, NEW ok, Count(ps, ok)
    PROVE  counter' \in [Party -> 0..MAX_FAULTY_ATTEMPTS] /\ locked' \subseteq Party
<1>1. MAX_FAULTY_ATTEMPTS \in Nat /\ \A p \in Party : counter[p] \in 0..MAX_FAULTY_ATTEMPTS
  BY U2FAssumption DEF Typed
<1>2. \A p \in Party : /\ counter[p] \in 0..MAX_FAULTY_ATTEMPTS
                       /\ MAX_FAULTY_ATTEMPTS \in 0..MAX_FAULTY_ATTEMPTS
                       /\ counter[p] > 0 => counter[p] - 1 \in 0..MAX_FAULTY_ATTEMPTS
                       /\ 0 \in 0..MAX_FAULTY_ATTEMPTS
  BY <1>1
<1>3. QED
  BY <1>2 DEF Typed, Count

\* A verification writes a verdict and the limiter's state.
LEMMA VerifyResponse ==
    ASSUME ResponseInv, NEW o \in Op, NEW p \in Party, auth_u2f_verify_challenge(o, p)
    PROVE  ResponseInv'
<1> USE DEF auth_u2f_verify_challenge
<1>0. Typed /\ AnswerInv /\ ChallengeInv /\ VerdictInv
  BY DEF ResponseInv
<1>1. PICK v \in {"passed", "failed", "locked"} : verdict' = [verdict EXCEPT ![o][p] = v]
  OBVIOUS
<1>2. counter' \in [Party -> 0..MAX_FAULTY_ATTEMPTS] /\ locked' \subseteq Party
  <2>1. CASE p \in locked
    BY <1>0, <2>1 DEF Typed
  <2>2. CASE p \notin locked
    <3>1. Count({p}, verify_response(o, p))
      BY <2>2
    <3>2. QED
      BY <1>0, <3>1, CountTyped
  <2>3. QED
    BY <2>1, <2>2
<1>3. Typed'
  BY <1>0, <1>1, <1>2 DEF Typed
<1>4. AnswerInv' /\ ChallengeInv'
  BY <1>0 DEF AnswerInv, ChallengeInv, generate_response
<1>5. VerdictInv'
  BY <1>0, <1>1 DEF VerdictInv, Typed
<1>6. QED
  BY <1>3, <1>4, <1>5 DEF ResponseInv

\* A passcode writes its own outcome and the limiter's state.
LEMMA PasscodeResponse ==
    ASSUME ResponseInv, NEW c \in Passcode, NEW right \in BOOLEAN, auth_passcode(c, right)
    PROVE  ResponseInv'
<1>0. Typed /\ AnswerInv /\ ChallengeInv /\ VerdictInv
  BY DEF ResponseInv
<1>1. counter' \in [Party -> 0..MAX_FAULTY_ATTEMPTS] /\ locked' \subseteq Party
  <2>1. CASE locked # {}
    BY <1>0, <2>1 DEF Typed, auth_passcode
  <2>2. CASE locked = {}
    <3>1. Count(Party, right)
      BY <2>2 DEF auth_passcode
    <3>2. QED
      BY <1>0, <3>1, CountTyped
  <2>3. QED
    BY <2>1, <2>2
<1>2. Typed'
  BY <1>0, <1>1 DEF Typed, auth_passcode
<1>3. AnswerInv' /\ ChallengeInv' /\ VerdictInv'
  BY <1>0 DEF AnswerInv, ChallengeInv, VerdictInv, generate_response, auth_passcode
<1>4. QED
  BY <1>2, <1>3 DEF ResponseInv

LEMMA StepResponse == ResponseInv /\ [Next]_vars => ResponseInv'
<1> SUFFICES ASSUME ResponseInv, [Next]_vars PROVE ResponseInv'
  OBVIOUS
<1>1. CASE \E o \in Op, p \in Party : auth_u2f_gen_challenge(o, p)
  BY <1>1, GenResponse
<1>2. CASE \E o \in Op, p \in Party : auth_u2f_verify_challenge(o, p)
  BY <1>2, VerifyResponse
<1>3. CASE \E o \in Op, came \in SetToSeqs(Party) : Sign(o, came)
  BY <1>3, SignResponse
<1>4. CASE \E o \in Op : Fail(o)
  BY <1>4 DEF Fail, ResponseInv, Typed, AnswerInv, ChallengeInv, VerdictInv, generate_response
<1>5. CASE \E p \in Party : Expire(p)
  BY <1>5 DEF Expire, ResponseInv, Typed, AnswerInv, ChallengeInv, VerdictInv, generate_response
<1>6. CASE \E c \in Passcode, right \in BOOLEAN : auth_passcode(c, right)
  BY <1>6, PasscodeResponse
<1>7. CASE UNCHANGED vars
  BY <1>7 DEF vars, ResponseInv, Typed, AnswerInv, ChallengeInv, VerdictInv, generate_response
<1>8. QED
  BY <1>1, <1>2, <1>3, <1>4, <1>5, <1>6, <1>7 DEF Next

\* In every reachable state an answer is the response to the challenges of all
\* parties, and a party's slot is its last challenge.
THEOREM ResponseInvariant == Spec => []ResponseInv
<1>1. Init => ResponseInv
  BY InitResponse
<1>2. ResponseInv /\ [Next]_vars => ResponseInv'
  BY StepResponse
<1>3. QED
  BY <1>1, <1>2, PTL DEF Spec

\* A path validates a party's stored challenge just if the answer is about it.
LEMMA VerifyMeansFresh ==
    ASSUME ResponseInv, NEW o \in Op, NEW p \in Party, answer[o] # None
    PROVE  verify_response(o, p) <=> issued[o][p] = slot[p]
<1> DEFINE cs == [i \in 1..N |-> issued[o][i]]
<1>1. answer[o] = generate_response(cs)
  BY DEF ResponseInv, AnswerInv
<1>2. Row(cs, N) /\ N \in Nat \ {0} /\ p \in 1..N /\ cs[p] = issued[o][p]
  BY U2FAssumption DEF Row, Party
<1> HIDE DEF cs
<1>3. /\ answer[o].proofs[p] = get_proof(cs, p) /\ answer[o].root = build_tree(cs)
      /\ verify_signature(answer[o].root, answer[o].sig)
  BY <1>1, <1>2 DEF generate_response, verify_signature
<1>4. validate_proof(get_proof(cs, p), Leaf(slot[p]), build_tree(cs)) <=> slot[p] = cs[p]
  BY <1>2, PathFitsItsLeafOnly
<1>5. QED
  BY <1>2, <1>3, <1>4 DEF verify_response

\* auth_u2f_verify_challenge of an unlocked party accepts exactly the answers
\* about the challenge it made last, for any number of parties and operations.
THEOREM VerdictIsFreshnessHolds == Spec => VerdictIsFreshness
<1> DEFINE Fresh == \A o \in Op, p \in Party :
                verdict[o][p] = "none" /\ verdict'[o][p] \in {"passed", "failed"} =>
                    (verdict'[o][p] = "passed" <=> issued[o][p] = slot[p])
<1>1. ResponseInv /\ [Next]_vars => [Fresh]_vars
  <2> SUFFICES ASSUME ResponseInv, Next,
                      NEW o \in Op, NEW p \in Party,
                      verdict[o][p] = "none", verdict'[o][p] \in {"passed", "failed"}
               PROVE  verdict'[o][p] = "passed" <=> issued[o][p] = slot[p]
    OBVIOUS
  <2>1. verdict' # verdict
    OBVIOUS
  <2>2. PICK q \in Op, r \in Party : auth_u2f_verify_challenge(q, r)
    BY <2>1 DEF Next, auth_u2f_gen_challenge, Sign, Fail, Expire, auth_passcode
  <2>3. q = o /\ r = p
    BY <2>2 DEF auth_u2f_verify_challenge, ResponseInv, Typed
  <2>4. p \notin locked
    BY <2>2, <2>3 DEF auth_u2f_verify_challenge, ResponseInv, Typed
  <2>5. answer[o] # None /\ verdict'[o][p] = IF verify_response(o, p) THEN "passed" ELSE "failed"
    BY <2>2, <2>3, <2>4 DEF auth_u2f_verify_challenge, ResponseInv, Typed
  <2>6. QED
    BY <2>5, VerifyMeansFresh
<1>2. QED
  BY <1>1, ResponseInvariant, PTL DEF Spec, VerdictIsFreshness

-----------------------------------------------------------------------------
(* Lock-outs.                                                               *)

\* the passcodes that were wrong
Wrong == {c \in Passcode : passcode[c] = "failed"}

\* o was failed by p, and p had made a challenge after o's
Overtaken(p) ==
    {o \in Op : /\ verdict[o][p] = "failed"
                /\ \E q \in Op : issued[q][p] # None /\ issued[q][p][2] > issued[o][p][2]}

\* what p has to show for the attempts that are gone
Rejected(p) == Cardinality(Wrong) + Cardinality(Overtaken(p))

\* each attempt that is gone went to a wrong passcode or an overtaken operation
CountInv ==
    \A p \in Party :
        /\ MAX_FAULTY_ATTEMPTS <= counter[p] + Rejected(p)
        /\ p \in locked => counter[p] = 0

LockInv == ResponseInv /\ CountInv

\* The rejections are finitely many, now and after a step.
LEMMA RejectedFinite ==
    ASSUME NEW p \in Party
    PROVE  /\ IsFiniteSet(Wrong) /\ Cardinality(Wrong) \in Nat
           /\ IsFiniteSet(Overtaken(p)) /\ Cardinality(Overtaken(p)) \in Nat
           /\ IsFiniteSet(Wrong') /\ Cardinality(Wrong') \in Nat
           /\ IsFiniteSet(Overtaken(p)') /\ Cardinality(Overtaken(p)') \in Nat
<1>1. /\ Wrong \in SUBSET Passcode /\ Wrong' \in SUBSET Passcode
      /\ Overtaken(p) \in SUBSET Op /\ Overtaken(p)' \in SUBSET Op
  BY DEF Wrong, Overtaken
<1>2. /\ IsFiniteSet(Wrong) /\ IsFiniteSet(Wrong')
      /\ IsFiniteSet(Overtaken(p)) /\ IsFiniteSet(Overtaken(p)')
  BY <1>1, U2FAssumption, FS_Subset
<1>3. QED
  BY <1>2, FS_CardinalityType

\* A passcode that was wrong stays so.
LEMMA WrongStays == ResponseInv /\ [Next]_vars => Wrong \subseteq Wrong'
<1> SUFFICES ASSUME ResponseInv, [Next]_vars, NEW c \in Wrong PROVE c \in Wrong'
  OBVIOUS
<1>1. c \in Passcode /\ passcode[c] = "failed"
  BY DEF Wrong
<1>2. passcode'[c] = "failed"
  BY <1>1 DEF Next, vars, auth_u2f_gen_challenge, auth_u2f_verify_challenge, Sign, Fail, Expire,
              auth_passcode, ResponseInv, Typed
<1>3. QED
  BY <1>1, <1>2 DEF Wrong

\* Who was overtaken stays so: a challenge that was made is never changed.
LEMMA OvertakenStays ==
    ASSUME ResponseInv, [Next]_vars, NEW p \in Party
    PROVE  Overtaken(p) \subseteq Overtaken(p)'
<1> SUFFICES ASSUME NEW o \in Overtaken(p) PROVE o \in Overtaken(p)'
  OBVIOUS
<1>1. PICK q \in Op : issued[q][p] # None /\ issued[q][p][2] > issued[o][p][2]
  BY DEF Overtaken
<1>2. o \in Op /\ verdict[o][p] = "failed"
  BY DEF Overtaken
<1>3. issued[o][p] # None
  BY <1>2 DEF ResponseInv, VerdictInv, AnswerInv
<1>4. verdict'[o][p] = "failed"
  <2>1. CASE \E x \in Op, r \in Party : auth_u2f_verify_challenge(x, r)
    <3>1. PICK x \in Op, r \in Party : auth_u2f_verify_challenge(x, r)
      BY <2>1
    <3>2. verdict[x][r] = "none" /\ \E v : verdict' = [verdict EXCEPT ![x][r] = v]
      BY <3>1 DEF auth_u2f_verify_challenge
    <3>3. verdict \in [Op -> [Party -> {"none", "passed", "failed", "locked"}]]
      BY DEF ResponseInv, Typed
    <3>4. QED
      BY <1>2, <3>2, <3>3
  <2>2. CASE UNCHANGED verdict
    BY <1>2, <2>2
  <2>3. QED
    BY <2>1, <2>2 DEF Next, vars, auth_u2f_gen_challenge, Sign, Fail, Expire, auth_passcode
<1>5. issued'[q][p] = issued[q][p] /\ issued'[o][p] = issued[o][p]
  <2>1. CASE \E x \in Op, r \in Party : auth_u2f_gen_challenge(x, r)
    BY <1>1, <1>2, <1>3, <2>1 DEF auth_u2f_gen_challenge, ResponseInv, Typed
  <2>2. CASE UNCHANGED issued
    BY <2>2
  <2>3. QED
    BY <2>1, <2>2 DEF Next, vars, auth_u2f_verify_challenge, Sign, Fail, Expire, auth_passcode
<1>6. QED
  BY <1>1, <1>2, <1>4, <1>5 DEF Overtaken

\* An attempt that fails is about an older challenge than the last one.
LEMMA FailedIsOvertaken ==
    ASSUME ResponseInv, NEW o \in Op, NEW p \in Party,
           auth_u2f_verify_challenge(o, p), p \notin locked, ~verify_response(o, p)
    PROVE  o \in Overtaken(p)' /\ o \notin Overtaken(p)
<1> USE DEF auth_u2f_verify_challenge
<1>1. answer[o] # None /\ verdict[o][p] = "none" /\ verdict'[o][p] = "failed"
  BY DEF ResponseInv, Typed
<1>2. issued[o][p] # slot[p] /\ issued[o][p] # None
  BY <1>1, VerifyMeansFresh DEF ResponseInv, AnswerInv
<1>3. PICK m \in 1..made[p] : issued[o][p] = <<p, m>>
  BY <1>2 DEF ResponseInv, ChallengeInv
<1>4. made[p] \in Nat /\ made[p] > 0
  BY <1>3 DEF ResponseInv, Typed
<1>5. PICK q \in Op : issued[q][p] = slot[p] /\ slot[p] = <<p, made[p]>>
  BY <1>4 DEF ResponseInv, ChallengeInv
<1>6. m < made[p] /\ issued[q][p][2] = made[p] /\ issued[o][p][2] = m
  BY <1>2, <1>3, <1>4, <1>5
<1>7. issued[q][p] # None
  BY <1>4, <1>5, U2FAssumption DEF Party
<1>8. issued' = issued
  OBVIOUS
<1>9. o \in Overtaken(p)'
  BY <1>1, <1>3, <1>4, <1>6, <1>7, <1>8 DEF Overtaken
<1>10. o \notin Overtaken(p)
  BY <1>1 DEF Overtaken
<1>11. QED
  BY <1>9, <1>10

\* Rejections are never taken back.
LEMMA RejectedGrows ==
    ASSUME ResponseInv, [Next]_vars, NEW p \in Party
    PROVE  /\ Cardinality(Wrong) <= Cardinality(Wrong')
           /\ Cardinality(Overtaken(p)) <= Cardinality(Overtaken(p)')
<1>1. Wrong \subseteq Wrong' /\ Overtaken(p) \subseteq Overtaken(p)'
  BY WrongStays, OvertakenStays
<1>2. QED
  BY <1>1, RejectedFinite, FS_Subset

\* A set with a new element is larger.
LEMMA OneMore ==
    ASSUME NEW S, NEW T, IsFiniteSet(S), IsFiniteSet(T), S \subseteq T,
           NEW x, x \in T, x \notin S
    PROVE  Cardinality(S) + 1 <= Cardinality(T)
<1>1. IsFiniteSet(S \cup {x}) /\ Cardinality(S \cup {x}) = Cardinality(S) + 1
  BY FS_AddElement
<1>2. S \cup {x} \subseteq T
  OBVIOUS
<1>3. QED
  BY <1>1, <1>2, FS_Subset

\* Where the counter and the lock of a party stay, or the counter is refilled.
LEMMA CountKept ==
    ASSUME LockInv, [Next]_vars, NEW p \in Party,
           counter'[p] = counter[p] \/ counter'[p] = MAX_FAULTY_ATTEMPTS,
           p \in locked' => counter'[p] = 0
    PROVE  /\ MAX_FAULTY_ATTEMPTS <= counter'[p] + Rejected(p)'
           /\ p \in locked' => counter'[p] = 0
<1>1. /\ MAX_FAULTY_ATTEMPTS <= counter[p] + (Cardinality(Wrong) + Cardinality(Overtaken(p)))
      /\ counter[p] \in Nat /\ MAX_FAULTY_ATTEMPTS \in Nat
  BY U2FAssumption DEF LockInv, CountInv, Rejected, ResponseInv, Typed
<1>2. /\ Cardinality(Wrong) <= Cardinality(Wrong')
      /\ Cardinality(Overtaken(p)) <= Cardinality(Overtaken(p)')
  BY RejectedGrows DEF LockInv
<1>3. MAX_FAULTY_ATTEMPTS <= counter'[p] + (Cardinality(Wrong') + Cardinality(Overtaken(p)'))
  BY <1>1, <1>2, RejectedFinite
<1>4. QED
  BY <1>3 DEF Rejected

\* Where an attempt of a party is gone, and one more rejection is there.
LEMMA CountUsed ==
    ASSUME LockInv, [Next]_vars, NEW p \in Party,
           counter'[p] = IF counter[p] > 0 THEN counter[p] - 1 ELSE 0,
           p \in locked' => counter'[p] = 0,
           \/ Cardinality(Wrong) + 1 <= Cardinality(Wrong')
           \/ Cardinality(Overtaken(p)) + 1 <= Cardinality(Overtaken(p)')
    PROVE  /\ MAX_FAULTY_ATTEMPTS <= counter'[p] + Rejected(p)'
           /\ p \in locked' => counter'[p] = 0
<1>1. /\ MAX_FAULTY_ATTEMPTS <= counter[p] + (Cardinality(Wrong) + Cardinality(Overtaken(p)))
      /\ counter[p] \in Nat /\ MAX_FAULTY_ATTEMPTS \in Nat
  BY U2FAssumption DEF LockInv, CountInv, Rejected, ResponseInv, Typed
<1>2. /\ Cardinality(Wrong) <= Cardinality(Wrong')
      /\ Cardinality(Overtaken(p)) <= Cardinality(Overtaken(p)')
  BY RejectedGrows DEF LockInv
<1>3. MAX_FAULTY_ATTEMPTS <= counter'[p] + (Cardinality(Wrong') + Cardinality(Overtaken(p)'))
  BY <1>1, <1>2, RejectedFinite
<1>4. QED
  BY <1>3 DEF Rejected

\* What Count does at a party.
LEMMA CountAt ==
    ASSUME Typed, NEW ps \in SUBSET Party, NEW ok \in BOOLEAN, Count(ps, ok), NEW p \in Party
    PROVE  /\ p \notin ps => counter'[p] = counter[p] /\ (p \in locked' <=> p \in locked)
           /\ p \in ps /\ ok => counter'[p] = MAX_FAULTY_ATTEMPTS
           /\ p \in ps /\ ~ok => counter'[p] = IF counter[p] > 0 THEN counter[p] - 1 ELSE 0
           /\ p \in ps => (p \in locked' => counter'[p] = 0)
BY DEF Count, Typed

\* A verification takes an attempt from p only for an overtaken operation.
LEMMA VerifyCounts ==
    ASSUME LockInv, NEW o \in Op, NEW p \in Party, auth_u2f_verify_challenge(o, p)
    PROVE  CountInv'
<1>0. ResponseInv /\ CountInv /\ Typed /\ [Next]_vars
  BY DEF LockInv, ResponseInv, Next
<1> SUFFICES ASSUME NEW r \in Party
             PROVE  /\ MAX_FAULTY_ATTEMPTS <= counter'[r] + Rejected(r)'
                    /\ r \in locked' => counter'[r] = 0
  BY DEF CountInv
<1>1. CASE p \in locked
  <2>1. counter' = counter /\ locked' = locked
    BY <1>1 DEF auth_u2f_verify_challenge
  <2>2. QED
    BY <1>0, <2>1, CountKept DEF CountInv
<1>2. CASE p \notin locked
  <2> DEFINE ok == verify_response(o, p)
  <2>1. Count({p}, ok) /\ ok \in BOOLEAN
    BY <1>2 DEF auth_u2f_verify_challenge, verify_response, verify_signature, validate_proof
  <2> HIDE DEF ok
  <2>2. /\ r # p => counter'[r] = counter[r] /\ (r \in locked' <=> r \in locked)
        /\ r = p /\ ok => counter'[r] = MAX_FAULTY_ATTEMPTS
        /\ r = p /\ ~ok => counter'[r] = IF counter[r] > 0 THEN counter[r] - 1 ELSE 0
        /\ r = p => (r \in locked' => counter'[r] = 0)
    BY <1>0, <2>1, CountAt
  <2>3. CASE r # p
    BY <1>0, <2>2, <2>3, CountKept DEF CountInv
  <2>4. CASE r = p /\ ok
    BY <1>0, <2>2, <2>4, CountKept
  <2>5. CASE r = p /\ ~ok
    <3>1. o \in Overtaken(p)' /\ o \notin Overtaken(p)
      BY <1>0, <1>2, <2>5, FailedIsOvertaken DEF ok
    <3>2. Overtaken(p) \subseteq Overtaken(p)'
      BY <1>0, OvertakenStays
    <3>3. Cardinality(Overtaken(p)) + 1 <= Cardinality(Overtaken(p)')
      BY <3>1, <3>2, RejectedFinite, OneMore
    <3>4. QED
      BY <1>0, <2>2, <2>5, <3>3, CountUsed
  <2>6. QED
    BY <2>1, <2>3, <2>4, <2>5
<1>3. QED
  BY <1>1, <1>2

\* A passcode takes an attempt from the parties only if it is wrong.
LEMMA PasscodeCounts ==
    ASSUME LockInv, NEW c \in Passcode, NEW right \in BOOLEAN, auth_passcode(c, right)
    PROVE  CountInv'
<1>0. ResponseInv /\ CountInv /\ Typed /\ [Next]_vars
  BY DEF LockInv, ResponseInv, Next
<1> SUFFICES ASSUME NEW r \in Party
             PROVE  /\ MAX_FAULTY_ATTEMPTS <= counter'[r] + Rejected(r)'
                    /\ r \in locked' => counter'[r] = 0
  BY DEF CountInv
<1>1. CASE locked # {}
  <2>1. counter' = counter /\ locked' = locked
    BY <1>1 DEF auth_passcode
  <2>2. QED
    BY <1>0, <2>1, CountKept DEF CountInv
<1>2. CASE locked = {}
  <2>1. Count(Party, right)
    BY <1>2 DEF auth_passcode
  <2>2. /\ right => counter'[r] = MAX_FAULTY_ATTEMPTS
        /\ ~right => counter'[r] = IF counter[r] > 0 THEN counter[r] - 1 ELSE 0
        /\ r \in locked' => counter'[r] = 0
    BY <1>0, <2>1, CountAt
  <2>3. CASE right
    BY <1>0, <2>2, <2>3, CountKept
  <2>4. CASE ~right
    <3>1. passcode[c] = "none" /\ passcode'[c] = "failed"
      BY <1>0, <1>2, <2>4 DEF auth_passcode, Typed
    <3>2. c \in Wrong' /\ c \notin Wrong
      BY <3>1 DEF Wrong
    <3>3. Cardinality(Wrong) + 1 <= Cardinality(Wrong')
      BY <1>0, <3>2, WrongStays, RejectedFinite, OneMore
    <3>4. QED
      BY <1>0, <2>2, <2>4, <3>3, CountUsed
  <2>5. QED
    BY <2>3, <2>4
<1>3. QED
  BY <1>1, <1>2

LEMMA InitLock == Init => LockInv
<1> SUFFICES ASSUME Init PROVE LockInv
  OBVIOUS
<1>1. ResponseInv
  BY InitResponse
<1>2. CountInv
  <2> SUFFICES ASSUME NEW p \in Party
               PROVE  /\ MAX_FAULTY_ATTEMPTS <= counter[p] + (Cardinality(Wrong) + Cardinality(Overtaken(p)))
                      /\ p \notin locked
    BY DEF CountInv, Rejected
  <2>1. counter[p] = MAX_FAULTY_ATTEMPTS /\ locked = {} /\ MAX_FAULTY_ATTEMPTS \in Nat
    BY U2FAssumption DEF Init
  <2>2. QED
    BY <2>1, RejectedFinite
<1>3. QED
  BY <1>1, <1>2 DEF LockInv

LEMMA StepLock == LockInv /\ [Next]_vars => LockInv'
<1> SUFFICES ASSUME LockInv, [Next]_vars PROVE LockInv'
  OBVIOUS
<1>1. ResponseInv'
  BY StepResponse DEF LockInv
<1>2. CASE \E o \in Op, p \in Party : auth_u2f_verify_challenge(o, p)
  BY <1>1, <1>2, VerifyCounts DEF LockInv
<1>3. CASE \E c \in Passcode, right \in BOOLEAN : auth_passcode(c, right)
  BY <1>1, <1>3, PasscodeCounts DEF LockInv
<1>4. CASE counter' = counter /\ locked' \subseteq locked
  <2> SUFFICES ASSUME NEW p \in Party
               PROVE  /\ MAX_FAULTY_ATTEMPTS <= counter'[p] + Rejected(p)'
                      /\ p \in locked' => counter'[p] = 0
    BY <1>1 DEF LockInv, CountInv
  <2>1. counter'[p] = counter[p] /\ (p \in locked' => counter'[p] = 0)
    BY <1>4 DEF LockInv, CountInv
  <2>2. QED
    BY <2>1, CountKept
<1>5. QED
  BY <1>2, <1>3, <1>4 DEF Next, vars, auth_u2f_gen_challenge, Sign, Fail, Expire

\* A party locks the user out only after as many rejections as the limit
\* allows, each of a wrong passcode, which handler_body counts under the same
\* key, or of a U2F operation that a later challenge of this party overtook.
THEOREM LockedOnlyByFailuresHolds == Spec => []LockedOnlyByFailures
<1>1. LockInv => LockedOnlyByFailures
  <2> SUFFICES ASSUME LockInv, NEW p \in locked
               PROVE  MAX_FAULTY_ATTEMPTS <= Cardinality(Wrong) + Cardinality(Overtaken(p))
    BY DEF LockedOnlyByFailures, Overtaken, Wrong
  <2>1. p \in Party
    BY DEF LockInv, ResponseInv, Typed
  <2>2. counter[p] = 0 /\ MAX_FAULTY_ATTEMPTS <= counter[p] + (Cardinality(Wrong) + Cardinality(Overtaken(p)))
    BY <2>1 DEF LockInv, CountInv, Rejected
  <2>3. QED
    BY <2>1, <2>2, RejectedFinite
<1>2. QED
  BY <1>1, InitLock, StepLock, PTL DEF Spec
=============================================================================
