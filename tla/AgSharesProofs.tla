--------------------------- MODULE AgSharesProofs ---------------------------
(***************************************************************************)
(* Proofs about AgShares, for every number of parties, circuit, choice of  *)
(* keys, labels, shares and assignment, and for arbitrary hashes.          *)
(*                                                                         *)
(* The argument goes upwards: parity of finite sets; authenticated bits    *)
(* and what adding, correcting and opening them does; a leaky triple, its  *)
(* check and the combination of a bucket; the garbled row of an AND gate;  *)
(* the wires of the circuit, by induction; and last the phases, each of    *)
(* which preserves SharesInv.  Inductions (over parties, triples of a      *)
(* bucket and wires) are by least counterexample.                          *)
(***************************************************************************)
EXTENDS AgShares, FiniteSetTheorems, TLAPS

-----------------------------------------------------------------------------
(* Parity.                                                                  *)

\* A non-empty set of natural numbers has a least element.
LEMMA NatMin ==
    ASSUME NEW T \in SUBSET Nat, T # {}
    PROVE  \E x \in T : \A y \in T : x <= y
<1>1. IsWellFoundedOn(OpToRel(<, Nat), Nat)
  BY NatLessThanWellFounded
<1>2. PICK x \in T : \A y \in T : ~(<<y, x>> \in OpToRel(<, Nat))
  BY <1>1, WFMin
<1>3. \A y \in T : ~(y < x)
  BY <1>2 DEF OpToRel
<1>4. QED
  BY <1>3

\* The parity of a symmetric difference is the sum of the parities.
LEMMA OddXor ==
    ASSUME NEW S, NEW T, IsFiniteSet(S), IsFiniteSet(T)
    PROVE  /\ IsFiniteSet(S (+) T)
           /\ Odd(S (+) T) <=> ~(Odd(S) <=> Odd(T))
<1> DEFINE a == Cardinality(S \ T)
           b == Cardinality(T \ S)
           c == Cardinality(S \cap T)
<1>1. IsFiniteSet(S \ T) /\ IsFiniteSet(T \ S) /\ IsFiniteSet(S \cap T)
  BY FS_Difference, FS_Intersection
<1>2. a \in Nat /\ b \in Nat /\ c \in Nat
  BY <1>1, FS_CardinalityType
<1>3. Cardinality(S) = a + c /\ Cardinality(T) = b + c
  <2>1. Cardinality(S) \in Nat /\ Cardinality(T) \in Nat
    BY FS_CardinalityType
  <2>2. T \cap S = S \cap T
    OBVIOUS
  <2>3. a = Cardinality(S) - c /\ b = Cardinality(T) - c
    BY <2>2, FS_Difference
  <2>4. QED
    BY <1>2, <2>1, <2>3
<1>4. IsFiniteSet(S (+) T) /\ Cardinality(S (+) T) = a + b
  <2>1. (S \ T) \cap (T \ S) = {}
    OBVIOUS
  <2>2. IsFiniteSet((S \ T) \cup (T \ S)) /\ Cardinality((S \ T) \cup (T \ S)) = a + b - 0
    BY <1>1, <2>1, FS_Union, FS_EmptySet
  <2>3. QED
    BY <1>2, <2>2 DEF (+)
<1> HIDE DEF a, b, c
<1>5. (a + b) % 2 = 1 <=> ~((a + c) % 2 = 1 <=> (b + c) % 2 = 1)
  BY <1>2
<1>6. QED
  BY <1>3, <1>4, <1>5 DEF Odd

\* Nothing is even, one thing is odd.
LEMMA OddSmall ==
    /\ ~Odd({})
    /\ \A x : Odd({x})
<1>1. ~Odd({})
  BY FS_EmptySet DEF Odd
<1>2. ASSUME NEW x PROVE Odd({x})
  <2>1. Cardinality({x}) = 1
    BY FS_Singleton
  <2>2. QED
    BY <2>1 DEF Odd
<1>3. QED
  BY <1>1, <1>2

\* A set of numbers up to m + 1 is one of numbers up to m, and perhaps m + 1.
LEMMA OddNext ==
    ASSUME NEW m \in Nat, NEW S \in SUBSET (1..(m + 1))
    PROVE  Odd(S) <=> ~(Odd(S \cap (1..m)) <=> m + 1 \in S)
<1> DEFINE T == S \cap (1..m)
<1>1. IsFiniteSet(T) /\ IsFiniteSet({m + 1})
  <2>1. IsFiniteSet(1..m)
    BY FS_Interval
  <2>2. T \in SUBSET (1..m)
    OBVIOUS
  <2>3. QED
    BY <2>1, <2>2, FS_Subset, FS_Singleton
<1>2. (\A x \in S : x = m + 1 \/ x \in 1..m) /\ m + 1 \notin 1..m
  OBVIOUS
<1>3. CASE m + 1 \in S
  <2>1. S = T (+) {m + 1}
    BY <1>2, <1>3, Zenon DEF (+)
  <2> HIDE DEF T
  <2>2. Odd(T (+) {m + 1}) <=> ~(Odd(T) <=> Odd({m + 1}))
    BY <1>1, OddXor
  <2>3. Odd({m + 1})
    BY OddSmall, Zenon
  <2>4. QED
    BY <1>3, <2>1, <2>2, <2>3 DEF T
<1>4. CASE m + 1 \notin S
  <2>1. S = T
    BY <1>2, <1>4
  <2>2. QED
    BY <1>4, <2>1
<1>5. QED
  BY <1>3, <1>4

\* Members of S hold terms C of a sum, one per other member; Paired: the two
\* terms of a pair add up to u_p v_q + u_q v_p; Terms: what p holds is odd
\* when u_p v_p is added to it.
Paired(S, U, V, C) ==
    \A p, q \in S : p # q =>
        (~(<<p, q>> \in C <=> <<q, p>> \in C) <=> ~((p \in U /\ q \in V) <=> (q \in U /\ p \in V)))
Terms(S, U, V, C) ==
    {p \in S : ~((p \in U /\ p \in V) <=> Odd({q \in S \ {p} : <<p, q>> \in C}))}

\* All terms together are (the sum of all u) * (the sum of all v).
LEMMA DoubleSum ==
    ASSUME NEW n \in Nat, NEW U, NEW V, NEW C, Paired(1..n, U, V, C)
    PROVE  Odd(Terms(1..n, U, V, C)) <=> Odd({p \in 1..n : p \in U}) /\ Odd({p \in 1..n : p \in V})
<1>0. \A p, q \in 1..n : p # q =>
          (~(<<p, q>> \in C <=> <<q, p>> \in C) <=> ~((p \in U /\ q \in V) <=> (q \in U /\ p \in V)))
  BY DEF Paired
<1> DEFINE Line(m, p) == {q \in (1..m) \ {p} : <<p, q>> \in C}
           D(m) == {p \in 1..m : ~((p \in U /\ p \in V) <=> Odd(Line(m, p)))}
           Us(m) == {p \in 1..m : p \in U}
           Vs(m) == {p \in 1..m : p \in V}
           Good(m) == Odd(D(m)) <=> Odd(Us(m)) /\ Odd(Vs(m))
           Bad == {m \in 0..n : ~Good(m)}
<1>1. Good(0)
  <2>1. D(0) = {} /\ Us(0) = {} /\ Vs(0) = {}
    OBVIOUS
  <2> HIDE DEF D, Us, Vs
  <2>2. QED
    BY <2>1, OddSmall
<1>2. ASSUME NEW m \in 0..(n - 1), Good(m) PROVE Good(m + 1)
  <2> DEFINE u == m + 1 \in U
             v == m + 1 \in V
             C1 == {p \in 1..m : <<p, m + 1>> \in C}
             C2 == {q \in 1..m : <<m + 1, q>> \in C}
  <2>0. m \in Nat /\ m + 1 \in 1..n /\ \A p \in 1..m : p \in 1..n /\ p # m + 1
    OBVIOUS
  <2>1. IsFiniteSet(D(m)) /\ IsFiniteSet(C1) /\ IsFiniteSet(C2) /\ IsFiniteSet(Us(m)) /\ IsFiniteSet(Vs(m))
    <3>1. IsFiniteSet(1..m)
      BY <2>0, FS_Interval
    <3>2. D(m) \in SUBSET (1..m) /\ C1 \in SUBSET (1..m) /\ C2 \in SUBSET (1..m)
          /\ Us(m) \in SUBSET (1..m) /\ Vs(m) \in SUBSET (1..m)
      OBVIOUS
    <3> HIDE DEF D, C1, C2, Us, Vs
    <3>3. QED
      BY <3>1, <3>2, FS_Subset
  <2>2. ASSUME NEW p \in 1..m
        PROVE  Odd(Line(m + 1, p)) <=> ~(Odd(Line(m, p)) <=> p \in C1)
    <3>1. Line(m + 1, p) \in SUBSET (1..(m + 1)) /\ Line(m + 1, p) \cap (1..m) = Line(m, p)
      BY <2>0
    <3>2. m + 1 \in Line(m + 1, p) <=> p \in C1
      BY <2>0
    <3> HIDE DEF Line
    <3>3. QED
      BY <2>0, <3>1, <3>2, OddNext
  <2>3. D(m + 1) \cap (1..m) = D(m) (+) C1
    <3>1. ASSUME NEW p
          PROVE  p \in D(m + 1) \cap (1..m) <=> p \in D(m) (+) C1
      <4>1. CASE p \notin 1..m
        BY <4>1 DEF (+)
      <4>2. CASE p \in 1..m
        <5>1. p \in 1..(m + 1)
          BY <2>0, <4>2
        <5>2. Odd(Line(m + 1, p)) <=> ~(Odd(Line(m, p)) <=> p \in C1)
          BY <2>2, <4>2
        <5> HIDE DEF Line, C1
        <5>3. QED
          BY <4>2, <5>1, <5>2 DEF (+)
      <4>3. QED
        BY <4>1, <4>2
    <3> HIDE DEF D, C1
    <3>2. QED
      BY <3>1
  <2>4. m + 1 \in D(m + 1) <=> ~(u /\ v <=> Odd(C2))
    <3>1. Line(m + 1, m + 1) = C2
      BY <2>0
    <3> HIDE DEF Line, C2
    <3>2. QED
      BY <2>0, <3>1
  <2>5. Odd(D(m + 1)) <=> ~(~(Odd(D(m)) <=> Odd(C1)) <=> ~(u /\ v <=> Odd(C2)))
    <3>1. D(m + 1) \in SUBSET (1..(m + 1))
      OBVIOUS
    <3> HIDE DEF D, C1, C2, u, v
    <3>2. Odd(D(m + 1)) <=> ~(Odd(D(m) (+) C1) <=> m + 1 \in D(m + 1))
      BY <2>0, <2>3, <3>1, OddNext
    <3>3. QED
      BY <2>1, <2>4, <3>2, OddXor
  <2>6. ~(Odd(C1) <=> Odd(C2)) <=> ~(v /\ Odd(Us(m)) <=> u /\ Odd(Vs(m)))
    <3> DEFINE vU == {p \in Us(m) : v}
               uV == {p \in Vs(m) : u}
    <3>1. C1 (+) C2 = vU (+) uV
      <4>1. ASSUME NEW p \in 1..m
            PROVE  ~(p \in C1 <=> p \in C2) <=> ~(p \in vU <=> p \in uV)
        BY <1>0, <2>0
      <4>2. C1 \subseteq 1..m /\ C2 \subseteq 1..m /\ vU \subseteq 1..m /\ uV \subseteq 1..m
        OBVIOUS
      <4> HIDE DEF C1, C2, vU, uV
      <4>3. QED
        BY <4>1, <4>2 DEF (+)
    <3>2. (vU = IF v THEN Us(m) ELSE {}) /\ (uV = IF u THEN Vs(m) ELSE {})
      OBVIOUS
    <3> HIDE DEF C1, C2, vU, uV, u, v, Us, Vs
    <3>3. IsFiniteSet(vU) /\ IsFiniteSet(uV)
      BY <2>1, <3>2, FS_EmptySet
    <3>4. (Odd(vU) <=> v /\ Odd(Us(m))) /\ (Odd(uV) <=> u /\ Odd(Vs(m)))
      BY <3>2, OddSmall
    <3>5. QED
      BY <2>1, <3>1, <3>3, <3>4, OddXor
  <2>7. (Odd(Us(m + 1)) <=> ~(Odd(Us(m)) <=> u)) /\ (Odd(Vs(m + 1)) <=> ~(Odd(Vs(m)) <=> v))
    <3>1. Us(m + 1) \in SUBSET (1..(m + 1)) /\ Us(m + 1) \cap (1..m) = Us(m) /\ (m + 1 \in Us(m + 1) <=> u)
      BY <2>0
    <3>2. Vs(m + 1) \in SUBSET (1..(m + 1)) /\ Vs(m + 1) \cap (1..m) = Vs(m) /\ (m + 1 \in Vs(m + 1) <=> v)
      BY <2>0
    <3> HIDE DEF Us, Vs, u, v
    <3>3. QED
      BY <2>0, <3>1, <3>2, OddNext
  <2> HIDE DEF D, C1, C2, Us, Vs, u, v
  <2>8. QED
    BY <1>2, <2>5, <2>6, <2>7
<1>3. Bad = {}
  <2>1. SUFFICES ASSUME Bad # {} PROVE FALSE
    OBVIOUS
  <2>2. PICK m \in Bad : \A y \in Bad : m <= y
    <3>1. Bad \in SUBSET Nat
      OBVIOUS
    <3> HIDE DEF Bad
    <3>2. QED
      BY <2>1, <3>1, NatMin
  <2>3. m \in 0..n /\ ~Good(m)
    BY <2>2
  <2> HIDE DEF Good
  <2>4. m - 1 \in 0..(n - 1) /\ m - 1 \in 0..n /\ ~(m <= m - 1) /\ (m - 1) + 1 = m
    BY <1>1, <2>3
  <2>5. Good(m - 1)
    BY <2>2, <2>4
  <2>6. QED
    BY <1>2, <2>3, <2>4, <2>5
<1>4. Good(n)
  <2> HIDE DEF Good
  <2>1. QED
    BY <1>3
<1>5. QED
  BY <1>4 DEF Terms

-----------------------------------------------------------------------------
(* Authenticated bits.                                                      *)

Shares == [Party -> BOOLEAN]
AShare == [r : Shares, key : [Party -> [Party -> Block]], mac : [Party -> [Party -> Block]]]

\* an authenticated bit whose MACs verify
Sound(x) == x \in AShare /\ Valid(x)

\* the global keys: a non-empty block each
Keys == delta \in [Party -> Block \ {{}}]

LEMMA PartyFinite == IsFiniteSet(Party) /\ N \in Nat /\ 1 \in Party /\ \A r : IsFiniteSet({p \in Party : r[p]})
<1>1. N \in Nat \ {0, 1}
  BY SharesAssumption
<1>2. IsFiniteSet(Party)
  BY <1>1, FS_Interval DEF Party
<1>3. ASSUME NEW r PROVE IsFiniteSet({p \in Party : r[p]})
  <2>1. {p \in Party : r[p]} \in SUBSET Party
    OBVIOUS
  <2> HIDE DEF Party
  <2>2. QED
    BY <1>2, <2>1, FS_Subset
<1>4. QED
  BY <1>1, <1>2, <1>3 DEF Party

\* DoubleSum for all parties.
LEMMA PartySum ==
    ASSUME NEW U \in SUBSET Party, NEW V \in SUBSET Party, NEW C, Paired(Party, U, V, C)
    PROVE  Odd(Terms(Party, U, V, C)) <=> Odd(U) /\ Odd(V)
<1>1. N \in Nat
  BY PartyFinite
<1>2. Odd(Terms(Party, U, V, C)) <=> Odd({p \in Party : p \in U}) /\ Odd({p \in Party : p \in V})
  BY <1>1, DoubleSum DEF Party
<1>3. {p \in Party : p \in U} = U /\ {p \in Party : p \in V} = V
  OBVIOUS
<1>4. QED
  BY <1>2, <1>3

\* Shares that differ by e open to a bit that differs by what e opens to.
LEMMA OpenFlipped ==
    ASSUME NEW r \in Shares, NEW e \in Shares
    PROVE  /\ [p \in Party |-> r[p] # e[p]] \in Shares
           /\ Open([p \in Party |-> r[p] # e[p]]) <=> ~(Open(r) <=> Open(e))
<1> DEFINE f == [p \in Party |-> r[p] # e[p]]
<1>1. {p \in Party : f[p]} = {p \in Party : r[p]} (+) {p \in Party : e[p]}
  BY DEF Shares, (+)
<1>2. f \in Shares
  BY DEF Shares
<1>3. Odd({p \in Party : r[p]} (+) {p \in Party : e[p]}) <=> ~(Open(r) <=> Open(e))
  BY OddXor, PartyFinite DEF Open
<1>4. Open(f) <=> ~(Open(r) <=> Open(e))
  BY <1>1, <1>3 DEF Open
<1>5. QED
  BY <1>2, <1>4

\* Exclusive or of blocks.
LEMMA XorBlocks ==
    ASSUME NEW a, NEW b, NEW c
    PROVE  /\ a (+) b = b (+) a
           /\ (a (+) b) (+) c = a (+) (b (+) c)
           /\ a (+) a = {}
           /\ a (+) {} = a
           /\ {} (+) a = a
           /\ b (+) ((a (+) b) (+) c) = a (+) c
           /\ a (+) (a (+) b) = b
BY DEF (+)

LEMMA XorNothing == ASSUME NEW a PROVE a (+) {} = a
BY DEF (+)

LEMMA BlockXor ==
    ASSUME NEW a \in Block, NEW b \in Block, NEW c \in BOOLEAN
    PROVE  a (+) b \in Block /\ When(c, a) \in Block
BY DEF Block, (+), When

\* A MAC under the key k of the bit b becomes one of b # c when the key is
\* corrected by c, and two MACs add up to a MAC of the sum.
LEMMA MacAlgebra ==
    ASSUME NEW b \in BOOLEAN, NEW c \in BOOLEAN, NEW d, NEW k, NEW l
    PROVE  /\ (k (+) When(c, d)) (+) When(b # c, d) = k (+) When(b, d)
           /\ (k (+) When(b, d)) (+) (l (+) When(c, d)) = (k (+) l) (+) When(b # c, d)
<1>1. CASE b = TRUE /\ c = TRUE
  BY <1>1 DEF When, (+)
<1>2. CASE b = TRUE /\ c = FALSE
  BY <1>2 DEF When, (+)
<1>3. CASE b = FALSE /\ c = TRUE
  BY <1>3 DEF When, (+)
<1>4. CASE b = FALSE /\ c = FALSE
  BY <1>4 DEF When, (+)
<1>5. QED
  BY <1>1, <1>2, <1>3, <1>4

\* What a correlated OT delivers verifies.
LEMMA AbitSound ==
    ASSUME Keys, NEW i \in KeyIndex, NEW r \in Shares
    PROVE  Sound(Abit(i, r)) /\ Abit(i, r).r = r
<1>1. \A p \in Party, q \in Party : Key(i, p, q) \in Block
  BY SharesAssumption
<1> DEFINE key == [p \in Party |-> [q \in Party |-> Key(i, p, q)]]
           mac == [p \in Party |-> [q \in Party |-> key[q][p] (+) When(r[p], delta[q])]]
<1>2. Abit(i, r) = [r |-> r, key |-> key, mac |-> mac]
  BY DEF Abit, Authenticated
<1>3. key \in [Party -> [Party -> Block]]
  BY <1>1
<1>4. \A p, q \in Party : r[p] \in BOOLEAN /\ delta[q] \in Block
  BY DEF Shares, Keys
<1> HIDE DEF key
<1>5. mac \in [Party -> [Party -> Block]]
  BY <1>3, <1>4, BlockXor
<1>6. \A p, q \in Party : mac[p][q] = key[q][p] (+) When(r[p], delta[q])
  OBVIOUS
<1> HIDE DEF mac
<1>7. QED
  BY <1>2, <1>3, <1>5, <1>6 DEF Sound, AShare, Valid, OpenedTo, Others

\* The sum of two authenticated bits is one.
LEMMA XorSound ==
    ASSUME Keys, NEW x, NEW y, Sound(x), Sound(y)
    PROVE  /\ Sound(Xor(x, y))
           /\ Open(Xor(x, y).r) <=> ~(Open(x.r) <=> Open(y.r))
<1> DEFINE r == [p \in Party |-> x.r[p] # y.r[p]]
           key == [p \in Party |-> [q \in Party |-> x.key[p][q] (+) y.key[p][q]]]
           mac == [p \in Party |-> [q \in Party |-> x.mac[p][q] (+) y.mac[p][q]]]
<1>1. Xor(x, y) = [r |-> r, key |-> key, mac |-> mac]
  BY DEF Xor
<1>2. x.r \in Shares /\ y.r \in Shares
      /\ \A p, q \in Party : x.key[p][q] \in Block /\ y.key[p][q] \in Block
                             /\ x.mac[p][q] \in Block /\ y.mac[p][q] \in Block
  BY DEF Sound, AShare
<1>3. r \in Shares /\ (Open(r) <=> ~(Open(x.r) <=> Open(y.r)))
  BY <1>2, OpenFlipped
<1>4. key \in [Party -> [Party -> Block]] /\ mac \in [Party -> [Party -> Block]]
  BY <1>2, BlockXor
<1>5. ASSUME NEW q \in Party, NEW p \in Party, p # q
      PROVE  mac[p][q] = key[q][p] (+) When(r[p], delta[q])
  <2>1. x.mac[p][q] = x.key[q][p] (+) When(x.r[p], delta[q])
    BY <1>5 DEF Sound, Valid, OpenedTo, Others
  <2>2. y.mac[p][q] = y.key[q][p] (+) When(y.r[p], delta[q])
    BY <1>5 DEF Sound, Valid, OpenedTo, Others
  <2>3. x.r[p] \in BOOLEAN /\ y.r[p] \in BOOLEAN
    BY <1>2 DEF Shares
  <2>4. QED
    BY <2>1, <2>2, <2>3, MacAlgebra
<1> HIDE DEF r, key, mac
<1>6. QED
  BY <1>1, <1>3, <1>4, <1>5 DEF Sound, AShare, Valid, OpenedTo, Others

\* Adding an authenticated bit under a condition.
LEMMA XorIfSound ==
    ASSUME Keys, NEW b \in BOOLEAN, NEW x, NEW y, Sound(x), Sound(y)
    PROVE  /\ Sound(XorIf(b, x, y))
           /\ Open(XorIf(b, x, y).r) <=> ~(Open(x.r) <=> (b /\ Open(y.r)))
<1>1. CASE b
  <2>1. XorIf(b, x, y) = Xor(x, y)
    BY <1>1 DEF XorIf
  <2>2. Sound(Xor(x, y)) /\ (Open(Xor(x, y).r) <=> ~(Open(x.r) <=> Open(y.r)))
    BY XorSound
  <2>3. QED
    BY <1>1, <2>1, <2>2
<1>2. CASE ~b
  <2>1. XorIf(b, x, y) = x
    BY <1>2 DEF XorIf
  <2>2. QED
    BY <1>2, <2>1
<1>3. QED
  BY <1>1, <1>2

\* Flipping shares with the others' keys corrected keeps the MACs.
LEMMA CorrectSound ==
    ASSUME Keys, NEW x, Sound(x), NEW e \in Shares
    PROVE  /\ Sound(Correct(x, e))
           /\ Correct(x, e).r = [p \in Party |-> x.r[p] # e[p]]
           /\ Open(Correct(x, e).r) <=> ~(Open(x.r) <=> Open(e))
<1> DEFINE r == [p \in Party |-> x.r[p] # e[p]]
           key == [p \in Party |-> [q \in Party |-> x.key[p][q] (+) When(q # p /\ e[q], delta[p])]]
<1>1. Correct(x, e) = [r |-> r, key |-> key, mac |-> x.mac]
  BY DEF Correct
<1>2. x.r \in Shares /\ x.mac \in [Party -> [Party -> Block]]
      /\ \A p, q \in Party : x.key[p][q] \in Block /\ delta[p] \in Block
  BY DEF Sound, AShare, Keys
<1>3. r \in Shares /\ (Open(r) <=> ~(Open(x.r) <=> Open(e)))
  BY <1>2, OpenFlipped
<1>4. key \in [Party -> [Party -> Block]]
  BY <1>2, BlockXor
<1>5. ASSUME NEW q \in Party, NEW p \in Party, p # q
      PROVE  x.mac[p][q] = key[q][p] (+) When(r[p], delta[q])
  <2>1. x.mac[p][q] = x.key[q][p] (+) When(x.r[p], delta[q])
    BY <1>5 DEF Sound, Valid, OpenedTo, Others
  <2>2. x.r[p] \in BOOLEAN /\ e[p] \in BOOLEAN
    BY <1>2 DEF Shares
  <2>3. key[q][p] = x.key[q][p] (+) When(e[p], delta[q])
    BY <1>5, <2>2 DEF When
  <2>4. QED
    BY <2>1, <2>2, <2>3, MacAlgebra
<1> HIDE DEF r, key
<1>6. QED
  BY <1>1, <1>2, <1>3, <1>4, <1>5 DEF Sound, AShare, Valid, OpenedTo, Others, r

\* Adding a public bit.
LEMMA AddPublicSound ==
    ASSUME Keys, NEW x, Sound(x), NEW c \in BOOLEAN
    PROVE  /\ Sound(AddPublic(x, c))
           /\ Open(AddPublic(x, c).r) <=> ~(Open(x.r) <=> c)
<1> DEFINE e == [p \in Party |-> c /\ p = 1]
<1>1. e \in Shares
  BY DEF Shares
<1>2. {p \in Party : e[p]} = IF c THEN {1} ELSE {}
  BY PartyFinite
<1>3. Open(e) <=> c
  BY <1>2, OddSmall DEF Open
<1>4. AddPublic(x, c) = Correct(x, e)
  BY DEF AddPublic
<1> HIDE DEF e
<1>5. Sound(Correct(x, e)) /\ (Open(Correct(x, e).r) <=> ~(Open(x.r) <=> Open(e)))
  BY <1>1, CorrectSound
<1>6. QED
  BY <1>3, <1>4, <1>5, Zenon

-----------------------------------------------------------------------------
(* Leaky triples.                                                           *)

\* a triple of sound bits whose third is the product of the others
GoodTriple(t) == Sound(t.a) /\ Sound(t.b) /\ Sound(t.c) /\ Triple(t)

\* The row that the higher party q opens holds the product of the sums of the
\* two parties' shares, masked with s: q's MAC is the key the row was made with.
LEMMA EvaluateOpens ==
    ASSUME Keys, NEW x, NEW y, Sound(x), Sound(y), NEW s \in BOOLEAN, NEW i,
           NEW p \in Party, NEW q \in Party, p # q
    PROVE  EvaluateBit(x, y, p, q, s, i)
           <=> ~(((~(x.r[q] <=> x.r[p])) /\ (~(y.r[q] <=> y.r[p]))) <=> s)
<1>1. x.mac[q][p] = x.key[p][q] (+) When(x.r[q], delta[p])
  BY DEF Sound, Valid, OpenedTo, Others
<1>2. y.mac[q][p] = y.key[p][q] (+) When(y.r[q], delta[p])
  BY DEF Sound, Valid, OpenedTo, Others
<1> DEFINE h == H(x.mac[q][p], <<i, 0, x.r[q]>>) (+) H(y.mac[q][p], <<i, 1, y.r[q]>>)
<1>3. Garble(x, y, p, q, s, i, x.r[q], y.r[q])
        = ((Lsb \in h) # (((x.r[q] # x.r[p]) /\ (y.r[q] # y.r[p])) # s))
  BY <1>1, <1>2 DEF Garble
<1>4. EvaluateBit(x, y, p, q, s, i) = (Garble(x, y, p, q, s, i, x.r[q], y.r[q]) # (Lsb \in h))
  BY DEF EvaluateBit
<1>5. x.r[p] \in BOOLEAN /\ x.r[q] \in BOOLEAN /\ y.r[p] \in BOOLEAN /\ y.r[q] \in BOOLEAN
  BY DEF Sound, AShare, Shares
<1> HIDE DEF h
<1>6. QED
  BY <1>3, <1>4, <1>5

\* The two shares of a pair, without its mask, are the two mixed products.
LEMMA CrossPair ==
    ASSUME Keys, NEW x, NEW y, Sound(x), Sound(y), NEW s \in [Party -> [Party -> BOOLEAN]], NEW i,
           NEW p \in Party, NEW q \in Party, p # q
    PROVE  ~(CrossShare(x, y, p, q, s, i) <=> CrossShare(x, y, q, p, s, i))
           <=> ~((x.r[p] /\ y.r[q]) <=> (x.r[q] /\ y.r[p]))
<1> SUFFICES ASSUME NEW a \in Party, NEW b \in Party, a < b
             PROVE  ~(CrossShare(x, y, a, b, s, i) <=> CrossShare(x, y, b, a, s, i))
                    <=> ~((x.r[a] /\ y.r[b]) <=> (x.r[b] /\ y.r[a]))
  <2>1. p < q \/ q < p
    BY PartyFinite DEF Party
  <2>2. QED
    BY <2>1
<1>0. a # b /\ ~(b < a)
  BY PartyFinite DEF Party
<1>1. x.r[a] \in BOOLEAN /\ x.r[b] \in BOOLEAN /\ y.r[a] \in BOOLEAN /\ y.r[b] \in BOOLEAN
  BY DEF Sound, AShare, Shares
<1> DEFINE u == s[a][b]
<1>2. u \in BOOLEAN /\ (CrossShare(x, y, a, b, s, i) <=> ~((x.r[a] /\ y.r[a]) <=> u))
  BY <1>1 DEF CrossShare
<1>3. CrossShare(x, y, b, a, s, i) = ((x.r[b] /\ y.r[b]) # EvaluateBit(x, y, a, b, u, i))
  BY <1>0 DEF CrossShare
<1> HIDE DEF u
<1>4. EvaluateBit(x, y, a, b, u, i) <=> ~(((~(x.r[b] <=> x.r[a])) /\ (~(y.r[b] <=> y.r[a]))) <=> u)
  BY <1>0, <1>2, EvaluateOpens
<1>5. EvaluateBit(x, y, a, b, u, i) \in BOOLEAN
  BY DEF EvaluateBit
<1>6. CrossShare(x, y, b, a, s, i) <=> ~((x.r[b] /\ y.r[b]) <=> EvaluateBit(x, y, a, b, u, i))
  BY <1>3, <1>5
<1>7. QED
  BY <1>1, <1>2, <1>4, <1>6

\* The shares of the product open to the product.
LEMMA ProductOpens ==
    ASSUME Keys, NEW x, NEW y, Sound(x), Sound(y), NEW s \in [Party -> [Party -> BOOLEAN]], NEW i
    PROVE  /\ Product(x, y, s, i) \in Shares
           /\ Open(Product(x, y, s, i)) <=> Open(x.r) /\ Open(y.r)
<1> DEFINE U == {p \in Party : x.r[p]}
           V == {p \in Party : y.r[p]}
           C == {pq \in Party \X Party : CrossShare(x, y, pq[1], pq[2], s, i)}
           D == Terms(Party, U, V, C)
<1>1. Paired(Party, U, V, C)
  <2> SUFFICES ASSUME NEW p \in Party, NEW q \in Party, p # q
               PROVE  ~(<<p, q>> \in C <=> <<q, p>> \in C)
                      <=> ~((p \in U /\ q \in V) <=> (q \in U /\ p \in V))
    BY DEF Paired
  <2>1. <<p, q>> \in C <=> CrossShare(x, y, p, q, s, i)
    OBVIOUS
  <2>2. <<q, p>> \in C <=> CrossShare(x, y, q, p, s, i)
    OBVIOUS
  <2>3. (p \in U <=> x.r[p]) /\ (q \in U <=> x.r[q]) /\ (p \in V <=> y.r[p]) /\ (q \in V <=> y.r[q])
    OBVIOUS
  <2> HIDE DEF C, U, V
  <2>4. QED
    BY <2>1, <2>2, <2>3, CrossPair
<1>2. Odd(D) <=> Odd(U) /\ Odd(V)
  <2>1. U \in SUBSET Party /\ V \in SUBSET Party
    OBVIOUS
  <2> HIDE DEF C, U, V
  <2>2. QED
    BY <1>1, <2>1, PartySum
<1>4. Product(x, y, s, i) \in Shares
  BY DEF Product, Shares
<1>5. {p \in Party : Product(x, y, s, i)[p]} = D
  <2>1. ASSUME NEW p \in Party
        PROVE  Product(x, y, s, i)[p] <=> p \in D
    <3>1. {q \in Others(p) : CrossShare(x, y, p, q, s, i)} = {q \in Party \ {p} : <<p, q>> \in C}
      BY DEF Others
    <3>2. x.r[p] \in BOOLEAN /\ y.r[p] \in BOOLEAN
      BY DEF Sound, AShare, Shares
    <3>3. Product(x, y, s, i)[p]
            = ((x.r[p] /\ y.r[p]) # Odd({q \in Party \ {p} : <<p, q>> \in C}))
      BY <3>1 DEF Product
    <3> HIDE DEF C
    <3>4. QED
      BY <3>2, <3>3 DEF Odd, Terms
  <2>2. D \subseteq Party
    BY DEF Terms
  <2> HIDE DEF D
  <2>3. QED
    BY <2>1, <2>2
<1> HIDE DEF D
<1>6. QED
  BY <1>2, <1>4, <1>5 DEF Open

\* A random authenticated bit that is corrected to shares of the product.
LEMMA CorrectedGood ==
    ASSUME Keys, NEW x, NEW y, NEW z, Sound(x), Sound(y), Sound(z),
           NEW c \in Shares, Open(c) <=> Open(x.r) /\ Open(y.r)
    PROVE  GoodTriple([a |-> x, b |-> y, c |-> Correct(z, [p \in Party |-> c[p] # z.r[p]])])
<1> DEFINE e == [p \in Party |-> c[p] # z.r[p]]
<1>1. z.r \in Shares
  BY DEF Sound, AShare
<1>2. e \in Shares /\ (Open(e) <=> ~(Open(c) <=> Open(z.r)))
  BY <1>1, OpenFlipped
<1> HIDE DEF e
<1>3. Sound(Correct(z, e)) /\ (Open(Correct(z, e).r) <=> ~(Open(z.r) <=> Open(e)))
  BY <1>2, CorrectSound
<1>4. Triple([a |-> x, b |-> y, c |-> Correct(z, e)])
  BY <1>2, <1>3 DEF Triple, Open, Odd
<1>5. QED
  BY <1>3, <1>4 DEF GoodTriple, e

\* A leaky triple of parties that follow the protocol multiplies.
LEMMA LeakyAndGood ==
    ASSUME Keys, NEW x, NEW y, NEW z, Sound(x), Sound(y), Sound(z),
           NEW s \in [Party -> [Party -> BOOLEAN]], NEW i
    PROVE  GoodTriple(LeakyAnd(x, y, z, s, i))
<1> DEFINE c == Product(x, y, s, i)
<1>1. c \in Shares /\ (Open(c) <=> Open(x.r) /\ Open(y.r))
  BY ProductOpens
<1>2. LeakyAnd(x, y, z, s, i) = [a |-> x, b |-> y, c |-> Correct(z, [p \in Party |-> c[p] # z.r[p]])]
  BY DEF LeakyAnd
<1> HIDE DEF c
<1>3. QED
  BY <1>1, <1>2, CorrectedGood

-----------------------------------------------------------------------------
(* The check of a triple, one bit position x of the blocks at a time.       *)

\* the parties whose block f[p] has the bit x
At(x, f) == {p \in Party : x \in f[p]}

LEMMA AtFinite ==
    ASSUME NEW x, NEW f
    PROVE  At(x, f) \in SUBSET Party /\ IsFiniteSet(At(x, f))
<1>1. At(x, f) \in SUBSET Party
  BY DEF At
<1>2. QED
  BY <1>1, PartyFinite, FS_Subset

\* what p adds to a check for an authenticated bit z
Own(z, p) ==
    XorOver(Others(p), [q \in Others(p) |-> z.key[p][q] (+) z.mac[p][q]]) (+) When(z.r[p], delta[p])

\* Taken over all parties the keys and MACs cancel: what is left is the sum of
\* the global keys if z opens to 1.
LEMMA OwnSum ==
    ASSUME Keys, NEW z, Sound(z), NEW x \in Bits
    PROVE  Odd(At(x, [p \in Party |-> Own(z, p)])) <=> Open(z.r) /\ Odd(At(x, delta))
<1> DEFINE U == {p \in Party : z.r[p]}
           V == At(x, delta)
           C == {pq \in Party \X Party : x \in z.key[pq[1]][pq[2]] (+) z.mac[pq[1]][pq[2]]}
           own == [p \in Party |-> Own(z, p)]
<1>0. \A p \in Party : z.r[p] \in BOOLEAN
  BY DEF Sound, AShare, Shares
<1>1. Paired(Party, U, V, C)
  <2> SUFFICES ASSUME NEW p \in Party, NEW q \in Party, p # q
               PROVE  ~(<<p, q>> \in C <=> <<q, p>> \in C)
                      <=> ~((p \in U /\ q \in V) <=> (q \in U /\ p \in V))
    BY DEF Paired
  <2>1. z.mac[p][q] = z.key[q][p] (+) When(z.r[p], delta[q])
    BY DEF Sound, Valid, OpenedTo, Others
  <2>2. z.mac[q][p] = z.key[p][q] (+) When(z.r[q], delta[p])
    BY DEF Sound, Valid, OpenedTo, Others
  <2>3. /\ <<p, q>> \in C <=> x \in z.key[p][q] (+) z.mac[p][q]
        /\ <<q, p>> \in C <=> x \in z.key[q][p] (+) z.mac[q][p]
        /\ p \in U <=> z.r[p]
        /\ q \in U <=> z.r[q]
        /\ p \in V <=> x \in delta[p]
        /\ q \in V <=> x \in delta[q]
    BY DEF At
  <2> HIDE DEF U, V, C
  <2>4. QED
    BY <1>0, <2>1, <2>2, <2>3 DEF (+), When
<1>2. U \in SUBSET Party /\ V \in SUBSET Party
  BY DEF At
<1>3. At(x, own) = Terms(Party, U, V, C)
  <2>1. ASSUME NEW p \in Party
        PROVE  x \in own[p] <=> ~((p \in U /\ p \in V) <=> Odd({q \in Party \ {p} : <<p, q>> \in C}))
    <3> DEFINE f == [q \in Others(p) |-> z.key[p][q] (+) z.mac[p][q]]
    <3>1. {q \in Others(p) : x \in f[q]} = {q \in Party \ {p} : <<p, q>> \in C}
      BY DEF Others
    <3>2. x \in XorOver(Others(p), f) <=> Odd({q \in Party \ {p} : <<p, q>> \in C})
      BY <3>1 DEF XorOver
    <3>3. own[p] = XorOver(Others(p), f) (+) When(z.r[p], delta[p])
      BY DEF Own
    <3>4. x \in When(z.r[p], delta[p]) <=> p \in U /\ p \in V
      BY <1>0 DEF When, At
    <3> HIDE DEF own, f, U, V, C
    <3>5. QED
      BY <3>2, <3>3, <3>4 DEF (+)
  <2> HIDE DEF own, U, V, C
  <2>2. QED
    BY <2>1 DEF At, Terms
<1>4. Odd(Terms(Party, U, V, C)) <=> Odd(U) /\ Odd(V)
  <2> HIDE DEF U, V, C
  <2>1. QED
    BY <1>1, <1>2, PartySum
<1>5. QED
  BY <1>3, <1>4 DEF Open

\* The value a party derives from a peer's PhiSent: its own hash cancels.
LEMMA PhiMacValue ==
    ASSUME Keys, NEW t, Sound(t.a), NEW p \in Party, NEW q \in Party, p # q, NEW i
    PROVE  PhiMac(t, p, q, i) = H(t.a.key[q][p], <<i, FALSE>>) (+) When(t.a.r[p], Phi(t, q))
<1>1. t.a.mac[p][q] = t.a.key[q][p] (+) When(t.a.r[p], delta[q])
  BY DEF Sound, Valid, OpenedTo, Others
<1>2. t.a.r[p] \in BOOLEAN
  BY DEF Sound, AShare, Shares
<1>3. CASE t.a.r[p] = TRUE
  <2>1. PhiMac(t, p, q, i) = H(t.a.key[q][p] (+) delta[q], <<i, TRUE>>) (+) PhiSent(t, q, p, i)
    BY <1>1, <1>3 DEF PhiMac, When
  <2>2. PhiSent(t, q, p, i) = (H(t.a.key[q][p], <<i, FALSE>>) (+) H(t.a.key[q][p] (+) delta[q], <<i, TRUE>>))
                               (+) Phi(t, q)
    BY DEF PhiSent
  <2>3. When(t.a.r[p], Phi(t, q)) = Phi(t, q)
    BY <1>3 DEF When
  <2>4. QED
    BY <2>1, <2>2, <2>3, XorBlocks
<1>4. CASE t.a.r[p] = FALSE
  <2>1. PhiMac(t, p, q, i) = H(t.a.key[q][p] (+) {}, <<i, FALSE>>) (+) {}
    BY <1>1, <1>4 DEF PhiMac, When
  <2>2. QED
    BY <1>4, <2>1, XorBlocks DEF When
<1>5. QED
  BY <1>2, <1>3, <1>4

\* the part of a contribution that is about the first two bits of the triple
Mixed(t, p, i) ==
    XorOver(Others(p), [q \in Others(p) |-> H(t.a.key[p][q], <<i, FALSE>>) (+) PhiMac(t, p, q, i)])
    (+) When(t.a.r[p], Phi(t, p))

\* Taken over all parties it is the product of the first bit and all Phi.
LEMMA MixedSum ==
    ASSUME Keys, NEW t, Sound(t.a), NEW x \in Bits, NEW i
    PROVE  Odd(At(x, [p \in Party |-> Mixed(t, p, i)]))
           <=> Open(t.a.r) /\ Odd(At(x, [p \in Party |-> Phi(t, p)]))
<1> DEFINE hash(p, q) == H(t.a.key[p][q], <<i, FALSE>>)
           U == {p \in Party : t.a.r[p]}
           V == At(x, [p \in Party |-> Phi(t, p)])
           C == {pq \in Party \X Party : x \in hash(pq[1], pq[2]) (+) PhiMac(t, pq[1], pq[2], i)}
           mixed == [p \in Party |-> Mixed(t, p, i)]
<1>0. \A p \in Party : t.a.r[p] \in BOOLEAN
  BY DEF Sound, AShare, Shares
<1>1. Paired(Party, U, V, C)
  <2> SUFFICES ASSUME NEW p \in Party, NEW q \in Party, p # q
               PROVE  ~(<<p, q>> \in C <=> <<q, p>> \in C)
                      <=> ~((p \in U /\ q \in V) <=> (q \in U /\ p \in V))
    BY DEF Paired
  <2>1. PhiMac(t, p, q, i) = hash(q, p) (+) When(t.a.r[p], Phi(t, q))
    BY PhiMacValue
  <2>2. PhiMac(t, q, p, i) = hash(p, q) (+) When(t.a.r[q], Phi(t, p))
    BY PhiMacValue
  <2>3. /\ <<p, q>> \in C <=> x \in hash(p, q) (+) PhiMac(t, p, q, i)
        /\ <<q, p>> \in C <=> x \in hash(q, p) (+) PhiMac(t, q, p, i)
        /\ p \in U <=> t.a.r[p]
        /\ q \in U <=> t.a.r[q]
        /\ p \in V <=> x \in Phi(t, p)
        /\ q \in V <=> x \in Phi(t, q)
    BY DEF At
  <2> HIDE DEF U, V, C, hash
  <2>4. QED
    BY <1>0, <2>1, <2>2, <2>3 DEF (+), When
<1>2. U \in SUBSET Party /\ V \in SUBSET Party
  BY DEF At
<1>3. At(x, mixed) = Terms(Party, U, V, C)
  <2>1. ASSUME NEW p \in Party
        PROVE  x \in mixed[p] <=> ~((p \in U /\ p \in V) <=> Odd({q \in Party \ {p} : <<p, q>> \in C}))
    <3> DEFINE f == [q \in Others(p) |-> hash(p, q) (+) PhiMac(t, p, q, i)]
    <3>1. {q \in Others(p) : x \in f[q]} = {q \in Party \ {p} : <<p, q>> \in C}
      BY DEF Others
    <3>2. x \in XorOver(Others(p), f) <=> Odd({q \in Party \ {p} : <<p, q>> \in C})
      BY <3>1 DEF XorOver
    <3>3. mixed[p] = XorOver(Others(p), f) (+) When(t.a.r[p], Phi(t, p))
      BY DEF Mixed
    <3>4. x \in When(t.a.r[p], Phi(t, p)) <=> p \in U /\ p \in V
      BY <1>0 DEF When, At
    <3> HIDE DEF mixed, f, U, V, C
    <3>5. QED
      BY <3>2, <3>3, <3>4 DEF (+)
  <2> HIDE DEF mixed, U, V, C
  <2>2. QED
    BY <2>1 DEF At, Terms
<1>4. Odd(Terms(Party, U, V, C)) <=> Odd(U) /\ Odd(V)
  <2> HIDE DEF U, V, C
  <2>1. QED
    BY <1>1, <1>2, PartySum
<1>5. QED
  BY <1>3, <1>4 DEF Open

\* A contribution is what is about the first two bits and what is about the third.
LEMMA ContributionSplits ==
    ASSUME NEW t, NEW p \in Party, NEW i, NEW x \in Bits
    PROVE  x \in Contribution(t, p, i) <=> ~(x \in Mixed(t, p, i) <=> x \in Own(t.c, p))
<1> DEFINE f == [q \in Others(p) |-> H(t.a.key[p][q], <<i, FALSE>>) (+) PhiMac(t, p, q, i)]
           g == [q \in Others(p) |-> t.c.key[p][q] (+) t.c.mac[p][q]]
           b == [q \in Others(p) |-> H(t.a.key[p][q], <<i, FALSE>>) (+) PhiMac(t, p, q, i)
                                     (+) t.c.key[p][q] (+) t.c.mac[p][q]]
           F == {q \in Others(p) : x \in f[q]}
           G0 == {q \in Others(p) : x \in g[q]}
           B == {q \in Others(p) : x \in b[q]}
<1>1. \A q \in Others(p) : b[q] = f[q] (+) g[q]
  BY XorBlocks
<1>2. /\ Contribution(t, p, i) = (XorOver(Others(p), b) (+) When(t.a.r[p], Phi(t, p)))
                                 (+) When(t.c.r[p], delta[p])
      /\ Mixed(t, p, i) = XorOver(Others(p), f) (+) When(t.a.r[p], Phi(t, p))
      /\ Own(t.c, p) = XorOver(Others(p), g) (+) When(t.c.r[p], delta[p])
  BY DEF Contribution, Mixed, Own
<1> HIDE DEF f, g, b
<1>3. B = F (+) G0
  BY <1>1 DEF (+)
<1>4. F \in SUBSET Party /\ G0 \in SUBSET Party
  BY DEF Others
<1>5. /\ x \in XorOver(Others(p), b) <=> Odd(B)
      /\ x \in XorOver(Others(p), f) <=> Odd(F)
      /\ x \in XorOver(Others(p), g) <=> Odd(G0)
  BY DEF XorOver
<1> HIDE DEF B, F, G0
<1>6. Odd(B) <=> ~(Odd(F) <=> Odd(G0))
  BY <1>3, <1>4, OddXor, PartyFinite, FS_Subset
<1>7. QED
  BY <1>2, <1>5, <1>6 DEF (+)

\* The AND check of FpreMP::compute passes for a triple that multiplies.
LEMMA AndCheckPasses ==
    ASSUME Keys, NEW t, GoodTriple(t), NEW i
    PROVE  AndCheck(t, i)
<1> DEFINE con == [p \in Party |-> Contribution(t, p, i)]
           mixed == [p \in Party |-> Mixed(t, p, i)]
           own == [p \in Party |-> Own(t.c, p)]
           phi == [p \in Party |-> Phi(t, p)]
<1>0. Sound(t.a) /\ Sound(t.b) /\ Sound(t.c) /\ (Open(t.c.r) <=> Open(t.a.r) /\ Open(t.b.r))
  BY DEF GoodTriple, Triple, Open, Odd
<1> SUFFICES ASSUME NEW x \in Bits PROVE ~Odd(At(x, con))
  BY DEF AndCheck, XorOver, At
<1>1. phi = [p \in Party |-> Own(t.b, p)]
  BY DEF Phi, Own
<1>2. Odd(At(x, phi)) <=> Open(t.b.r) /\ Odd(At(x, delta))
  BY <1>0, <1>1, OwnSum
<1>3. Odd(At(x, mixed)) <=> Open(t.a.r) /\ Odd(At(x, phi))
  BY <1>0, MixedSum
<1>4. Odd(At(x, own)) <=> Open(t.c.r) /\ Odd(At(x, delta))
  BY <1>0, OwnSum
<1>5. At(x, con) = At(x, mixed) (+) At(x, own)
  BY ContributionSplits DEF At, (+)
<1> HIDE DEF con, mixed, own, phi
<1>6. Odd(At(x, con)) <=> ~(Odd(At(x, mixed)) <=> Odd(At(x, own)))
  BY <1>5, AtFinite, OddXor
<1>7. QED
  BY <1>0, <1>2, <1>3, <1>4, <1>6

-----------------------------------------------------------------------------
(* Buckets.                                                                 *)

\* one step of Combine: the triples so far, g, with the k-th of ts
Joined(ts, g, k) ==
    [a |-> Xor(g.a, ts[k].a), b |-> ts[1].b,
     c |-> XorIf(Opened(ts, k), Xor(g.c, ts[k].c), ts[k].a)]

\* The recursive function of Combine satisfies its equation.
LEMMA CombineDef ==
    ASSUME NEW ts, NEW n \in Nat, Len(ts) = n
    PROVE  \E f : /\ f = [k \in 1..n |-> IF k = 1 THEN ts[1] ELSE Joined(ts, f[k - 1], k)]
                  /\ Combine(ts) = f[n]
<1> DEFINE Is(f, m) == f = [k \in 1..m |-> IF k = 1 THEN ts[1] ELSE Joined(ts, f[k - 1], k)]
           Bad == {m \in Nat : ~\E f : Is(f, m)}
<1>1. SUFFICES \E f : Is(f, n)
  BY DEF Combine, Joined
<1>2. SUFFICES ASSUME Bad # {} PROVE FALSE
  OBVIOUS
<1>3. PICK m \in Bad : \A y \in Bad : m <= y
  <2>1. Bad \in SUBSET Nat
    OBVIOUS
  <2> HIDE DEF Bad
  <2>2. QED
    BY <1>2, <2>1, NatMin
<1>4. m # 0
  <2>1. Is([k \in 1..0 |-> ts[1]], 0)
    OBVIOUS
  <2>2. QED
    BY <1>3, <2>1
<1>5. PICK g : Is(g, m - 1)
  <2>1. m - 1 \in Nat /\ ~(m <= m - 1)
    BY <1>3, <1>4
  <2>2. QED
    BY <1>3, <2>1
<1> DEFINE f == [k \in 1..m |-> IF k = m THEN (IF m = 1 THEN ts[1] ELSE Joined(ts, g[m - 1], m)) ELSE g[k]]
<1>6. \A k \in 1..m : f[k] = IF k = 1 THEN ts[1] ELSE Joined(ts, f[k - 1], k)
  <2> SUFFICES ASSUME NEW k \in 1..m PROVE f[k] = IF k = 1 THEN ts[1] ELSE Joined(ts, f[k - 1], k)
    OBVIOUS
  <2>1. CASE k = 1
    BY <1>3, <1>5, <2>1
  <2>2. CASE k # 1
    <3>1. k - 1 \in 1..(m - 1) /\ k - 1 \in 1..m /\ k - 1 # m /\ f[k - 1] = g[k - 1]
      BY <1>3, <2>2
    <3>2. CASE k = m
      BY <2>2, <3>1, <3>2
    <3>3. CASE k # m
      <4>1. k \in 1..(m - 1)
        BY <1>3, <3>3
      <4>2. g[k] = Joined(ts, g[k - 1], k)
        BY <1>5, <2>2, <4>1
      <4>3. QED
        BY <2>2, <3>1, <3>3, <4>2
    <3>4. QED
      BY <3>2, <3>3
  <2>3. QED
    BY <2>1, <2>2
<1>7. Is(f, m)
  BY <1>6
<1> HIDE DEF f
<1>8. QED
  BY <1>3, <1>7

\* A step of Combine keeps the product: the sum of the a's times the b of the
\* first triple.
LEMMA JoinedGood ==
    ASSUME Keys, NEW ts, NEW g, NEW k, GoodTriple(g), GoodTriple(ts[k]), GoodTriple(ts[1]), g.b = ts[1].b
    PROVE  GoodTriple(Joined(ts, g, k)) /\ Joined(ts, g, k).b = ts[1].b
<1> DEFINE a == Xor(g.a, ts[k].a)
           c0 == Xor(g.c, ts[k].c)
           c == XorIf(Opened(ts, k), c0, ts[k].a)
<1>1. /\ Sound(g.a) /\ Sound(g.c) /\ Sound(ts[k].a) /\ Sound(ts[k].b) /\ Sound(ts[k].c) /\ Sound(ts[1].b)
      /\ Open(g.c.r) <=> Open(g.a.r) /\ Open(ts[1].b.r)
      /\ Open(ts[k].c.r) <=> Open(ts[k].a.r) /\ Open(ts[k].b.r)
  BY DEF GoodTriple, Triple, Open, Odd
<1>2. Sound(a) /\ (Open(a.r) <=> ~(Open(g.a.r) <=> Open(ts[k].a.r)))
  BY <1>1, XorSound
<1>3. Sound(c0) /\ (Open(c0.r) <=> ~(Open(g.c.r) <=> Open(ts[k].c.r)))
  BY <1>1, XorSound
<1>4. Opened(ts, k) <=> ~(Open(ts[1].b.r) <=> Open(ts[k].b.r))
  BY DEF Opened, Open, Odd
<1> HIDE DEF a, c0
<1>5. Sound(c) /\ (Open(c.r) <=> ~(Open(c0.r) <=> Opened(ts, k) /\ Open(ts[k].a.r)))
  <2>1. Opened(ts, k) \in BOOLEAN
    BY DEF Opened
  <2>2. QED
    BY <1>1, <1>3, <2>1, XorIfSound
<1>6. Joined(ts, g, k) = [a |-> a, b |-> ts[1].b, c |-> c]
  BY DEF Joined, a, c0
<1> HIDE DEF c
<1>7. Open(c.r) <=> Open(a.r) /\ Open(ts[1].b.r)
  BY <1>1, <1>2, <1>3, <1>4, <1>5
<1>8. Triple([a |-> a, b |-> ts[1].b, c |-> c])
  BY <1>7 DEF Triple, Open, Odd
<1>9. QED
  BY <1>1, <1>2, <1>5, <1>6, <1>8 DEF GoodTriple

\* A bucket of triples that multiply combines to one that does.
LEMMA CombineGood ==
    ASSUME Keys, NEW ts, NEW n \in Nat \ {0}, Len(ts) = n, \A k \in 1..n : GoodTriple(ts[k])
    PROVE  GoodTriple(Combine(ts))
<1>1. PICK f : /\ f = [k \in 1..n |-> IF k = 1 THEN ts[1] ELSE Joined(ts, f[k - 1], k)]
               /\ Combine(ts) = f[n]
  BY CombineDef
<1>2. f[1] = ts[1] /\ \A k \in 2..n : f[k] = Joined(ts, f[k - 1], k)
  BY <1>1
<1> DEFINE Fine(k) == GoodTriple(f[k]) /\ f[k].b = ts[1].b
           Bad == {k \in 1..n : ~Fine(k)}
<1>3. Fine(1)
  BY <1>2
<1>4. ASSUME NEW k \in 2..n, Fine(k - 1) PROVE Fine(k)
  <2>1. k \in 1..n /\ 1 \in 1..n
    OBVIOUS
  <2>2. QED
    BY <1>2, <1>4, <2>1, JoinedGood
<1>5. Bad = {}
  <2>1. SUFFICES ASSUME Bad # {} PROVE FALSE
    OBVIOUS
  <2>2. PICK k \in Bad : \A y \in Bad : k <= y
    <3>1. Bad \in SUBSET Nat
      OBVIOUS
    <3> HIDE DEF Bad
    <3>2. QED
      BY <2>1, <3>1, NatMin
  <2>3. k \in 1..n /\ ~Fine(k)
    BY <2>2
  <2> HIDE DEF Fine
  <2>4. k \in 2..n /\ k - 1 \in 1..n /\ ~(k <= k - 1)
    BY <1>3, <2>3
  <2>5. Fine(k - 1)
    BY <2>2, <2>4
  <2>6. QED
    BY <1>4, <2>3, <2>4, <2>5
<1>6. Fine(n)
  <2> HIDE DEF Fine
  <2>1. QED
    BY <1>5
<1>7. QED
  BY <1>1, <1>6

-----------------------------------------------------------------------------
(* The masks of the wires.                                                  *)

\* A product of masks by Beaver's method.
LEMMA BeaverSound ==
    ASSUME Keys, NEW ma, NEW mb, NEW t, Sound(ma), Sound(mb), GoodTriple(t)
    PROVE  /\ Sound(BeaverAnd(ma, mb, t))
           /\ Open(BeaverAnd(ma, mb, t).r) <=> Open(ma.r) /\ Open(mb.r)
<1> DEFINE x == Open(ma.r) # Open(t.a.r)
           y == Open(mb.r) # Open(t.b.r)
           s0 == XorIf(x, t.c, t.b)
           s1 == XorIf(y, s0, t.a)
<1>0. /\ Sound(t.a) /\ Sound(t.b) /\ Sound(t.c)
      /\ Open(t.c.r) <=> Open(t.a.r) /\ Open(t.b.r)
  BY DEF GoodTriple, Triple, Open, Odd
<1>1. /\ x \in BOOLEAN /\ y \in BOOLEAN /\ (x /\ y) \in BOOLEAN
      /\ x <=> ~(Open(ma.r) <=> Open(t.a.r))
      /\ y <=> ~(Open(mb.r) <=> Open(t.b.r))
  BY DEF Open, Odd
<1>2. BeaverAnd(ma, mb, t) = AddPublic(s1, x /\ y)
  BY DEF BeaverAnd
<1> HIDE DEF x, y
<1>3. Sound(s0) /\ (Open(s0.r) <=> ~(Open(t.c.r) <=> (x /\ Open(t.b.r))))
  BY <1>0, <1>1, XorIfSound
<1> HIDE DEF s0
<1>4. Sound(s1) /\ (Open(s1.r) <=> ~(Open(s0.r) <=> (y /\ Open(t.a.r))))
  BY <1>0, <1>1, <1>3, XorIfSound
<1> HIDE DEF s1
<1>5. Sound(AddPublic(s1, x /\ y)) /\ (Open(AddPublic(s1, x /\ y).r) <=> ~(Open(s1.r) <=> (x /\ y)))
  BY <1>1, <1>4, AddPublicSound
<1>6. QED
  BY <1>0, <1>1, <1>2, <1>3, <1>4, <1>5

\* The row of a gate opens to the masked output for the masked inputs u and v.
LEMMA RowSound ==
    ASSUME Keys, NEW w, NEW u \in BOOLEAN, NEW v \in BOOLEAN,
           Sound(sigma[w]), Sound(mask[w]), Sound(mask[Gate(w).a]), Sound(mask[Gate(w).b]),
           Open(sigma[w].r) <=> Open(mask[Gate(w).a].r) /\ Open(mask[Gate(w).b].r)
    PROVE  /\ Sound(Row(w, u, v))
           /\ Open(Row(w, u, v).r) <=>
                  ~(Open(mask[w].r) <=> (~(u <=> Open(mask[Gate(w).a].r))
                                         /\ ~(v <=> Open(mask[Gate(w).b].r))))
<1> DEFINE base == Xor(sigma[w], mask[w])
           withA == XorIf(v, base, mask[Gate(w).a])
           withB == XorIf(u, withA, mask[Gate(w).b])
<1>1. Row(w, u, v) = AddPublic(withB, u /\ v)
  BY DEF Row
<1>2. Sound(base) /\ (Open(base.r) <=> ~(Open(sigma[w].r) <=> Open(mask[w].r)))
  BY XorSound
<1> HIDE DEF base
<1>3. Sound(withA) /\ (Open(withA.r) <=> ~(Open(base.r) <=> (v /\ Open(mask[Gate(w).a].r))))
  BY <1>2, XorIfSound
<1> HIDE DEF withA
<1>4. Sound(withB) /\ (Open(withB.r) <=> ~(Open(withA.r) <=> (u /\ Open(mask[Gate(w).b].r))))
  BY <1>3, XorIfSound
<1> HIDE DEF withB
<1>5. (u /\ v) \in BOOLEAN
  OBVIOUS
<1>6. Sound(AddPublic(withB, u /\ v)) /\ (Open(AddPublic(withB, u /\ v).r) <=> ~(Open(withB.r) <=> (u /\ v)))
  BY <1>4, <1>5, AddPublicSound
<1>7. QED
  BY <1>1, <1>2, <1>3, <1>4, <1>6

-----------------------------------------------------------------------------
(* The functions over the wires satisfy their equations: the inputs of a    *)
(* gate have smaller numbers than its output.                               *)

LEMMA Circuit ==
    /\ NumIn \in Nat \ {0} /\ NumIn + Len(Gates) \in Nat
    /\ \A w \in Wire : w \in Nat \ {0}
    /\ \A w \in Wire : w > NumIn =>
           /\ Gate(w).a \in 1..(w - 1) /\ Gate(w).b \in 1..(w - 1)
           /\ Gate(w).a \in Wire /\ Gate(w).b \in Wire
           /\ Gate(w).op \in {"AND", "XOR", "NOT"}
<1>1. NumIn \in Nat \ {0} /\ Len(Gates) \in Nat
  BY SharesAssumption
<1>2. ASSUME NEW w \in Wire, w > NumIn
      PROVE  /\ Gate(w).a \in 1..(w - 1) /\ Gate(w).b \in 1..(w - 1)
             /\ Gate(w).a \in Wire /\ Gate(w).b \in Wire
             /\ Gate(w).op \in {"AND", "XOR", "NOT"}
  <2>1. w - NumIn \in 1..Len(Gates)
    BY <1>1, <1>2 DEF Wire
  <2>2. Gate(w) \in [op : {"AND", "XOR", "NOT"}, a : Nat \ {0}, b : Nat \ {0}]
    <3> DEFINE R == [op : {"AND", "XOR", "NOT"}, a : Nat \ {0}, b : Nat \ {0}]
    <3>1. Gates \in Seq(R)
      BY SharesAssumption
    <3> HIDE DEF R
    <3>2. Gates[w - NumIn] \in R
      BY <2>1, <3>1
    <3>3. QED
      BY <3>2 DEF Gate, R
  <2>3. Gate(w).a < w /\ Gate(w).b < w
    BY <1>2, SharesAssumption
  <2>4. QED
    BY <1>1, <2>2, <2>3 DEF Wire
<1>3. QED
  BY <1>1, <1>2 DEF Wire

\* one wire of Masks, of Labels, of PlainValues and of EvaluateCircuit, given
\* the function f on the wires before it
MaskStep(pre, f, w) ==
    IF w <= NumIn \/ IsAnd(w) THEN pre[w]
    ELSE IF Gate(w).op = "XOR" THEN Xor(f[Gate(w).a], f[Gate(w).b])
    ELSE f[Gate(w).a]

LabelStep(p, f, w) ==
    IF w <= NumIn \/ IsAnd(w) THEN Label(p, w)
    ELSE IF Gate(w).op = "XOR" THEN f[Gate(w).a] (+) f[Gate(w).b]
    ELSE f[Gate(w).a] (+) delta[p]

PlainStep(x, f, w) ==
    IF w <= NumIn THEN x[w]
    ELSE IF Gate(w).op = "AND" THEN f[Gate(w).a] /\ f[Gate(w).b]
    ELSE IF Gate(w).op = "XOR" THEN f[Gate(w).a] # f[Gate(w).b]
    ELSE ~f[Gate(w).a]

EvalStep(x, f, w) ==
    IF w <= NumIn
    THEN [bit |-> x[w], match |-> TRUE,
          lab |-> [j \in Others(1) |-> Labels(j)[w] (+) When(x[w], delta[j])]]
    ELSE IF Gate(w).op = "AND"
    THEN EvaluateAnd(w, f[Gate(w).a].bit, f[Gate(w).b].bit, f[Gate(w).a].lab, f[Gate(w).b].lab)
    ELSE IF Gate(w).op = "XOR"
    THEN [bit |-> f[Gate(w).a].bit # f[Gate(w).b].bit, match |-> TRUE,
          lab |-> [j \in Others(1) |-> f[Gate(w).a].lab[j] (+) f[Gate(w).b].lab[j]]]
    ELSE [bit |-> ~f[Gate(w).a].bit, match |-> TRUE, lab |-> f[Gate(w).a].lab]

\* The masks of the wires, one by one.
LEMMA MasksDef ==
    ASSUME NEW pre
    PROVE  Masks(pre) = [w \in Wire |-> MaskStep(pre, Masks(pre), w)]
<1> DEFINE total == NumIn + Len(Gates)
           Is(f, n) == f = [w \in 1..n |-> MaskStep(pre, f, w)]
           Bad == {n \in 0..total : ~\E f : Is(f, n)}
<1>0. total \in Nat /\ Wire = 1..total
  BY Circuit DEF Wire
<1>1. \A f, g : \A w \in Wire : (\A u \in 1..(w - 1) : f[u] = g[u]) => MaskStep(pre, f, w) = MaskStep(pre, g, w)
  <2> SUFFICES ASSUME NEW f, NEW g, NEW w \in Wire, \A u \in 1..(w - 1) : f[u] = g[u]
               PROVE  MaskStep(pre, f, w) = MaskStep(pre, g, w)
    OBVIOUS
  <2>1. CASE w <= NumIn
    BY <2>1 DEF MaskStep
  <2>2. CASE ~(w <= NumIn)
    <3>1. w > NumIn
      BY <2>2, Circuit
    <3>2. f[Gate(w).a] = g[Gate(w).a] /\ f[Gate(w).b] = g[Gate(w).b]
      BY <3>1, Circuit
    <3>3. QED
      BY <3>2 DEF MaskStep
  <2>3. QED
    BY <2>1, <2>2
<1>2. SUFFICES \E f : Is(f, total)
  <2>1. \A f : Is(f, total) <=> f = [w \in Wire |-> MaskStep(pre, f, w)]
    BY <1>0
  <2>2. PICK f : f = [w \in Wire |-> MaskStep(pre, f, w)]
    BY <1>2, <2>1
  <2>3. Masks(pre) = CHOOSE h : h = [w \in Wire |-> MaskStep(pre, h, w)]
    BY DEF Masks, MaskStep
  <2>4. QED
    BY <2>2, <2>3
<1>3. SUFFICES ASSUME Bad # {} PROVE FALSE
  BY <1>0
<1>4. PICK n \in Bad : \A y \in Bad : n <= y
  <2>1. Bad \in SUBSET Nat
    OBVIOUS
  <2> HIDE DEF Bad
  <2>2. QED
    BY <1>3, <2>1, NatMin
<1>5. n \in 1..total /\ \A w \in 1..n : w \in Wire
  <2>1. Is([w \in 1..0 |-> 0], 0)
    OBVIOUS
  <2>2. n # 0
    BY <1>4, <2>1
  <2>3. QED
    BY <1>0, <1>4, <2>2
<1>6. PICK g : Is(g, n - 1)
  <2>1. n - 1 \in 0..total /\ ~(n <= n - 1)
    BY <1>0, <1>5
  <2>2. QED
    BY <1>4, <2>1
<1> DEFINE f == [w \in 1..n |-> IF w = n THEN MaskStep(pre, g, n) ELSE g[w]]
<1>7. \A w \in 1..n : f[w] = MaskStep(pre, f, w)
  <2> SUFFICES ASSUME NEW w \in 1..n PROVE f[w] = MaskStep(pre, f, w)
    OBVIOUS
  <2>1. \A u \in 1..(w - 1) : f[u] = g[u]
    BY <1>5
  <2>2. f[w] = MaskStep(pre, g, w)
    <3>1. CASE w = n
      BY <3>1
    <3>2. CASE w # n
      <4>1. w \in 1..(n - 1) /\ f[w] = g[w]
        BY <1>5, <3>2
      <4>2. QED
        BY <1>6, <4>1
    <3>3. QED
      BY <3>1, <3>2
  <2> HIDE DEF f
  <2>3. QED
    BY <1>1, <1>5, <2>1, <2>2
<1>8. Is(f, n)
  BY <1>7
<1> HIDE DEF f
<1>9. QED
  BY <1>4, <1>8

\* The zero labels of a garbler.
LEMMA LabelsDef ==
    ASSUME NEW p
    PROVE  Labels(p) = [w \in Wire |-> LabelStep(p, Labels(p), w)]
<1> DEFINE total == NumIn + Len(Gates)
           Is(f, n) == f = [w \in 1..n |-> LabelStep(p, f, w)]
           Bad == {n \in 0..total : ~\E f : Is(f, n)}
<1>0. total \in Nat /\ Wire = 1..total
  BY Circuit DEF Wire
<1>1. \A f, g : \A w \in Wire : (\A u \in 1..(w - 1) : f[u] = g[u]) => LabelStep(p, f, w) = LabelStep(p, g, w)
  <2> SUFFICES ASSUME NEW f, NEW g, NEW w \in Wire, \A u \in 1..(w - 1) : f[u] = g[u]
               PROVE  LabelStep(p, f, w) = LabelStep(p, g, w)
    OBVIOUS
  <2>1. CASE w <= NumIn
    BY <2>1 DEF LabelStep
  <2>2. CASE ~(w <= NumIn)
    <3>1. w > NumIn
      BY <2>2, Circuit
    <3>2. f[Gate(w).a] = g[Gate(w).a] /\ f[Gate(w).b] = g[Gate(w).b]
      BY <3>1, Circuit
    <3>3. QED
      BY <3>2 DEF LabelStep
  <2>3. QED
    BY <2>1, <2>2
<1>2. SUFFICES \E f : Is(f, total)
  <2>1. \A f : Is(f, total) <=> f = [w \in Wire |-> LabelStep(p, f, w)]
    BY <1>0
  <2>2. PICK f : f = [w \in Wire |-> LabelStep(p, f, w)]
    BY <1>2, <2>1
  <2>3. Labels(p) = CHOOSE h : h = [w \in Wire |-> LabelStep(p, h, w)]
    BY DEF Labels, LabelStep
  <2>4. QED
    BY <2>2, <2>3
<1>3. SUFFICES ASSUME Bad # {} PROVE FALSE
  BY <1>0
<1>4. PICK n \in Bad : \A y \in Bad : n <= y
  <2>1. Bad \in SUBSET Nat
    OBVIOUS
  <2> HIDE DEF Bad
  <2>2. QED
    BY <1>3, <2>1, NatMin
<1>5. n \in 1..total /\ \A w \in 1..n : w \in Wire
  <2>1. Is([w \in 1..0 |-> 0], 0)
    OBVIOUS
  <2>2. n # 0
    BY <1>4, <2>1
  <2>3. QED
    BY <1>0, <1>4, <2>2
<1>6. PICK g : Is(g, n - 1)
  <2>1. n - 1 \in 0..total /\ ~(n <= n - 1)
    BY <1>0, <1>5
  <2>2. QED
    BY <1>4, <2>1
<1> DEFINE f == [w \in 1..n |-> IF w = n THEN LabelStep(p, g, n) ELSE g[w]]
<1>7. \A w \in 1..n : f[w] = LabelStep(p, f, w)
  <2> SUFFICES ASSUME NEW w \in 1..n PROVE f[w] = LabelStep(p, f, w)
    OBVIOUS
  <2>1. \A u \in 1..(w - 1) : f[u] = g[u]
    BY <1>5
  <2>2. f[w] = LabelStep(p, g, w)
    <3>1. CASE w = n
      BY <3>1
    <3>2. CASE w # n
      <4>1. w \in 1..(n - 1) /\ f[w] = g[w]
        BY <1>5, <3>2
      <4>2. QED
        BY <1>6, <4>1
    <3>3. QED
      BY <3>1, <3>2
  <2> HIDE DEF f
  <2>3. QED
    BY <1>1, <1>5, <2>1, <2>2
<1>8. Is(f, n)
  BY <1>7
<1> HIDE DEF f
<1>9. QED
  BY <1>4, <1>8

\* The values of the wires in the clear.
LEMMA PlainDef ==
    ASSUME NEW x
    PROVE  PlainValues(x) = [w \in Wire |-> PlainStep(x, PlainValues(x), w)]
<1> DEFINE total == NumIn + Len(Gates)
           Is(f, n) == f = [w \in 1..n |-> PlainStep(x, f, w)]
           Bad == {n \in 0..total : ~\E f : Is(f, n)}
<1>0. total \in Nat /\ Wire = 1..total
  BY Circuit DEF Wire
<1>1. \A f, g : \A w \in Wire : (\A u \in 1..(w - 1) : f[u] = g[u]) => PlainStep(x, f, w) = PlainStep(x, g, w)
  <2> SUFFICES ASSUME NEW f, NEW g, NEW w \in Wire, \A u \in 1..(w - 1) : f[u] = g[u]
               PROVE  PlainStep(x, f, w) = PlainStep(x, g, w)
    OBVIOUS
  <2>1. CASE w <= NumIn
    BY <2>1 DEF PlainStep
  <2>2. CASE ~(w <= NumIn)
    <3>1. w > NumIn
      BY <2>2, Circuit
    <3>2. f[Gate(w).a] = g[Gate(w).a] /\ f[Gate(w).b] = g[Gate(w).b]
      BY <3>1, Circuit
    <3>3. QED
      BY <3>2 DEF PlainStep
  <2>3. QED
    BY <2>1, <2>2
<1>2. SUFFICES \E f : Is(f, total)
  <2>1. \A f : Is(f, total) <=> f = [w \in Wire |-> PlainStep(x, f, w)]
    BY <1>0
  <2>2. PICK f : f = [w \in Wire |-> PlainStep(x, f, w)]
    BY <1>2, <2>1
  <2>3. PlainValues(x) = CHOOSE h : h = [w \in Wire |-> PlainStep(x, h, w)]
    BY DEF PlainValues, PlainStep
  <2>4. QED
    BY <2>2, <2>3
<1>3. SUFFICES ASSUME Bad # {} PROVE FALSE
  BY <1>0
<1>4. PICK n \in Bad : \A y \in Bad : n <= y
  <2>1. Bad \in SUBSET Nat
    OBVIOUS
  <2> HIDE DEF Bad
  <2>2. QED
    BY <1>3, <2>1, NatMin
<1>5. n \in 1..total /\ \A w \in 1..n : w \in Wire
  <2>1. Is([w \in 1..0 |-> 0], 0)
    OBVIOUS
  <2>2. n # 0
    BY <1>4, <2>1
  <2>3. QED
    BY <1>0, <1>4, <2>2
<1>6. PICK g : Is(g, n - 1)
  <2>1. n - 1 \in 0..total /\ ~(n <= n - 1)
    BY <1>0, <1>5
  <2>2. QED
    BY <1>4, <2>1
<1> DEFINE f == [w \in 1..n |-> IF w = n THEN PlainStep(x, g, n) ELSE g[w]]
<1>7. \A w \in 1..n : f[w] = PlainStep(x, f, w)
  <2> SUFFICES ASSUME NEW w \in 1..n PROVE f[w] = PlainStep(x, f, w)
    OBVIOUS
  <2>1. \A u \in 1..(w - 1) : f[u] = g[u]
    BY <1>5
  <2>2. f[w] = PlainStep(x, g, w)
    <3>1. CASE w = n
      BY <3>1
    <3>2. CASE w # n
      <4>1. w \in 1..(n - 1) /\ f[w] = g[w]
        BY <1>5, <3>2
      <4>2. QED
        BY <1>6, <4>1
    <3>3. QED
      BY <3>1, <3>2
  <2> HIDE DEF f
  <2>3. QED
    BY <1>1, <1>5, <2>1, <2>2
<1>8. Is(f, n)
  BY <1>7
<1> HIDE DEF f
<1>9. QED
  BY <1>4, <1>8

\* What party 1 computes for the wires.
LEMMA EvalDef ==
    ASSUME NEW x
    PROVE  EvaluateCircuit(x) = [w \in Wire |-> EvalStep(x, EvaluateCircuit(x), w)]
<1> DEFINE total == NumIn + Len(Gates)
           Is(f, n) == f = [w \in 1..n |-> EvalStep(x, f, w)]
           Bad == {n \in 0..total : ~\E f : Is(f, n)}
<1>0. total \in Nat /\ Wire = 1..total
  BY Circuit DEF Wire
<1>1. \A f, g : \A w \in Wire : (\A u \in 1..(w - 1) : f[u] = g[u]) => EvalStep(x, f, w) = EvalStep(x, g, w)
  <2> SUFFICES ASSUME NEW f, NEW g, NEW w \in Wire, \A u \in 1..(w - 1) : f[u] = g[u]
               PROVE  EvalStep(x, f, w) = EvalStep(x, g, w)
    OBVIOUS
  <2>1. CASE w <= NumIn
    BY <2>1 DEF EvalStep
  <2>2. CASE ~(w <= NumIn)
    <3>1. w > NumIn
      BY <2>2, Circuit
    <3>2. f[Gate(w).a] = g[Gate(w).a] /\ f[Gate(w).b] = g[Gate(w).b]
      BY <3>1, Circuit
    <3>3. QED
      BY <3>2 DEF EvalStep
  <2>3. QED
    BY <2>1, <2>2
<1>2. SUFFICES \E f : Is(f, total)
  <2>1. \A f : Is(f, total) <=> f = [w \in Wire |-> EvalStep(x, f, w)]
    BY <1>0
  <2>2. PICK f : f = [w \in Wire |-> EvalStep(x, f, w)]
    BY <1>2, <2>1
  <2>3. EvaluateCircuit(x) = CHOOSE h : h = [w \in Wire |-> EvalStep(x, h, w)]
    BY DEF EvaluateCircuit, EvalStep
  <2>4. QED
    BY <2>2, <2>3
<1>3. SUFFICES ASSUME Bad # {} PROVE FALSE
  BY <1>0
<1>4. PICK n \in Bad : \A y \in Bad : n <= y
  <2>1. Bad \in SUBSET Nat
    OBVIOUS
  <2> HIDE DEF Bad
  <2>2. QED
    BY <1>3, <2>1, NatMin
<1>5. n \in 1..total /\ \A w \in 1..n : w \in Wire
  <2>1. Is([w \in 1..0 |-> 0], 0)
    OBVIOUS
  <2>2. n # 0
    BY <1>4, <2>1
  <2>3. QED
    BY <1>0, <1>4, <2>2
<1>6. PICK g : Is(g, n - 1)
  <2>1. n - 1 \in 0..total /\ ~(n <= n - 1)
    BY <1>0, <1>5
  <2>2. QED
    BY <1>4, <2>1
<1> DEFINE f == [w \in 1..n |-> IF w = n THEN EvalStep(x, g, n) ELSE g[w]]
<1>7. \A w \in 1..n : f[w] = EvalStep(x, f, w)
  <2> SUFFICES ASSUME NEW w \in 1..n PROVE f[w] = EvalStep(x, f, w)
    OBVIOUS
  <2>1. \A u \in 1..(w - 1) : f[u] = g[u]
    BY <1>5
  <2>2. f[w] = EvalStep(x, g, w)
    <3>1. CASE w = n
      BY <3>1
    <3>2. CASE w # n
      <4>1. w \in 1..(n - 1) /\ f[w] = g[w]
        BY <1>5, <3>2
      <4>2. QED
        BY <1>6, <4>1
    <3>3. QED
      BY <3>1, <3>2
  <2> HIDE DEF f
  <2>3. QED
    BY <1>1, <1>5, <2>1, <2>2
<1>8. Is(f, n)
  BY <1>7
<1> HIDE DEF f
<1>9. QED
  BY <1>4, <1>8

-----------------------------------------------------------------------------
(* What holds of all wires.                                                 *)

\* A set of wires that has w as soon as it has all wires before w has all wires.
LEMMA WireInduction ==
    ASSUME NEW S, \A w \in Wire : (\A u \in 1..(w - 1) : u \in S) => w \in S
    PROVE  \A w \in Wire : w \in S
<1> DEFINE Bad == {w \in Wire : w \notin S}
<1>1. SUFFICES ASSUME Bad # {} PROVE FALSE
  OBVIOUS
<1>2. PICK w \in Bad : \A y \in Bad : w <= y
  <2>1. Bad \in SUBSET Nat
    BY Circuit
  <2> HIDE DEF Bad
  <2>2. QED
    BY <1>1, <2>1, NatMin
<1>3. \A u \in 1..(w - 1) : u \in Wire /\ ~(w <= u)
  BY <1>2, Circuit DEF Wire
<1>4. \A u \in 1..(w - 1) : u \in S
  BY <1>2, <1>3
<1>5. QED
  BY <1>2, <1>4

\* the masks m of the wires: sound, and those of XOR and NOT gates follow from
\* those of their inputs
MasksFollow(m) ==
    /\ DOMAIN m = Wire
    /\ \A w \in Wire : Sound(m[w])
    /\ \A w \in Wire : w > NumIn /\ Gate(w).op = "XOR" => m[w] = Xor(m[Gate(w).a], m[Gate(w).b])
    /\ \A w \in Wire : w > NumIn /\ Gate(w).op = "NOT" => m[w] = m[Gate(w).a]

LEMMA MasksSound ==
    ASSUME Keys, NEW pre, \A w \in Inputs \cup Ands : Sound(pre[w])
    PROVE  MasksFollow(Masks(pre))
<1> DEFINE m == Masks(pre)
           S == {w \in Wire : Sound(m[w])}
<1>1. m = [w \in Wire |-> MaskStep(pre, m, w)]
  BY MasksDef
<1> HIDE DEF m
<1>2. DOMAIN m = Wire /\ \A w \in Wire : m[w] = MaskStep(pre, m, w)
  BY <1>1
<1>3. ASSUME NEW w \in Wire, w > NumIn, Gate(w).op = "XOR"
      PROVE  m[w] = Xor(m[Gate(w).a], m[Gate(w).b])
  BY <1>2, <1>3, Circuit DEF MaskStep, IsAnd
<1>4. ASSUME NEW w \in Wire, w > NumIn, Gate(w).op = "NOT"
      PROVE  m[w] = m[Gate(w).a]
  BY <1>2, <1>4, Circuit DEF MaskStep, IsAnd
<1>5. ASSUME NEW w \in Wire, \A u \in 1..(w - 1) : u \in S
      PROVE  w \in S
  <2>1. CASE w <= NumIn \/ IsAnd(w)
    <3>1. w \in Inputs \cup Ands
      BY <2>1, Circuit DEF Inputs, Ands
    <3>2. m[w] = pre[w]
      BY <1>2, <2>1 DEF MaskStep
    <3>3. QED
      BY <3>1, <3>2
  <2>2. CASE ~(w <= NumIn \/ IsAnd(w))
    <3>1. w > NumIn /\ Gate(w).op \in {"XOR", "NOT"}
      BY <2>2, Circuit DEF IsAnd
    <3>2. Sound(m[Gate(w).a]) /\ Sound(m[Gate(w).b])
      BY <1>5, <3>1, Circuit
    <3>3. CASE Gate(w).op = "XOR"
      BY <1>3, <3>1, <3>2, <3>3, XorSound
    <3>4. CASE Gate(w).op = "NOT"
      BY <1>4, <3>1, <3>2, <3>4
    <3>5. QED
      BY <3>1, <3>3, <3>4
  <2>3. QED
    BY <2>1, <2>2
<1>6. \A w \in Wire : Sound(m[w])
  <2>1. \A w \in Wire : w \in S
    <3> HIDE DEF S
    <3>1. QED
      BY <1>5, WireInduction
  <2>2. QED
    BY <2>1
<1>7. QED
  BY <1>2, <1>3, <1>4, <1>6 DEF MasksFollow, m

\* A label is a block.
LEMMA LabelsBlocks ==
    ASSUME Keys, NEW p \in Party
    PROVE  \A w \in Wire : Labels(p)[w] \in Block
<1> DEFINE l == Labels(p)
           S == {w \in Wire : l[w] \in Block}
<1>1. l = [w \in Wire |-> LabelStep(p, l, w)]
  BY LabelsDef
<1> HIDE DEF l
<1>2. \A w \in Wire : l[w] = LabelStep(p, l, w)
  BY <1>1
<1>3. ASSUME NEW w \in Wire, \A u \in 1..(w - 1) : u \in S
      PROVE  w \in S
  <2>1. CASE w <= NumIn \/ IsAnd(w)
    BY <1>2, <2>1, SharesAssumption DEF LabelStep
  <2>2. CASE ~(w <= NumIn \/ IsAnd(w))
    <3>1. w > NumIn
      BY <2>2, Circuit
    <3>2. l[Gate(w).a] \in Block /\ l[Gate(w).b] \in Block /\ delta[p] \in Block
      BY <1>3, <3>1, Circuit DEF Keys
    <3>3. QED
      BY <1>2, <2>2, <3>2, BlockXor DEF LabelStep
  <2>3. QED
    BY <2>1, <2>2
<1>4. \A w \in Wire : w \in S
  <2> HIDE DEF S
  <2>1. QED
    BY <1>3, WireInduction
<1>5. QED
  BY <1>4 DEF l

\* The parity of a set of parties, with one party apart.
LEMMA OddApart ==
    ASSUME NEW S \in SUBSET Party, NEW p \in Party
    PROVE  Odd(S) <=> ~(p \in S <=> Odd(S \ {p}))
<1>1. IsFiniteSet(S \ {p}) /\ IsFiniteSet({p})
  BY PartyFinite, FS_Subset, FS_Singleton
<1>2. CASE p \in S
  <2>1. S = (S \ {p}) (+) {p}
    BY <1>2 DEF (+)
  <2>2. Odd((S \ {p}) (+) {p}) <=> ~(Odd(S \ {p}) <=> Odd({p}))
    BY <1>1, OddXor
  <2>3. Odd({p})
    BY OddSmall
  <2>4. QED
    BY <1>2, <2>1, <2>2, <2>3
<1>3. CASE p \notin S
  <2>1. S = S \ {p}
    BY <1>3
  <2>2. QED
    BY <1>3, <2>1
<1>4. QED
  BY <1>2, <1>3

-----------------------------------------------------------------------------
(* The evaluation of an AND gate by party 1.                                *)

\* what is in p's row of a gate with output w, without the hash
RowContent(row, p, w, k) ==
    IF k # p THEN row.mac[p][k]
    ELSE XorOver(Others(p), [q \in Others(p) |-> row.key[p][q]])
         (+) Labels(p)[w] (+) When(row.r[p], delta[p])

\* the rows that party 1 has opened
Plain(row, w) == [j \in Others(1) |-> [k \in Party |-> RowContent(row, j, w, k)]]

\* what party 1 makes of opened rows
Result(row, plain) ==
    [bit |-> row.r[1] # Odd({j \in Others(1) : plain[j][1] # row.key[1][j]
                                              /\ plain[j][1] = row.key[1][j] (+) delta[1]}),
     lab |-> [k \in Others(1) |-> row.mac[1][k] (+) XorOver(Others(1), [j \in Others(1) |-> plain[j][k]])],
     match |-> \A j \in Others(1) :
                  plain[j][1] \in {row.key[1][j], row.key[1][j] (+) delta[1]}]

\* The labels of the masked inputs open the rows.
LEMMA RowOpens ==
    ASSUME NEW w, NEW u, NEW v, NEW la, NEW lb,
           \A j \in Others(1) : /\ la[j] = Labels(j)[Gate(w).a] (+) When(u, delta[j])
                                /\ lb[j] = Labels(j)[Gate(w).b] (+) When(v, delta[j])
    PROVE  EvaluateAnd(w, u, v, la, lb) = Result(Row(w, u, v), Plain(Row(w, u, v), w))
<1> DEFINE row == Row(w, u, v)
           g(j, k) == G(la[j], lb[j], <<AndIndex(w), u, v>>, k)
           plain == [j \in Others(1) |-> [k \in Party |-> g(j, k) (+) GarbledRow(j, w, u, v)[k]]]
<1>1. ASSUME NEW j \in Others(1), NEW k \in Party
      PROVE  g(j, k) (+) GarbledRow(j, w, u, v)[k] = RowContent(row, j, w, k)
  <2>1. GarbledRow(j, w, u, v)[k] = g(j, k) (+) RowContent(row, j, w, k)
    BY <1>1 DEF GarbledRow, RowContent
  <2> HIDE DEF g
  <2>2. QED
    BY <2>1, XorBlocks
<1>2. plain = Plain(row, w)
  <2> HIDE DEF g, row
  <2>1. QED
    BY <1>1 DEF Plain
<1>3. EvaluateAnd(w, u, v, la, lb) = Result(row, plain)
  BY DEF EvaluateAnd, Result
<1> HIDE DEF plain
<1>4. QED
  BY <1>2, <1>3

\* Party 1 finds the masked output in the MACs of the others' shares.
LEMMA BitOpens ==
    ASSUME Keys, NEW row, Sound(row), NEW w
    PROVE  LET plain == Plain(row, w)
           IN  /\ \A j \in Others(1) : plain[j][1] \in {row.key[1][j], row.key[1][j] (+) delta[1]}
               /\ Open(row.r) <=>
                    (row.r[1] # Odd({j \in Others(1) : plain[j][1] # row.key[1][j]
                                                      /\ plain[j][1] = row.key[1][j] (+) delta[1]}))
<1> DEFINE plain == Plain(row, w)
           T == {j \in Others(1) : plain[j][1] # row.key[1][j] /\ plain[j][1] = row.key[1][j] (+) delta[1]}
           R == {p \in Party : row.r[p]}
<1>1. \A p \in Party : row.r[p] \in BOOLEAN
  BY DEF Sound, AShare, Shares
<1>2. 1 \in Party /\ delta[1] # {}
  BY PartyFinite DEF Keys
<1>3. ASSUME NEW j \in Others(1)
      PROVE  /\ plain[j][1] = row.key[1][j] (+) When(row.r[j], delta[1])
             /\ j \in Party /\ j # 1
  <2>1. j \in Party /\ j # 1
    BY DEF Others
  <2>2. plain[j][1] = row.mac[j][1]
    BY <1>2, <2>1 DEF Plain, RowContent
  <2>3. QED
    BY <1>2, <2>1, <2>2 DEF Sound, Valid, OpenedTo, Others
<1> HIDE DEF plain
<1>4. \A j \in Others(1) : plain[j][1] \in {row.key[1][j], row.key[1][j] (+) delta[1]}
  <2> SUFFICES ASSUME NEW j \in Others(1)
               PROVE  plain[j][1] \in {row.key[1][j], row.key[1][j] (+) delta[1]}
    OBVIOUS
  <2>1. When(row.r[j], delta[1]) \in {{}, delta[1]}
    BY DEF When
  <2>2. QED
    BY <1>3, <2>1, XorNothing
<1>5. ASSUME NEW j \in Others(1) PROVE j \in T <=> row.r[j]
  <2>1. CASE row.r[j] = TRUE
    <3>1. plain[j][1] = row.key[1][j] (+) delta[1]
      BY <1>3, <2>1 DEF When
    <3>2. row.key[1][j] (+) delta[1] # row.key[1][j]
      BY <1>2 DEF (+)
    <3>3. QED
      BY <2>1, <3>1, <3>2
  <2>2. CASE row.r[j] = FALSE
    <3>1. plain[j][1] = row.key[1][j]
      <4>1. When(row.r[j], delta[1]) = {}
        BY <2>2 DEF When
      <4>2. QED
        BY <1>3, <4>1, XorNothing
    <3>2. QED
      BY <2>2, <3>1
  <2>3. QED
    BY <1>1, <1>3, <2>1, <2>2
<1>6. T = R \ {1}
  <2>1. T \subseteq Others(1)
    OBVIOUS
  <2> HIDE DEF T
  <2>2. QED
    BY <1>5, <2>1 DEF Others
<1>7. Odd(R) <=> ~(1 \in R <=> Odd(R \ {1}))
  BY <1>2, OddApart
<1> HIDE DEF T
<1>8. Open(row.r) <=> (row.r[1] # Odd(T))
  <2>1. Open(row.r) <=> Odd(R)
    BY DEF Open
  <2>2. 1 \in R <=> row.r[1]
    BY <1>2
  <2>3. Odd(T) \in BOOLEAN /\ row.r[1] \in BOOLEAN
    BY <1>1, <1>2 DEF Odd
  <2> HIDE DEF R
  <2>4. QED
    BY <1>6, <1>7, <2>1, <2>2, <2>3
<1>9. QED
  BY <1>4, <1>8 DEF plain, T

\* So the row opens, to a bit that the shares of the row open to.
LEMMA ResultBit ==
    ASSUME Keys, NEW row, Sound(row), NEW w
    PROVE  LET res == Result(row, Plain(row, w))
           IN  res.match /\ res.bit \in BOOLEAN /\ (Open(row.r) <=> res.bit)
<1> DEFINE plain == Plain(row, w)
           T == {j \in Others(1) : plain[j][1] # row.key[1][j] /\ plain[j][1] = row.key[1][j] (+) delta[1]}
           m == \A j \in Others(1) : plain[j][1] \in {row.key[1][j], row.key[1][j] (+) delta[1]}
           b == row.r[1] # Odd(T)
<1>1. m /\ (Open(row.r) <=> b)
  BY BitOpens
<1>2. Result(row, plain).match = m /\ Result(row, plain).bit = b
  BY DEF Result
<1>3. m \in BOOLEAN /\ b \in BOOLEAN
  OBVIOUS
<1> HIDE DEF m, b, plain
<1>4. QED
  BY <1>1, <1>2, <1>3 DEF plain

\* The blocks for k add up to k's label of the masked output: the MACs cancel
\* against k's keys and leave one global key per share that is set.
LEMMA LabelOpens ==
    ASSUME Keys, NEW row, Sound(row), NEW w \in Wire, NEW k \in Others(1)
    PROVE  row.mac[1][k] (+) XorOver(Others(1), [j \in Others(1) |-> Plain(row, w)[j][k]])
           = Labels(k)[w] (+) When(Open(row.r), delta[k])
<1> DEFINE f == [j \in Others(1) |-> Plain(row, w)[j][k]]
           lhs == row.mac[1][k] (+) XorOver(Others(1), f)
           rhs == Labels(k)[w] (+) When(Open(row.r), delta[k])
           R == {p \in Party : row.r[p]}
<1>0. k \in Party /\ k # 1 /\ 1 \in Party
  BY PartyFinite DEF Others
<1>1. /\ \A p \in Party : row.r[p] \in BOOLEAN
      /\ \A p, q \in Party : row.mac[p][q] \in Block /\ row.key[p][q] \in Block
      /\ Labels(k)[w] \in Block /\ delta[k] \in Block
  BY <1>0, LabelsBlocks DEF Sound, AShare, Shares, Keys
<1>2. Open(row.r) <=> ~(row.r[k] <=> Odd(R \ {k}))
  <2>1. Odd(R) <=> ~(k \in R <=> Odd(R \ {k}))
    BY <1>0, OddApart
  <2>2. QED
    BY <1>0, <2>1 DEF Open
<1>3. lhs \subseteq Bits /\ rhs \subseteq Bits
  <2>1. XorOver(Others(1), f) \in Block /\ Open(row.r) \in BOOLEAN
    BY DEF XorOver, Block, Open, Odd
  <2> HIDE DEF f
  <2>2. lhs \in Block /\ rhs \in Block
    BY <1>0, <1>1, <2>1, BlockXor
  <2>3. QED
    BY <2>2 DEF Block
<1>4. ASSUME NEW x \in Bits PROVE x \in lhs <=> x \in rhs
  <2> DEFINE Z == {j \in Others(1) : x \in f[j]}
             M == {j \in Others(k) : x \in row.mac[j][k]}
             K == {j \in Others(k) : x \in row.key[k][j]}
             D == {j \in Others(k) : row.r[j] /\ x \in delta[k]}
             keys == [q \in Others(k) |-> row.key[k][q]]
  <2>1. x \in lhs <=> ~(1 \in M <=> Odd(Z))
    <3>1. x \in XorOver(Others(1), f) <=> Odd(Z)
      BY DEF XorOver
    <3>2. 1 \in M <=> x \in row.mac[1][k]
      BY <1>0 DEF Others
    <3> HIDE DEF Z, M, f
    <3>3. QED
      BY <3>1, <3>2 DEF (+)
  <2>2. Z \in SUBSET Party /\ M \in SUBSET Party /\ K \in SUBSET Party /\ D \in SUBSET Party
    BY DEF Others
  <2>3. Z \ {k} = M \ {1}
    <3>1. ASSUME NEW j \in Party, j # 1, j # k PROVE f[j] = row.mac[j][k]
      BY <1>0, <3>1 DEF Plain, RowContent, Others
    <3> HIDE DEF f
    <3>2. QED
      BY <1>0, <3>1 DEF Others
  <2>4. k \in Z <=> ~(~(Odd(K) <=> x \in Labels(k)[w]) <=> (row.r[k] /\ x \in delta[k]))
    <3>1. f[k] = XorOver(Others(k), keys) (+) Labels(k)[w] (+) When(row.r[k], delta[k])
      BY <1>0 DEF Plain, RowContent
    <3>2. x \in XorOver(Others(k), keys) <=> Odd(K)
      <4>1. {i \in Others(k) : x \in keys[i]} = K
        OBVIOUS
      <4>2. QED
        BY <4>1 DEF XorOver
    <3>3. x \in When(row.r[k], delta[k]) <=> (row.r[k] /\ x \in delta[k])
      BY <1>0, <1>1 DEF When
    <3> HIDE DEF K, keys, f
    <3>4. QED
      BY <3>1, <3>2, <3>3 DEF (+)
  <2>5. M = K (+) D
    <3>1. ASSUME NEW j \in Others(k)
          PROVE  x \in row.mac[j][k] <=> ~(x \in row.key[k][j] <=> (row.r[j] /\ x \in delta[k]))
      <4>1. row.mac[j][k] = row.key[k][j] (+) When(row.r[j], delta[k])
        BY <1>0 DEF Sound, Valid, OpenedTo
      <4>2. row.r[j] \in BOOLEAN
        BY <1>1 DEF Others
      <4>3. QED
        BY <4>1, <4>2 DEF (+), When
    <3>2. QED
      BY <3>1 DEF (+)
  <2>6. Odd(D) <=> x \in delta[k] /\ Odd(R \ {k})
    <3>1. CASE x \in delta[k]
      <4>1. D = R \ {k}
        BY <3>1 DEF Others
      <4>2. QED
        BY <3>1, <4>1
    <3>2. CASE x \notin delta[k]
      <4>1. D = {}
        BY <3>2
      <4>2. QED
        BY <3>2, <4>1, OddSmall
    <3>3. QED
      BY <3>1, <3>2
  <2>7. x \in rhs <=> ~(x \in Labels(k)[w] <=> (Open(row.r) /\ x \in delta[k]))
    BY DEF (+), When
  <2> HIDE DEF Z, M, K, D, lhs, rhs, R
  <2>8. (Odd(Z) <=> ~(k \in Z <=> Odd(Z \ {k}))) /\ (Odd(M) <=> ~(1 \in M <=> Odd(M \ {1})))
    BY <1>0, <2>2, OddApart
  <2>9. Odd(M) <=> ~(Odd(K) <=> Odd(D))
    BY <2>2, <2>5, OddXor, PartyFinite, FS_Subset
  <2>10. QED
    BY <1>0, <1>1, <1>2, <2>1, <2>3, <2>4, <2>6, <2>7, <2>8, <2>9
<1> HIDE DEF lhs, rhs
<1>5. lhs = rhs
  BY <1>3, <1>4
<1>6. QED
  BY <1>5 DEF lhs, rhs

-----------------------------------------------------------------------------
(* The evaluation of the circuit.                                           *)

\* the products of the masks, as function_dependent leaves them
ProductsFollow ==
    /\ DOMAIN sigma = Ands
    /\ \A w \in Ands :
          /\ Sound(sigma[w])
          /\ Open(sigma[w].r) <=> Open(mask[Gate(w).a].r) /\ Open(mask[Gate(w).b].r)

\* what party 1 holds for wire w belongs to the value val[w]
Tracks(ev, val, w) ==
    /\ ev[w].match /\ ev[w].bit \in BOOLEAN /\ val[w] \in BOOLEAN
    /\ ev[w].bit <=> ~(val[w] <=> Open(mask[w].r))
    /\ \A j \in Others(1) : ev[w].lab[j] = Labels(j)[w] (+) When(ev[w].bit, delta[j])

LEMMA TracksAnd ==
    ASSUME Keys, MasksFollow(mask), ProductsFollow, NEW ev, NEW val,
           NEW w \in Wire, w > NumIn, Gate(w).op = "AND",
           Tracks(ev, val, Gate(w).a), Tracks(ev, val, Gate(w).b),
           ev[w] = EvaluateAnd(w, ev[Gate(w).a].bit, ev[Gate(w).b].bit, ev[Gate(w).a].lab, ev[Gate(w).b].lab),
           val[w] = (val[Gate(w).a] /\ val[Gate(w).b])
    PROVE  Tracks(ev, val, w)
<1> DEFINE u == ev[Gate(w).a].bit
           v == ev[Gate(w).b].bit
           la == ev[Gate(w).a].lab
           lb == ev[Gate(w).b].lab
           row == Row(w, u, v)
<1>1. /\ u \in BOOLEAN /\ v \in BOOLEAN
      /\ val[Gate(w).a] \in BOOLEAN /\ val[Gate(w).b] \in BOOLEAN
      /\ u <=> ~(val[Gate(w).a] <=> Open(mask[Gate(w).a].r))
      /\ v <=> ~(val[Gate(w).b] <=> Open(mask[Gate(w).b].r))
  BY DEF Tracks
<1>2. \A j \in Others(1) : /\ la[j] = Labels(j)[Gate(w).a] (+) When(u, delta[j])
                           /\ lb[j] = Labels(j)[Gate(w).b] (+) When(v, delta[j])
  BY DEF Tracks
<1>3. /\ w \in Ands
      /\ Sound(mask[w]) /\ Sound(mask[Gate(w).a]) /\ Sound(mask[Gate(w).b])
  BY Circuit DEF Ands, IsAnd, MasksFollow
<1>4. Sound(sigma[w]) /\ (Open(sigma[w].r) <=> Open(mask[Gate(w).a].r) /\ Open(mask[Gate(w).b].r))
  BY <1>3 DEF ProductsFollow
<1>5. ev[w] = EvaluateAnd(w, u, v, la, lb)
  OBVIOUS
<1> HIDE DEF u, v, la, lb
<1>6. ev[w] = Result(row, Plain(row, w))
  BY <1>2, <1>5, RowOpens
<1>7. /\ Sound(row)
      /\ Open(row.r) <=> ~(Open(mask[w].r) <=> (~(u <=> Open(mask[Gate(w).a].r))
                                                /\ ~(v <=> Open(mask[Gate(w).b].r))))
  BY <1>1, <1>3, <1>4, RowSound
<1> HIDE DEF row
<1>8. ev[w].match /\ ev[w].bit \in BOOLEAN /\ (Open(row.r) <=> ev[w].bit)
  BY <1>6, <1>7, ResultBit
<1>9. ev[w].bit = Open(row.r)
  BY <1>8 DEF Open, Odd
<1>10. ASSUME NEW j \in Others(1)
       PROVE  ev[w].lab[j] = Labels(j)[w] (+) When(ev[w].bit, delta[j])
  <2>1. ev[w].lab[j] = row.mac[1][j] (+) XorOver(Others(1), [i \in Others(1) |-> Plain(row, w)[i][j]])
    BY <1>6 DEF Result
  <2>2. QED
    BY <1>7, <1>9, <2>1, LabelOpens
<1>11. val[w] \in BOOLEAN /\ (ev[w].bit <=> ~(val[w] <=> Open(mask[w].r)))
  BY <1>1, <1>7, <1>8
<1>12. QED
  BY <1>8, <1>10, <1>11 DEF Tracks

LEMMA TracksXor ==
    ASSUME Keys, MasksFollow(mask), NEW ev, NEW val,
           NEW w \in Wire, w > NumIn, Gate(w).op = "XOR",
           Tracks(ev, val, Gate(w).a), Tracks(ev, val, Gate(w).b),
           ev[w] = [bit |-> ev[Gate(w).a].bit # ev[Gate(w).b].bit, match |-> TRUE,
                    lab |-> [j \in Others(1) |-> ev[Gate(w).a].lab[j] (+) ev[Gate(w).b].lab[j]]],
           val[w] = (val[Gate(w).a] # val[Gate(w).b])
    PROVE  Tracks(ev, val, w)
<1> DEFINE u == ev[Gate(w).a].bit
           v == ev[Gate(w).b].bit
<1>1. /\ u \in BOOLEAN /\ v \in BOOLEAN
      /\ val[Gate(w).a] \in BOOLEAN /\ val[Gate(w).b] \in BOOLEAN
      /\ u <=> ~(val[Gate(w).a] <=> Open(mask[Gate(w).a].r))
      /\ v <=> ~(val[Gate(w).b] <=> Open(mask[Gate(w).b].r))
  BY DEF Tracks
<1>2. Open(mask[w].r) <=> ~(Open(mask[Gate(w).a].r) <=> Open(mask[Gate(w).b].r))
  <2>1. /\ mask[w] = Xor(mask[Gate(w).a], mask[Gate(w).b])
        /\ Sound(mask[Gate(w).a]) /\ Sound(mask[Gate(w).b])
    BY Circuit DEF MasksFollow
  <2>2. QED
    BY <2>1, XorSound
<1>3. ev[w].match /\ ev[w].bit = (u # v)
  OBVIOUS
<1>4. ASSUME NEW j \in Others(1)
      PROVE  ev[w].lab[j] = Labels(j)[w] (+) When(ev[w].bit, delta[j])
  <2>1. ev[w].lab[j] = ev[Gate(w).a].lab[j] (+) ev[Gate(w).b].lab[j]
    OBVIOUS
  <2>2. /\ ev[Gate(w).a].lab[j] = Labels(j)[Gate(w).a] (+) When(u, delta[j])
        /\ ev[Gate(w).b].lab[j] = Labels(j)[Gate(w).b] (+) When(v, delta[j])
    BY DEF Tracks
  <2>3. Labels(j)[w] = Labels(j)[Gate(w).a] (+) Labels(j)[Gate(w).b]
    <3> DEFINE l == Labels(j)
    <3>1. l = [x \in Wire |-> LabelStep(j, l, x)]
      BY LabelsDef
    <3> HIDE DEF l
    <3>2. l[w] = LabelStep(j, l, w)
      BY <3>1
    <3>3. QED
      BY <3>2, Circuit DEF LabelStep, IsAnd, l
  <2> HIDE DEF u, v
  <2>4. QED
    BY <1>1, <1>3, <2>1, <2>2, <2>3, MacAlgebra
<1> HIDE DEF u, v
<1>5. val[w] \in BOOLEAN /\ ev[w].bit \in BOOLEAN /\ (ev[w].bit <=> ~(val[w] <=> Open(mask[w].r)))
  BY <1>1, <1>2, <1>3
<1>6. QED
  BY <1>3, <1>4, <1>5 DEF Tracks

LEMMA TracksNot ==
    ASSUME Keys, MasksFollow(mask), NEW ev, NEW val,
           NEW w \in Wire, w > NumIn, Gate(w).op = "NOT",
           Tracks(ev, val, Gate(w).a),
           ev[w] = [bit |-> ~ev[Gate(w).a].bit, match |-> TRUE, lab |-> ev[Gate(w).a].lab],
           val[w] = ~val[Gate(w).a]
    PROVE  Tracks(ev, val, w)
<1> DEFINE u == ev[Gate(w).a].bit
<1>1. /\ u \in BOOLEAN /\ val[Gate(w).a] \in BOOLEAN
      /\ u <=> ~(val[Gate(w).a] <=> Open(mask[Gate(w).a].r))
  BY DEF Tracks
<1>2. mask[w] = mask[Gate(w).a]
  BY DEF MasksFollow
<1>3. ev[w].match /\ ev[w].bit = ~u
  OBVIOUS
<1>4. ASSUME NEW j \in Others(1)
      PROVE  ev[w].lab[j] = Labels(j)[w] (+) When(ev[w].bit, delta[j])
  <2>1. ev[w].lab[j] = Labels(j)[Gate(w).a] (+) When(u, delta[j])
    BY DEF Tracks
  <2>2. Labels(j)[w] = Labels(j)[Gate(w).a] (+) delta[j]
    <3> DEFINE l == Labels(j)
    <3>1. l = [x \in Wire |-> LabelStep(j, l, x)]
      BY LabelsDef
    <3> HIDE DEF l
    <3>2. l[w] = LabelStep(j, l, w)
      BY <3>1
    <3>3. QED
      BY <3>2, Circuit DEF LabelStep, IsAnd, l
  <2>3. When(TRUE, delta[j]) = delta[j] /\ ev[w].bit = (u # TRUE)
    BY <1>1, <1>3 DEF When
  <2> HIDE DEF u
  <2>4. (Labels(j)[Gate(w).a] (+) When(TRUE, delta[j])) (+) When(u # TRUE, delta[j])
          = Labels(j)[Gate(w).a] (+) When(u, delta[j])
    <3>1. CASE u = TRUE
      BY <3>1 DEF When, (+)
    <3>2. CASE u = FALSE
      BY <3>2 DEF When, (+)
    <3>3. QED
      BY <1>1, <3>1, <3>2
  <2>5. QED
    BY <2>1, <2>2, <2>3, <2>4
<1> HIDE DEF u
<1>5. val[w] \in BOOLEAN /\ ev[w].bit \in BOOLEAN /\ (ev[w].bit <=> ~(val[w] <=> Open(mask[w].r)))
  BY <1>1, <1>2, <1>3
<1>6. QED
  BY <1>3, <1>4, <1>5 DEF Tracks

\* If the inputs are masked with their masks, every wire is tracked.
LEMMA CircuitTracks ==
    ASSUME Keys, MasksFollow(mask), ProductsFollow, NEW x, NEW y,
           \A w \in Inputs : /\ x[w] \in BOOLEAN /\ y[w] \in BOOLEAN
                             /\ x[w] <=> ~(y[w] <=> Open(mask[w].r))
    PROVE  \A w \in Wire : Tracks(EvaluateCircuit(x), PlainValues(y), w)
<1> DEFINE ev == EvaluateCircuit(x)
           val == PlainValues(y)
           S == {w \in Wire : Tracks(ev, val, w)}
<1>1. ev = [w \in Wire |-> EvalStep(x, ev, w)]
  BY EvalDef
<1>2. val = [w \in Wire |-> PlainStep(y, val, w)]
  BY PlainDef
<1> HIDE DEF ev, val
<1>3. \A w \in Wire : ev[w] = EvalStep(x, ev, w) /\ val[w] = PlainStep(y, val, w)
  BY <1>1, <1>2
<1>4. ASSUME NEW w \in Wire, \A u \in 1..(w - 1) : u \in S
      PROVE  w \in S
  <2>1. CASE w <= NumIn
    <3>1. w \in Inputs
      BY <2>1, Circuit DEF Inputs
    <3>2. /\ ev[w] = [bit |-> x[w], match |-> TRUE,
                      lab |-> [j \in Others(1) |-> Labels(j)[w] (+) When(x[w], delta[j])]]
          /\ val[w] = y[w]
      BY <1>3, <2>1 DEF EvalStep, PlainStep
    <3>3. QED
      BY <3>1, <3>2 DEF Tracks
  <2>2. CASE ~(w <= NumIn)
    <3>0. w > NumIn /\ Gate(w).op \in {"AND", "XOR", "NOT"}
      BY <2>2, Circuit
    <3>1. Tracks(ev, val, Gate(w).a) /\ Tracks(ev, val, Gate(w).b)
      BY <1>4, <3>0, Circuit
    <3>2. CASE Gate(w).op = "AND"
      <4>1. /\ ev[w] = EvaluateAnd(w, ev[Gate(w).a].bit, ev[Gate(w).b].bit,
                                   ev[Gate(w).a].lab, ev[Gate(w).b].lab)
            /\ val[w] = (val[Gate(w).a] /\ val[Gate(w).b])
        BY <1>3, <2>2, <3>2 DEF EvalStep, PlainStep
      <4>2. QED
        BY <3>0, <3>1, <3>2, <4>1, TracksAnd
    <3>3. CASE Gate(w).op = "XOR"
      <4>1. /\ ev[w] = [bit |-> ev[Gate(w).a].bit # ev[Gate(w).b].bit, match |-> TRUE,
                        lab |-> [j \in Others(1) |-> ev[Gate(w).a].lab[j] (+) ev[Gate(w).b].lab[j]]]
            /\ val[w] = (val[Gate(w).a] # val[Gate(w).b])
        BY <1>3, <2>2, <3>3 DEF EvalStep, PlainStep
      <4>2. QED
        BY <3>0, <3>1, <3>3, <4>1, TracksXor
    <3>4. CASE Gate(w).op = "NOT"
      <4>1. /\ ev[w] = [bit |-> ~ev[Gate(w).a].bit, match |-> TRUE, lab |-> ev[Gate(w).a].lab]
            /\ val[w] = ~val[Gate(w).a]
        BY <1>3, <2>2, <3>4 DEF EvalStep, PlainStep
      <4>2. QED
        BY <3>0, <3>1, <3>4, <4>1, TracksNot
    <3>5. QED
      BY <3>0, <3>2, <3>3, <3>4
  <2>3. QED
    BY <2>1, <2>2
<1>5. \A w \in Wire : w \in S
  <2> HIDE DEF S
  <2>1. QED
    BY <1>4, WireInduction
<1>6. QED
  BY <1>5 DEF ev, val

-----------------------------------------------------------------------------
(* The phases.                                                              *)

\* the values of the wires in the clear
InTheClear == PlainValues([w \in Inputs |-> Open(inputs[w])])

Triples == [a : AShare, b : AShare, c : AShare]

TripleInv ==
    /\ bucket \in Seq(Triples) /\ Len(bucket) <= Bucket
    /\ triples \in Seq(Triples)
    /\ \A i \in 1..Len(bucket) : GoodTriple(bucket[i])
    /\ \A i \in 1..Len(triples) : GoodTriple(triples[i])
    /\ stage = "dependent" => Len(triples) = Cardinality(Ands)

MaskInv ==
    IF stage \in {"triples", "dependent"}
    THEN mask = <<>> /\ sigma = <<>>
    ELSE MasksFollow(mask) /\ ProductsFollow

InputInv ==
    stage \in {"evaluate", "output", "done"} =>
        \A w \in Inputs : masked[w] \in BOOLEAN /\ (masked[w] <=> ~(Open(inputs[w]) <=> Open(mask[w].r)))

SeenInv ==
    IF stage \in {"output", "done"}
    THEN \A w \in Wire : Tracks(seen, InTheClear, w)
    ELSE seen = <<>>

OutputInv ==
    IF stage = "done"
    THEN /\ DOMAIN outputs = Outputs
         /\ \A w \in Outputs :
               /\ Sound(outputs[w].share)
               /\ Open(outputs[w].share.r) <=> InTheClear[w]
               /\ \A p \in DOMAIN outputs[w].bit :
                     outputs[w].bit[p] \in BOOLEAN /\ (outputs[w].bit[p] <=> InTheClear[w])
    ELSE outputs = <<>>

\* The inductive invariant: in every phase, what the earlier ones left is sound.
SharesInv ==
    /\ Keys
    /\ stage \in {"triples", "dependent", "input", "evaluate", "output", "done"}
    /\ cheat = FALSE
    /\ TripleInv /\ MaskInv /\ InputInv /\ SeenInv /\ OutputInv

LEMMA CombineTyped ==
    ASSUME Keys, NEW ts \in Seq(Triples), Len(ts) # 0, \A k \in 1..Len(ts) : GoodTriple(ts[k])
    PROVE  GoodTriple(Combine(ts)) /\ Combine(ts) \in Triples
<1> DEFINE n == Len(ts)
<1>0. n \in Nat \ {0}
  OBVIOUS
<1>1. GoodTriple(Combine(ts))
  BY <1>0, CombineGood
<1>2. PICK f : /\ f = [k \in 1..n |-> IF k = 1 THEN ts[1] ELSE Joined(ts, f[k - 1], k)]
               /\ Combine(ts) = f[n]
  BY <1>0, CombineDef
<1>3. CASE n = 1
  <2>1. Combine(ts) = ts[1]
    BY <1>2, <1>3
  <2>2. QED
    BY <1>1, <1>3, <2>1
<1>4. CASE n # 1
  <2> HIDE DEF n
  <2>0. n \in 1..n
    BY <1>0
  <2>1. Combine(ts) = Joined(ts, f[n - 1], n)
    BY <1>2, <1>4, <2>0
  <2>2. PICK x, y, z : Combine(ts) = [a |-> x, b |-> y, c |-> z]
    BY <2>1 DEF Joined
  <2>3. QED
    BY <1>1, <2>2 DEF GoodTriple, Sound, Triples
<1>5. QED
  BY <1>3, <1>4

LEMMA InitShares == Init => SharesInv
<1> SUFFICES ASSUME Init PROVE SharesInv
  OBVIOUS
<1>1. Keys
  BY SharesAssumption DEF Init, Keys
<1>2. TripleInv
  BY SharesAssumption DEF Init, TripleInv
<1>3. QED
  BY <1>1, <1>2 DEF Init, SharesInv, MaskInv, InputInv, SeenInv, OutputInv

LEMMA LeakyTripleStep ==
    ASSUME SharesInv, LeakyTriple
    PROVE  SharesInv'
<1>0. /\ stage = "triples" /\ Len(bucket) < Bucket /\ Keys /\ TripleInv
      /\ UNCHANGED <<delta, stage, triples, mask, sigma, assigned, inputs, masked, seen, outputs>>
  BY DEF LeakyTriple, SharesInv
<1>1. PICK x, y, z \in TripleShares, s \in Pads :
          LET i == 3 * Len(bucket)
              t == LeakyAnd(Abit(i, x), Abit(i + 1, y), Abit(i + 2, z), s, i)
          IN  /\ bucket' = Append(bucket, t)
              /\ cheat' = (cheat \/ ~AndCheck(t, i))
  BY DEF LeakyTriple
<1> DEFINE i == 3 * Len(bucket)
           t == LeakyAnd(Abit(i, x), Abit(i + 1, y), Abit(i + 2, z), s, i)
<1>2. Sound(Abit(i, x)) /\ Sound(Abit(i + 1, y)) /\ Sound(Abit(i + 2, z))
  <2>1. x \in Shares /\ y \in Shares /\ z \in Shares
    BY SharesAssumption DEF Shares
  <2>2. i \in KeyIndex /\ i + 1 \in KeyIndex /\ i + 2 \in KeyIndex
    <3>1. Len(bucket) \in Nat /\ Len(bucket) + 1 <= Bucket /\ Bucket \in Nat
      BY <1>0, SharesAssumption DEF TripleInv
    <3>2. i \in 0..(3 * Bucket) /\ i + 1 \in 0..(3 * Bucket) /\ i + 2 \in 0..(3 * Bucket)
      BY <3>1
    <3> HIDE DEF i
    <3>3. QED
      BY <3>2 DEF KeyIndex
  <2>3. QED
    BY <1>0, <2>1, <2>2, AbitSound
<1> HIDE DEF i
<1>3. GoodTriple(t)
  BY <1>0, <1>2, SharesAssumption, LeakyAndGood
<1>4. t \in Triples
  <2>1. PICK u, v, w : t = [a |-> u, b |-> v, c |-> w]
    BY DEF LeakyAnd
  <2> HIDE DEF t
  <2>2. QED
    BY <1>3, <2>1 DEF GoodTriple, Sound, Triples
<1>5. bucket' = Append(bucket, t) /\ cheat' = (cheat \/ ~AndCheck(t, i))
  BY <1>1 DEF i
<1> HIDE DEF t
<1>6. cheat' = FALSE
  <2>1. AndCheck(t, i)
    BY <1>0, <1>3, AndCheckPasses
  <2>2. QED
    BY <1>5, <2>1 DEF SharesInv
<1>7. TripleInv'
  <2>1. bucket' \in Seq(Triples) /\ Len(bucket') = Len(bucket) + 1
    BY <1>0, <1>4, <1>5 DEF TripleInv
  <2>2. \A k \in 1..Len(bucket') : GoodTriple(bucket'[k])
    <3>1. \A k \in 1..Len(bucket) : bucket'[k] = bucket[k] /\ GoodTriple(bucket[k])
      BY <1>0, <1>5 DEF TripleInv
    <3>2. bucket'[Len(bucket) + 1] = t
      BY <1>0, <1>5 DEF TripleInv
    <3>3. Len(bucket) \in Nat
      BY <1>0 DEF TripleInv
    <3>4. QED
      BY <1>3, <2>1, <3>1, <3>2, <3>3
  <2>3. \A k \in 1..Len(bucket') : GoodTriple(bucket[k])'
    BY <1>0, <2>2 DEF GoodTriple, Triple, Sound, Valid, OpenedTo, Open
  <2>4. \A k \in 1..Len(triples') : GoodTriple(triples[k])'
    <3>1. \A k \in 1..Len(triples') : GoodTriple(triples'[k])
      BY <1>0 DEF TripleInv
    <3>2. delta' = delta
      BY <1>0
    <3>3. QED
      BY <3>1, <3>2 DEF GoodTriple, Triple, Sound, Valid, OpenedTo, Open
  <2>5. QED
    BY <1>0, <2>1, <2>3, <2>4, SharesAssumption DEF TripleInv
<1>8. QED
  BY <1>0, <1>6, <1>7 DEF SharesInv, Keys, MaskInv, InputInv, SeenInv, OutputInv

LEMMA CombineStep ==
    ASSUME SharesInv, CombineBucket
    PROVE  SharesInv'
<1>0. /\ stage = "triples" /\ Len(bucket) = Bucket /\ Keys /\ TripleInv /\ cheat = FALSE
      /\ bucket' = <<>> /\ triples' = Append(triples, Combine(bucket))
      /\ stage' = IF Len(triples') = Cardinality(Ands) THEN "dependent" ELSE "triples"
      /\ UNCHANGED <<delta, mask, sigma, assigned, inputs, masked, seen, outputs, cheat>>
  BY DEF CombineBucket, SharesInv
<1>1. GoodTriple(Combine(bucket)) /\ Combine(bucket) \in Triples
  <2>1. bucket \in Seq(Triples) /\ Len(bucket) # 0 /\ \A k \in 1..Len(bucket) : GoodTriple(bucket[k])
    BY <1>0, SharesAssumption DEF TripleInv
  <2>2. QED
    BY <1>0, <2>1, CombineTyped
<1>2. TripleInv'
  <2> DEFINE t == Combine(bucket)
  <2>0. t \in Triples /\ GoodTriple(t) /\ triples' = Append(triples, t)
    BY <1>0, <1>1
  <2> HIDE DEF t
  <2>1. triples' \in Seq(Triples) /\ Len(triples') = Len(triples) + 1 /\ Len(triples) \in Nat
    BY <1>0, <2>0 DEF TripleInv
  <2>2. \A k \in 1..Len(triples') : GoodTriple(triples'[k])
    <3>1. \A k \in 1..Len(triples) : triples'[k] = triples[k] /\ GoodTriple(triples[k])
      BY <1>0, <2>0 DEF TripleInv
    <3>2. triples'[Len(triples) + 1] = t
      BY <1>0, <2>0 DEF TripleInv
    <3>3. QED
      BY <2>0, <2>1, <3>1, <3>2
  <2>3. \A k \in 1..Len(triples') : GoodTriple(triples[k])'
    BY <1>0, <2>2 DEF GoodTriple, Triple, Sound, Valid, OpenedTo, Open
  <2>4. bucket' \in Seq(Triples) /\ Len(bucket') = 0
    BY <1>0
  <2>5. stage' = "dependent" => Len(triples') = Cardinality(Ands)
    BY <1>0
  <2>6. QED
    BY <2>1, <2>3, <2>4, <2>5, SharesAssumption DEF TripleInv
<1>3. stage' \in {"triples", "dependent"}
  BY <1>0
<1>4. mask' = <<>> /\ sigma' = <<>> /\ seen' = <<>> /\ outputs' = <<>>
  BY <1>0 DEF SharesInv, MaskInv, SeenInv, OutputInv
<1>5. QED
  BY <1>0, <1>2, <1>3, <1>4 DEF SharesInv, Keys, MaskInv, InputInv, SeenInv, OutputInv

\* There is a triple for every AND gate.
LEMMA AndIndexInRange ==
    ASSUME NEW w \in Ands
    PROVE  AndIndex(w) \in 1..Cardinality(Ands)
<1> DEFINE S == {u \in Ands : u <= w}
<1>1. IsFiniteSet(Ands)
  <2>1. IsFiniteSet(1..(NumIn + Len(Gates)))
    BY Circuit, FS_Interval
  <2>2. Ands \subseteq 1..(NumIn + Len(Gates))
    BY DEF Ands, Wire
  <2>3. QED
    BY <2>1, <2>2, FS_Subset
<1>2. S \subseteq Ands /\ w \in S
  BY Circuit DEF Ands
<1>3. IsFiniteSet(S) /\ Cardinality(S) <= Cardinality(Ands)
  BY <1>1, <1>2, FS_Subset
<1>4. Cardinality(S) \in Nat /\ Cardinality(Ands) \in Nat /\ Cardinality(S) # 0
  BY <1>1, <1>2, <1>3, FS_CardinalityType, FS_EmptySet
<1> HIDE DEF S
<1>5. QED
  BY <1>3, <1>4 DEF AndIndex, S

LEMMA DependentStep ==
    ASSUME SharesInv, FunctionDependent
    PROVE  SharesInv'
<1>0. /\ stage = "dependent" /\ Keys /\ TripleInv /\ cheat = FALSE
      /\ triples' = <<>> /\ stage' = "input"
      /\ UNCHANGED <<delta, bucket, assigned, inputs, masked, seen, outputs, cheat>>
  BY DEF FunctionDependent, SharesInv
<1>1. PICK pre \in [Inputs \cup Ands -> WireShares] :
          LET m == Masks([w \in DOMAIN pre |-> Abit(100 + w, pre[w])])
          IN  /\ mask' = m
              /\ sigma' = [w \in Ands |->
                             BeaverAnd(m[Gate(w).a], m[Gate(w).b], triples[AndIndex(w)])]
  BY DEF FunctionDependent
<1> DEFINE P == [w \in DOMAIN pre |-> Abit(100 + w, pre[w])]
<1>2. \A w \in Inputs \cup Ands : Sound(P[w])
  <2> SUFFICES ASSUME NEW w \in Inputs \cup Ands PROVE Sound(P[w])
    OBVIOUS
  <2>1. pre[w] \in Shares
    BY SharesAssumption DEF Shares
  <2>2. 100 + w \in KeyIndex
    BY Circuit DEF KeyIndex, Inputs, Ands, Wire
  <2>3. Sound(Abit(100 + w, pre[w]))
    BY <1>0, <2>1, <2>2, AbitSound
  <2>4. QED
    BY <2>3
<1>3. /\ mask' = Masks(P)
      /\ sigma' = [w \in Ands |-> BeaverAnd(mask'[Gate(w).a], mask'[Gate(w).b], triples[AndIndex(w)])]
  BY <1>1
<1> HIDE DEF P
<1>4. MasksFollow(mask')
  BY <1>0, <1>2, <1>3, MasksSound
<1>5. ASSUME NEW w \in Ands
      PROVE  /\ Sound(sigma'[w])
             /\ Open(sigma'[w].r) <=> Open(mask'[Gate(w).a].r) /\ Open(mask'[Gate(w).b].r)
  <2>1. Sound(mask'[Gate(w).a]) /\ Sound(mask'[Gate(w).b])
    BY <1>4, Circuit DEF MasksFollow, Ands, IsAnd
  <2>2. GoodTriple(triples[AndIndex(w)])
    BY <1>0, AndIndexInRange DEF TripleInv
  <2>3. sigma'[w] = BeaverAnd(mask'[Gate(w).a], mask'[Gate(w).b], triples[AndIndex(w)])
    BY <1>3
  <2>4. QED
    BY <1>0, <2>1, <2>2, <2>3, BeaverSound
<1>6. MasksFollow(mask)'
  BY <1>0, <1>4 DEF MasksFollow, Sound, Valid, OpenedTo
<1>7. ProductsFollow'
  <2>1. DOMAIN sigma' = Ands
    BY <1>3
  <2>2. \A w \in Ands : /\ Sound(sigma'[w])
                        /\ Open(sigma'[w].r) <=> Open(mask'[Gate(w).a].r) /\ Open(mask'[Gate(w).b].r)
    BY <1>5
  <2>3. QED
    BY <1>0, <2>1, <2>2 DEF ProductsFollow, Sound, Valid, OpenedTo, Open
<1>8. TripleInv'
  <2>1. \A k \in 1..Len(bucket') : GoodTriple(bucket'[k])
    BY <1>0 DEF TripleInv
  <2>2. \A k \in 1..Len(bucket') : GoodTriple(bucket[k])'
    <3>1. delta' = delta
      BY <1>0
    <3>2. QED
      BY <2>1, <3>1 DEF GoodTriple, Triple, Sound, Valid, OpenedTo, Open
  <2>3. QED
    BY <1>0, <2>2 DEF TripleInv
<1>9. seen' = <<>> /\ outputs' = <<>>
  BY <1>0 DEF SharesInv, SeenInv, OutputInv
<1>10. QED
  BY <1>0, <1>6, <1>7, <1>8, <1>9 DEF SharesInv, Keys, MaskInv, InputInv, SeenInv, OutputInv

\* What a phase leaves alone stays sound: soundness depends on the keys only.
LEMMA BucketStays ==
    ASSUME delta' = delta, \A k \in 1..Len(bucket') : GoodTriple(bucket'[k])
    PROVE  \A k \in 1..Len(bucket') : GoodTriple(bucket[k])'
  BY DEF GoodTriple, Triple, Sound, Valid, OpenedTo, Open

LEMMA TriplesStay ==
    ASSUME delta' = delta, \A k \in 1..Len(triples') : GoodTriple(triples'[k])
    PROVE  \A k \in 1..Len(triples') : GoodTriple(triples[k])'
  BY DEF GoodTriple, Triple, Sound, Valid, OpenedTo, Open

LEMMA ProductsStay ==
    ASSUME delta' = delta, DOMAIN sigma' = Ands,
           \A w \in Ands : /\ Sound(sigma'[w])
                           /\ Open(sigma'[w].r) <=> Open(mask'[Gate(w).a].r) /\ Open(mask'[Gate(w).b].r)
    PROVE  ProductsFollow'
  BY DEF ProductsFollow, Sound, Valid, OpenedTo, Open

LEMMA PreparedStays ==
    ASSUME TripleInv, MasksFollow(mask), ProductsFollow,
           UNCHANGED <<delta, bucket, triples, mask, sigma>>, stage' # "dependent"
    PROVE  TripleInv' /\ MasksFollow(mask)' /\ ProductsFollow'
<1>1. TripleInv'
  <2>1. /\ \A k \in 1..Len(bucket') : GoodTriple(bucket'[k])
        /\ \A k \in 1..Len(triples') : GoodTriple(triples'[k])
    BY DEF TripleInv
  <2>2. QED
    BY <2>1, BucketStays, TriplesStay DEF TripleInv
<1>2. MasksFollow(mask)'
  <2>1. MasksFollow(mask') /\ delta' = delta
    OBVIOUS
  <2>2. QED
    BY <2>1 DEF MasksFollow, Sound, Valid, OpenedTo
<1>3. ProductsFollow'
  BY ProductsStay DEF ProductsFollow
<1>4. QED
  BY <1>1, <1>2, <1>3

LEMMA MaskedInputOpens ==
    ASSUME Keys, MasksFollow(mask), NEW w \in Inputs, NEW v \in Shares
    PROVE  /\ MaskedInput(w, v) \in BOOLEAN
           /\ MaskedInput(w, v) <=> ~(Open(v) <=> Open(mask[w].r))
<1>1. mask[w].r \in Shares
  BY Circuit DEF MasksFollow, Sound, AShare, Inputs, Wire
<1>2. Open([p \in Party |-> v[p] # mask[w].r[p]]) <=> ~(Open(v) <=> Open(mask[w].r))
  BY <1>1, OpenFlipped
<1>3. /\ Open([p \in Party |-> v[p] # mask[w].r[p]]) \in BOOLEAN
      /\ Open(v) \in BOOLEAN /\ Open(mask[w].r) \in BOOLEAN
  BY DEF Open, Odd
<1>4. CASE assigned.in[w] \in {AuthShare, UnauthShare}
  <2>1. MaskedInput(w, v) = Open([p \in Party |-> v[p] # mask[w].r[p]])
    BY <1>4 DEF MaskedInput
  <2>2. QED
    BY <1>2, <1>3, <2>1
<1>5. CASE ~(assigned.in[w] \in {AuthShare, UnauthShare})
  <2>1. MaskedInput(w, v) = (Open(v) # Open(mask[w].r))
    BY <1>5 DEF MaskedInput
  <2>2. QED
    BY <1>3, <2>1
<1>6. QED
  BY <1>4, <1>5

LEMMA InputAlwaysPasses ==
    ASSUME Keys, MasksFollow(mask), NEW w \in Inputs, NEW v \in Shares
    PROVE  InputPasses(w, v)
<1>1. Sound(mask[w])
  BY Circuit DEF MasksFollow, Inputs, Wire
<1>2. 200 + w \in KeyIndex
  BY Circuit DEF KeyIndex, Inputs, Wire
<1>3. Sound(BuiltShare(w, v))
  BY <1>2, AbitSound DEF BuiltShare
<1>4. Valid(Xor(BuiltShare(w, v), mask[w]))
  BY <1>1, <1>3, XorSound DEF Sound
<1>5. Valid(mask[w])
  BY <1>1 DEF Sound
<1>6. assigned.in[w] \in Party => OpenedTo(mask[w], assigned.in[w])
  BY <1>5 DEF Valid
<1>7. QED
  BY <1>4, <1>5, <1>6 DEF InputPasses

LEMMA InputStep ==
    ASSUME SharesInv, Input
    PROVE  SharesInv'
<1>0. /\ stage = "input" /\ Keys /\ TripleInv /\ cheat = FALSE /\ stage' = "evaluate"
      /\ MasksFollow(mask) /\ ProductsFollow
      /\ UNCHANGED <<delta, bucket, triples, mask, sigma, assigned, seen, outputs>>
  BY DEF Input, SharesInv, MaskInv
<1>1. PICK ins \in [Inputs -> WireShares] :
          /\ inputs' = ins
          /\ masked' = [w \in Inputs |-> MaskedInput(w, ins[w])]
          /\ cheat' = (cheat \/ \E w \in Inputs : ~InputPasses(w, ins[w]))
  BY DEF Input
<1>2. \A w \in Inputs : ins[w] \in Shares
  BY SharesAssumption DEF Shares
<1>3. cheat' = FALSE
  BY <1>0, <1>1, <1>2, InputAlwaysPasses
<1>4. ASSUME NEW w \in Inputs
      PROVE  masked'[w] \in BOOLEAN /\ (masked'[w] <=> ~(Open(inputs'[w]) <=> Open(mask'[w].r)))
  <2>1. masked'[w] = MaskedInput(w, ins[w]) /\ inputs'[w] = ins[w] /\ mask' = mask
    BY <1>0, <1>1
  <2>2. QED
    BY <1>0, <1>2, <2>1, MaskedInputOpens
<1>5. InputInv'
  BY <1>4 DEF InputInv, Open
<1>6. TripleInv' /\ MasksFollow(mask)' /\ ProductsFollow'
  BY <1>0, PreparedStays
<1>7. seen' = <<>> /\ outputs' = <<>>
  BY <1>0 DEF SharesInv, SeenInv, OutputInv
<1>8. QED
  BY <1>0, <1>3, <1>5, <1>6, <1>7 DEF SharesInv, Keys, MaskInv, SeenInv, OutputInv

LEMMA EvaluateStep ==
    ASSUME SharesInv, Evaluate
    PROVE  SharesInv'
<1>0. /\ stage = "evaluate" /\ Keys /\ TripleInv /\ cheat = FALSE /\ stage' = "output"
      /\ MasksFollow(mask) /\ ProductsFollow /\ InputInv /\ seen' = EvaluateCircuit(masked)
      /\ UNCHANGED <<delta, bucket, triples, mask, sigma, assigned, inputs, masked, outputs, cheat>>
  BY DEF Evaluate, SharesInv, MaskInv
<1> DEFINE y == [w \in Inputs |-> Open(inputs[w])]
<1>1. \A w \in Inputs : /\ masked[w] \in BOOLEAN /\ y[w] \in BOOLEAN
                        /\ masked[w] <=> ~(y[w] <=> Open(mask[w].r))
  <2>1. \A w \in Inputs : masked[w] \in BOOLEAN /\ (masked[w] <=> ~(Open(inputs[w]) <=> Open(mask[w].r)))
    BY <1>0 DEF InputInv
  <2>2. \A w \in Inputs : Open(inputs[w]) \in BOOLEAN
    BY DEF Open, Odd
  <2>3. QED
    BY <2>1, <2>2
<1> HIDE DEF y
<1>2. \A w \in Wire : Tracks(EvaluateCircuit(masked), PlainValues(y), w)
  BY <1>0, <1>1, CircuitTracks
<1>3. InTheClear = PlainValues(y)
  BY DEF InTheClear, y
<1>4. \A w \in Wire : Tracks(seen', InTheClear, w)
  BY <1>0, <1>2, <1>3
<1>5. InTheClear' = InTheClear
  BY <1>0 DEF InTheClear, Open
<1>6. \A w \in Wire : Tracks(seen, InTheClear, w)'
  <2>1. delta' = delta /\ mask' = mask
    BY <1>0
  <2>2. \A j : Labels(j)' = Labels(j)
    BY <2>1 DEF Labels
  <2>3. QED
    BY <1>4, <1>5, <2>1, <2>2 DEF Tracks, Open
<1>7. InputInv'
  BY <1>0 DEF InputInv, Open
<1>8. TripleInv' /\ MasksFollow(mask)' /\ ProductsFollow'
  BY <1>0, PreparedStays
<1>9. outputs' = <<>>
  BY <1>0 DEF SharesInv, OutputInv
<1>10. QED
  BY <1>0, <1>6, <1>7, <1>8, <1>9 DEF SharesInv, Keys, MaskInv, SeenInv, OutputInv

\* The others read the masked output off the label that party 1 returns.
LEMMA OutputOpens ==
    ASSUME Keys, NEW w, NEW p \in Party, seen[w].bit \in BOOLEAN,
           \A j \in Others(1) : seen[w].lab[j] = Labels(j)[w] (+) When(seen[w].bit, delta[j])
    PROVE  LabelKnown(p, w) /\ MaskedOutput(p, w) = seen[w].bit
<1>1. CASE p = 1
  BY <1>1 DEF LabelKnown, MaskedOutput
<1>2. CASE p # 1
  <2> DEFINE l == Labels(p)[w]
  <2>1. seen[w].lab[p] = l (+) When(seen[w].bit, delta[p]) /\ delta[p] # {}
    BY <1>2 DEF Others, Keys
  <2>2. /\ LabelKnown(p, w) <=> seen[w].lab[p] \in {l, l (+) delta[p]}
        /\ MaskedOutput(p, w) = (seen[w].lab[p] # l)
    BY <1>2 DEF LabelKnown, MaskedOutput
  <2> HIDE DEF l
  <2>3. CASE seen[w].bit = TRUE
    <3>1. seen[w].lab[p] = l (+) delta[p]
      BY <2>1, <2>3 DEF When
    <3>2. l (+) delta[p] # l
      BY <2>1 DEF (+)
    <3>3. QED
      BY <2>2, <2>3, <3>1, <3>2
  <2>4. CASE seen[w].bit = FALSE
    <3>1. seen[w].lab[p] = l
      BY <2>1, <2>4, XorNothing DEF When
    <3>2. QED
      BY <2>2, <2>4, <3>1
  <2>5. QED
    BY <2>3, <2>4
<1>3. QED
  BY <1>1, <1>2

LEMMA OutputShareSound ==
    ASSUME Keys, NEW w, Sound(mask[w]), seen[w].bit \in BOOLEAN,
           \A p \in Party : MaskedOutput(p, w) = seen[w].bit
    PROVE  /\ Sound(OutputShare(w))
           /\ Open(OutputShare(w).r) <=> ~(Open(mask[w].r) <=> seen[w].bit)
<1> DEFINE b == seen[w].bit
           x == mask[w]
<1>0. 1 \in Party
  BY PartyFinite
<1>1. OutputShare(w) = AddPublic(x, b)
  <2> DEFINE e == [p \in Party |-> b /\ p = 1]
  <2>1. [p \in Party |-> x.r[p] # (p = 1 /\ MaskedOutput(1, w))] = [p \in Party |-> x.r[p] # e[p]]
    BY <1>0
  <2>2. \A p, q \in Party :
           When(p # 1 /\ q = 1 /\ MaskedOutput(p, w), delta[p]) = When(q # p /\ e[q], delta[p])
    BY DEF When
  <2>3. [p \in Party |-> [q \in Party |-> x.key[p][q] (+) When(p # 1 /\ q = 1 /\ MaskedOutput(p, w), delta[p])]]
        = [p \in Party |-> [q \in Party |-> x.key[p][q] (+) When(q # p /\ e[q], delta[p])]]
    <3> HIDE DEF e
    <3>1. QED
      BY <2>2
  <2>4. QED
    BY <2>1, <2>3 DEF OutputShare, AddPublic, Correct
<1> HIDE DEF x, b
<1>2. Sound(AddPublic(x, b)) /\ (Open(AddPublic(x, b).r) <=> ~(Open(x.r) <=> b))
  BY AddPublicSound DEF x, b
<1>3. QED
  BY <1>1, <1>2 DEF x, b

LEMMA OutputStep ==
    ASSUME SharesInv, Output
    PROVE  SharesInv'
<1>0. /\ stage = "output" /\ Keys /\ TripleInv /\ cheat = FALSE /\ stage' = "done"
      /\ MasksFollow(mask) /\ ProductsFollow /\ InputInv
      /\ \A w \in Wire : Tracks(seen, InTheClear, w)
      /\ UNCHANGED <<delta, bucket, triples, mask, sigma, assigned, inputs, masked, seen>>
  BY DEF Output, SharesInv, MaskInv, SeenInv
<1>1. /\ outputs' = [w \in Outputs |->
          [share |-> OutputShare(w),
           bit |-> [p \in {q \in Party : Receives(q, w)} |-> OutputBit(p, w)]]]
      /\ cheat' = (cheat \/ \E w \in Outputs, p \in Party :
                    \/ ~LabelKnown(p, w)
                    \/ Receives(p, w) /\ ~OpenedTo(mask[w], p))
  BY DEF Output
<1>2. ASSUME NEW w \in Outputs
      PROVE  /\ Sound(mask[w]) /\ seen[w].bit \in BOOLEAN /\ InTheClear[w] \in BOOLEAN
             /\ seen[w].bit <=> ~(InTheClear[w] <=> Open(mask[w].r))
             /\ \A p \in Party : LabelKnown(p, w) /\ MaskedOutput(p, w) = seen[w].bit
  <2>1. w \in Wire
    BY DEF Outputs
  <2>2. Sound(mask[w]) /\ Tracks(seen, InTheClear, w)
    BY <1>0, <2>1 DEF MasksFollow
  <2>3. /\ seen[w].bit \in BOOLEAN /\ InTheClear[w] \in BOOLEAN
        /\ seen[w].bit <=> ~(InTheClear[w] <=> Open(mask[w].r))
        /\ \A j \in Others(1) : seen[w].lab[j] = Labels(j)[w] (+) When(seen[w].bit, delta[j])
    BY <2>2 DEF Tracks
  <2>4. QED
    BY <1>0, <2>2, <2>3, OutputOpens
<1>3. cheat' = FALSE
  <2>1. \A w \in Outputs, p \in Party : LabelKnown(p, w) /\ OpenedTo(mask[w], p)
    BY <1>2 DEF Sound, Valid
  <2>2. QED
    BY <1>0, <1>1, <2>1
<1>4. ASSUME NEW w \in Outputs
      PROVE  /\ Sound(outputs'[w].share)
             /\ Open(outputs'[w].share.r) <=> InTheClear[w]
             /\ \A p \in DOMAIN outputs'[w].bit :
                   outputs'[w].bit[p] \in BOOLEAN /\ (outputs'[w].bit[p] <=> InTheClear[w])
  <2>1. outputs'[w].share = OutputShare(w)
    BY <1>1
  <2>2. Sound(outputs'[w].share) /\ (Open(outputs'[w].share.r) <=> ~(Open(mask[w].r) <=> seen[w].bit))
    BY <1>0, <1>2, <2>1, OutputShareSound
  <2>3. ASSUME NEW p \in DOMAIN outputs'[w].bit
        PROVE  outputs'[w].bit[p] \in BOOLEAN /\ (outputs'[w].bit[p] <=> InTheClear[w])
    <3>1. p \in Party /\ outputs'[w].bit[p] = OutputBit(p, w)
      BY <1>1, <2>3
    <3>2. outputs'[w].bit[p] = (seen[w].bit # Open(mask[w].r))
      BY <1>2, <3>1 DEF OutputBit
    <3>3. Open(mask[w].r) \in BOOLEAN
      BY DEF Open, Odd
    <3>4. QED
      BY <1>2, <3>2, <3>3
  <2>4. Open(outputs'[w].share.r) <=> InTheClear[w]
    BY <1>2, <2>2
  <2>5. QED
    BY <2>2, <2>3, <2>4
<1>5. InTheClear' = InTheClear
  BY <1>0 DEF InTheClear, Open
<1>6. OutputInv'
  <2>1. delta' = delta /\ stage' = "done" /\ DOMAIN outputs' = Outputs
    BY <1>0, <1>1
  <2>2. \A w \in Outputs :
           /\ Sound(outputs'[w].share)
           /\ Open(outputs'[w].share.r) <=> InTheClear'[w]
           /\ \A p \in DOMAIN outputs'[w].bit :
                 outputs'[w].bit[p] \in BOOLEAN /\ (outputs'[w].bit[p] <=> InTheClear'[w])
    BY <1>4, <1>5
  <2>3. QED
    BY <2>1, <2>2 DEF OutputInv, Sound, Valid, OpenedTo, Open
<1>7. SeenInv'
  <2>1. delta' = delta /\ mask' = mask /\ seen' = seen /\ stage' = "done"
    BY <1>0
  <2>2. \A j : Labels(j)' = Labels(j)
    BY <2>1 DEF Labels
  <2>3. QED
    BY <1>0, <1>5, <2>1, <2>2 DEF SeenInv, Tracks, Open
<1>8. InputInv'
  BY <1>0 DEF InputInv, Open
<1>9. TripleInv' /\ MasksFollow(mask)' /\ ProductsFollow'
  BY <1>0, PreparedStays
<1>10. QED
  BY <1>0, <1>3, <1>6, <1>7, <1>8, <1>9 DEF SharesInv, Keys, MaskInv

LEMMA StutterStep ==
    ASSUME SharesInv, UNCHANGED vars
    PROVE  SharesInv'
<1>1. /\ TripleInv /\ delta' = delta /\ stage' = stage /\ bucket' = bucket /\ triples' = triples
      /\ mask' = mask /\ sigma' = sigma /\ inputs' = inputs /\ masked' = masked
      /\ seen' = seen /\ outputs' = outputs /\ cheat' = cheat
  BY DEF vars, SharesInv
<1>2. TripleInv'
  <2>1. /\ \A k \in 1..Len(bucket') : GoodTriple(bucket'[k])
        /\ \A k \in 1..Len(triples') : GoodTriple(triples'[k])
    BY <1>1 DEF TripleInv
  <2>2. /\ \A k \in 1..Len(bucket') : GoodTriple(bucket[k])'
        /\ \A k \in 1..Len(triples') : GoodTriple(triples[k])'
    BY <1>1, <2>1, BucketStays, TriplesStay
  <2>3. QED
    BY <1>1, <2>2 DEF TripleInv
<1>3. MaskInv'
  BY <1>1 DEF SharesInv, MaskInv, MasksFollow, ProductsFollow, Sound, Valid, OpenedTo, Open
<1>4. InTheClear' = InTheClear
  BY <1>1 DEF InTheClear, Open
<1>5. SeenInv'
  <2>1. \A j : Labels(j)' = Labels(j)
    BY <1>1 DEF Labels
  <2>2. QED
    BY <1>1, <1>4, <2>1 DEF SharesInv, SeenInv, Tracks, Open
<1>6. InputInv'
  BY <1>1 DEF SharesInv, InputInv, Open
<1>7. OutputInv'
  BY <1>1, <1>4 DEF SharesInv, OutputInv, Sound, Valid, OpenedTo, Open
<1>8. QED
  BY <1>1, <1>2, <1>3, <1>5, <1>6, <1>7 DEF SharesInv, Keys

(* In every phase what the earlier phases of function_independent,
   function_dependent, FlexIn, online and FlexOut left is sound: the inductive
   invariant of the programs.                                               *)
THEOREM SharesInvariant == Spec => []SharesInv
<1>1. Init => SharesInv
  BY InitShares
<1>2. SharesInv /\ [Next]_vars => SharesInv'
  <2> SUFFICES ASSUME SharesInv, [Next]_vars PROVE SharesInv'
    OBVIOUS
  <2>1. CASE LeakyTriple
    BY <2>1, LeakyTripleStep
  <2>2. CASE CombineBucket
    BY <2>2, CombineStep
  <2>3. CASE FunctionDependent
    BY <2>3, DependentStep
  <2>4. CASE Input
    BY <2>4, InputStep
  <2>5. CASE Evaluate
    BY <2>5, EvaluateStep
  <2>6. CASE Output
    BY <2>6, OutputStep
  <2>7. CASE Done
    BY <2>7, StutterStep DEF Done
  <2>8. CASE UNCHANGED vars
    BY <2>8, StutterStep
  <2>9. QED
    BY <2>1, <2>2, <2>3, <2>4, <2>5, <2>6, <2>7, <2>8 DEF Next
<1>3. QED
  BY <1>1, <1>2, PTL DEF Spec

(* FpreMP::compute and the Beaver step of function_dependent: for any number of
   parties, keys, hashes and shares, the triples, what a bucket combines them to
   and the products of the masks multiply.                                  *)
THEOREM TriplesMultiplyHolds == Spec => []TriplesMultiply
<1>1. SharesInv => TriplesMultiply
  <2> SUFFICES ASSUME SharesInv PROVE TriplesMultiply
    OBVIOUS
  <2>1. /\ DOMAIN bucket = 1..Len(bucket) /\ DOMAIN triples = 1..Len(triples)
        /\ \A i \in 1..Len(bucket) : Triple(bucket[i])
        /\ \A i \in 1..Len(triples) : Triple(triples[i])
    BY DEF SharesInv, TripleInv, GoodTriple
  <2>2. ASSUME NEW w \in DOMAIN sigma
        PROVE  Open(sigma[w].r) = (Open(mask[Gate(w).a].r) /\ Open(mask[Gate(w).b].r))
    <3>1. ProductsFollow
      <4>1. CASE sigma = <<>>
        BY <4>1
      <4>2. QED
        BY <4>1 DEF SharesInv, MaskInv
    <3>2. Open(sigma[w].r) <=> Open(mask[Gate(w).a].r) /\ Open(mask[Gate(w).b].r)
      BY <3>1 DEF ProductsFollow
    <3>3. Open(sigma[w].r) \in BOOLEAN
      BY DEF Open, Odd
    <3>4. QED
      BY <3>2, <3>3
  <2>3. QED
    BY <2>1, <2>2 DEF TriplesMultiply
<1>2. QED
  BY <1>1, SharesInvariant, PTL

(* Every authenticated bit that ABitMP, FpreMP, function_dependent or FlexOut
   computes carries MACs that verify under the keys of the other parties.   *)
THEOREM MacsVerifyHolds == Spec => []MacsVerify
<1>1. SharesInv => MacsVerify
  <2> SUFFICES ASSUME SharesInv PROVE MacsVerify
    OBVIOUS
  <2>1. /\ DOMAIN bucket = 1..Len(bucket) /\ DOMAIN triples = 1..Len(triples)
        /\ \A i \in 1..Len(bucket) : GoodTriple(bucket[i])
        /\ \A i \in 1..Len(triples) : GoodTriple(triples[i])
    BY DEF SharesInv, TripleInv
  <2>2. (\A w \in DOMAIN mask : Valid(mask[w])) /\ (\A w \in DOMAIN sigma : Valid(sigma[w]))
    <3>1. CASE mask = <<>> /\ sigma = <<>>
      BY <3>1
    <3>2. CASE MasksFollow(mask) /\ ProductsFollow
      BY <3>2 DEF MasksFollow, ProductsFollow, Sound
    <3>3. QED
      BY <3>1, <3>2 DEF SharesInv, MaskInv
  <2>3. \A w \in DOMAIN outputs : Valid(outputs[w].share)
    <3>1. CASE outputs = <<>>
      BY <3>1
    <3>2. CASE stage = "done"
      BY <3>2 DEF SharesInv, OutputInv, Sound
    <3>3. QED
      BY <3>1, <3>2 DEF SharesInv, OutputInv
  <2>4. QED
    BY <2>1, <2>2, <2>3 DEF MacsVerify, GoodTriple, Sound
<1>2. QED
  BY <1>1, SharesInvariant, PTL

(* The evaluation loop of online, for any circuit: on every wire party 1 holds
   each garbler's label for the masked value, and every row of an AND gate opens. *)
THEOREM EvaluationTracksWiresHolds == Spec => []EvaluationTracksWires
<1>1. SharesInv => EvaluationTracksWires
  <2> SUFFICES ASSUME SharesInv, seen # <<>>, NEW w \in Wire
               PROVE  /\ seen[w].match
                      /\ seen[w].bit = (InTheClear[w] # Open(mask[w].r))
                      /\ \A j \in Others(1) : seen[w].lab[j] = Labels(j)[w] (+) When(seen[w].bit, delta[j])
    BY DEF EvaluationTracksWires, InTheClear
  <2>1. Tracks(seen, InTheClear, w)
    BY DEF SharesInv, SeenInv
  <2>2. Open(mask[w].r) \in BOOLEAN
    BY DEF Open, Odd
  <2>3. seen[w].bit = (InTheClear[w] # Open(mask[w].r))
    BY <2>1, <2>2 DEF Tracks
  <2>4. QED
    BY <2>1, <2>3 DEF Tracks
<1>2. QED
  BY <1>1, SharesInvariant, PTL

(* FlexIn and FlexOut around online, for any circuit and any assignment of the
   inputs and the outputs: whoever receives an output receives the value of the
   circuit, and an authenticated output opens to it.                        *)
THEOREM ResultIsTheCircuitHolds == Spec => []ResultIsTheCircuit
<1>1. SharesInv => ResultIsTheCircuit
  <2> SUFFICES ASSUME SharesInv, outputs # <<>>, NEW w \in Outputs
               PROVE  /\ \A p \in DOMAIN outputs[w].bit : outputs[w].bit[p] = InTheClear[w]
                      /\ Open(outputs[w].share.r) = InTheClear[w]
    BY DEF ResultIsTheCircuit, InTheClear
  <2>1. stage = "done"
    BY DEF SharesInv, OutputInv
  <2>2. InTheClear[w] \in BOOLEAN
    BY <2>1 DEF SharesInv, SeenInv, Tracks, Outputs
  <2>3. /\ Open(outputs[w].share.r) <=> InTheClear[w]
        /\ \A p \in DOMAIN outputs[w].bit :
              outputs[w].bit[p] \in BOOLEAN /\ (outputs[w].bit[p] <=> InTheClear[w])
    BY <2>1 DEF SharesInv, OutputInv
  <2>4. Open(outputs[w].share.r) \in BOOLEAN
    BY DEF Open, Odd
  <2>5. QED
    BY <2>2, <2>3, <2>4
<1>2. QED
  BY <1>1, SharesInvariant, PTL

(* The AND check of FpreMP::compute, the MAC checks of FlexIn and FlexOut and
   the comparison of the output labels never fail between parties that follow
   the program.                                                             *)
THEOREM NoFalseCheatHolds == Spec => []NoFalseCheat
<1>1. SharesInv => NoFalseCheat
  BY DEF SharesInv, NoFalseCheat
<1>2. QED
  BY <1>1, SharesInvariant, PTL
=============================================================================
