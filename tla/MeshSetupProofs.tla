-------------------------- MODULE MeshSetupProofs ---------------------------
(***************************************************************************)
(* Proofs about MeshSetup, for every set of programs, one or two NetIOMPs, *)
(* either array of sockets over the relay, any set of fragile parties and  *)
(* number of faults.                                                       *)
(*                                                                         *)
(* A socket has a rank, the block in which its party opens it.  Behind the *)
(* current block all sockets are settled, ahead of it none is touched: so  *)
(* a party knows how far the others are from what it holds itself, which   *)
(* is what makes a port that is listened on twice safe (RightListener).    *)
(***************************************************************************)
EXTENDS MeshSetup, Integers, SequenceTheorems, TLAPS

-----------------------------------------------------------------------------
(* The sockets of a party, and the block in which each is opened.          *)

Kinds == IF Relayed THEN RelayKinds ELSE {"ios", "ios2"}

Slots(p) ==
    IF Go THEN {End(p, q, 1, "ios") : q \in Party \ {p}}
          ELSE {End(p, q, m, k) : q \in Party \ {p}, m \in 1..Meshes[prog], k \in Kinds}

\* The lower of the other two parties comes first.
First(p) == IF p = 1 THEN 2 ELSE 1

Rank(e) ==
    IF Relayed
    THEN IF Go THEN IF e.peer = RelayOrder(e.me)[1] THEN 1 ELSE 2 ELSE e.mesh
    ELSE IF Go THEN IF e.me = 1 THEN e.peer - 1 ELSE 1
               ELSE 4 * (e.mesh - 1) + (IF e.peer = First(e.me) THEN 0 ELSE 2)
                                     + (IF e.kind = "ios" THEN 1 ELSE 2)

Size(p) == Len(Blocks(p))
All == UNION {Slots(p) : p \in Party}

-----------------------------------------------------------------------------
Status == {"idle", "asked", "listening", "queued", "held", "open", "reset", "lost"}

StateType ==
    /\ prog \in Programs
    /\ block \in [Party -> 1..9]
    /\ stat \in [All -> Status]
    /\ asked \subseteq All /\ left \subseteq asked
    /\ cut \subseteq met
    /\ queue \subseteq All \X All
    /\ down \subseteq Party /\ short \subseteq Party
    /\ faults \in 0..MaxFaults

\* What lies behind a party is settled, what lies ahead of it untouched.
RankInv ==
    \A e \in All :
        /\ Rank(e) < block[e.me] => stat[e] \in {"open", "reset", "lost"}
        /\ Rank(e) > block[e.me] => stat[e] = "idle"

Raced == "map race" \in excuse

\* What a socket can be in which program.
StatInv ==
    \A e \in All :
        /\ stat[e] = "asked" => Relayed
        /\ stat[e] = "listening" => ~Relayed /\ ~Dials(e)
        /\ stat[e] = "queued" => ~Relayed /\ Dials(e)
        /\ stat[e] \in {"held", "lost"} => Go
        /\ stat[e] = "reset" => ~Relayed /\ Dials(e) /\ e.peer \in down
        /\ stat[e] = "lost" => Raced

\* A session is of two sockets made for each other.
SessionInv == \A s \in met : \E e \in asked : Mirror(e) \in asked /\ s = {e, Mirror(e)}

\* A socket got over the relay has its mirror at the other end of a session.
MetInv ==
    Relayed => \A e \in All : stat[e] \in {"held", "open", "lost"} => {e, Mirror(e)} \in met

\* The handshake that a break caught never ends well.
BrokenInv == \A s \in cut : \E e \in s : stat[e] = "asked"

\* Who waits to be accepted is at the listener it was meant for.
QueueInv ==
    \A x \in queue : /\ x[2] = Mirror(x[1])
                     /\ stat[x[1]] = "queued" /\ stat[x[2]] = "listening"

\* A socket got by a direct connection has its mirror at the other end.
LinkInv ==
    /\ \A l \in links : \E e \in All : l = {e, Mirror(e)}
    /\ \A l \in links : \A e \in l : stat[e] \in {"held", "open", "lost"}
    /\ ~Relayed => \A e \in All : stat[e] \in {"held", "open", "lost"} => {e, Mirror(e)} \in links

MeshInv ==
    /\ StateType /\ RankInv /\ StatInv /\ SessionInv /\ MetInv /\ BrokenInv
    /\ QueueInv /\ LinkInv

-----------------------------------------------------------------------------
(* A slot is its four parts.                                               *)
LEMMA EndParts ==
    ASSUME NEW p, NEW q, NEW m, NEW k
    PROVE  /\ End(p, q, m, k).me = p /\ End(p, q, m, k).peer = q
           /\ End(p, q, m, k).mesh = m /\ End(p, q, m, k).kind = k
BY DEF End

(* Which program it is settles what Go and Relayed say.                    *)
LEMMA Kind ==
    ASSUME prog \in Programs
    PROVE  /\ prog \in {"goRelay", "goDirect", "cppRelay", "cppDirect"}
           /\ Meshes[prog] \in 1..2
BY MeshAssumption

(* What was blamed stays blamed.                                           *)
LEMMA RacedStays ==
    ASSUME excuse \subseteq excuse'
    PROVE  Raced => Raced'
BY DEF Raced

(* By direct connections a NetIOMP has both arrays.                        *)
LEMMA DirectKinds ==
    ASSUME prog = "cppDirect"
    PROVE  Kinds = {"ios", "ios2"}
BY DEF Kinds, Relayed

(* The sockets of p, by their parts.                                       *)
LEMMA SlotParts ==
    ASSUME NEW p \in Party, NEW e
    PROVE  e \in Slots(p) <=>
              /\ e = End(p, e.peer, e.mesh, e.kind)
              /\ e.peer \in Party \ {p}
              /\ Go => e.mesh = 1 /\ e.kind = "ios"
              /\ ~Go => e.mesh \in 1..Meshes[prog] /\ e.kind \in Kinds
<1>1. ASSUME e \in Slots(p), Go
      PROVE  /\ e = End(p, e.peer, e.mesh, e.kind)
             /\ e.peer \in Party \ {p} /\ e.mesh = 1 /\ e.kind = "ios"
  <2>1. PICK q \in Party \ {p} : e = End(p, q, 1, "ios")
    BY <1>1 DEF Slots
  <2>2. QED
    BY <2>1, EndParts
<1>2. ASSUME e \in Slots(p), ~Go
      PROVE  /\ e = End(p, e.peer, e.mesh, e.kind)
             /\ e.peer \in Party \ {p} /\ e.mesh \in 1..Meshes[prog] /\ e.kind \in Kinds
  <2>1. PICK q \in Party \ {p}, m \in 1..Meshes[prog], k \in Kinds : e = End(p, q, m, k)
    BY <1>2 DEF Slots
  <2>2. QED
    BY <2>1, EndParts
<1>3. ASSUME e = End(p, e.peer, e.mesh, e.kind), e.peer \in Party \ {p},
             Go => e.mesh = 1 /\ e.kind = "ios",
             ~Go => e.mesh \in 1..Meshes[prog] /\ e.kind \in Kinds
      PROVE  e \in Slots(p)
  <2>1. CASE Go
    <3>1. e = End(p, e.peer, 1, "ios")
      BY <1>3, <2>1
    <3>2. QED
      BY <1>3, <2>1, <3>1 DEF Slots
  <2>2. CASE ~Go
    BY <1>3, <2>2 DEF Slots
  <2>3. QED
    BY <2>1, <2>2
<1>4. QED
  BY <1>1, <1>2, <1>3

(* The three parties.                                                      *)
LEMMA Parties == Party = {1, 2, 3}
BY DEF Party

(* Over the relay each party asks for one of the others and then the other. *)
LEMMA Orders ==
    ASSUME NEW p \in Party
    PROVE  /\ RelayOrder(p)[1] \in Party \ {p} /\ RelayOrder(p)[2] \in Party \ {p}
           /\ RelayOrder(p)[1] # RelayOrder(p)[2]
           /\ \A q \in Party \ {p} : q = RelayOrder(p)[1] \/ q = RelayOrder(p)[2]
<1>1. CASE p = 1
  <2>1. RelayOrder(p) = <<2, 3>>
    BY <1>1 DEF RelayOrder
  <2>2. QED
    BY <1>1, <2>1, Parties
<1>2. CASE p = 2
  <2>1. RelayOrder(p) = <<3, 1>>
    BY <1>2 DEF RelayOrder
  <2>2. QED
    BY <1>2, <2>1, Parties
<1>3. CASE p = 3
  <2>1. RelayOrder(p) = <<2, 1>>
    BY <1>3 DEF RelayOrder
  <2>2. QED
    BY <1>3, <2>1, Parties
<1>4. QED
  BY <1>1, <1>2, <1>3, Parties

-----------------------------------------------------------------------------
(* Blocks(p)[i] is what has rank i, in each of the four programs.          *)

Ranked(p) ==
    /\ Size(p) \in 1..8
    /\ \A e \in Slots(p) : Rank(e) \in 1..Size(p)
    /\ \A i \in 1..Size(p) : Blocks(p)[i] = {e \in Slots(p) : Rank(e) = i}

(* In Go over the relay: the order of setupTLSWithRelay.                   *)
LEMMA GoRelayRanked ==
    ASSUME prog = "goRelay", NEW p \in Party
    PROVE  Ranked(p)
<1>1. Go /\ Relayed
  BY DEF Go, Relayed
<1> DEFINE a == RelayOrder(p)[1]
           b == RelayOrder(p)[2]
<1>2. Blocks(p) = [i \in 1..2 |-> {End(p, RelayOrder(p)[i], 1, "ios")}]
  BY <1>1 DEF Blocks, GoRelayBlocks
<1>3. Size(p) = 2 /\ Blocks(p)[1] = {End(p, a, 1, "ios")} /\ Blocks(p)[2] = {End(p, b, 1, "ios")}
  BY <1>2 DEF Size
<1>4. a \in Party \ {p} /\ b \in Party \ {p} /\ a # b /\ \A q \in Party \ {p} : q = a \/ q = b
  BY Orders
<1>5. \A e : e \in Slots(p) <=> e = End(p, a, 1, "ios") \/ e = End(p, b, 1, "ios")
  <2> HIDE DEF a, b
  <2>1. \A e : e \in Slots(p) <=> \E q \in Party \ {p} : e = End(p, q, 1, "ios")
    BY <1>1 DEF Slots
  <2>2. QED
    BY <1>4, <2>1
<1>6. Rank(End(p, a, 1, "ios")) = 1 /\ Rank(End(p, b, 1, "ios")) = 2
  BY <1>1, <1>4, EndParts DEF Rank
<1> HIDE DEF a, b
<1>7. \A i \in 1..2 : i = 1 \/ i = 2
  OBVIOUS
<1>8. \A i \in 1..2 : Blocks(p)[i] = {e \in Slots(p) : Rank(e) = i}
  BY <1>3, <1>5, <1>6, <1>7
<1>9. QED
  BY <1>3, <1>5, <1>6, <1>8 DEF Ranked

(* In Go by direct connections: GCP dials in turn, the others listen.      *)
LEMMA GoDirectRanked ==
    ASSUME prog = "goDirect", NEW p \in Party
    PROVE  Ranked(p)
<1>1. Go /\ ~Relayed
  BY DEF Go, Relayed
<1>2. Blocks(p) = GoDirectBlocks(p)
  BY <1>1 DEF Blocks
<1>3. \A e \in Slots(p) : Rank(e) = IF e.me = 1 THEN e.peer - 1 ELSE 1
  BY <1>1 DEF Rank
<1>4. Slots(p) = {End(p, q, 1, "ios") : q \in Party \ {p}}
  BY <1>1 DEF Slots
<1>5. CASE p = 1
  <2> DEFINE a == End(1, 2, 1, "ios")
             b == End(1, 3, 1, "ios")
  <2>1. Blocks(p) = <<{a}, {b}>>
    BY <1>2, <1>5 DEF GoDirectBlocks
  <2>2. Size(p) = 2 /\ Blocks(p)[1] = {a} /\ Blocks(p)[2] = {b}
    BY <2>1 DEF Size
  <2>3. Party \ {p} = {2, 3}
    BY <1>5, Parties
  <2>4. Slots(p) = {a, b}
    BY <1>4, <1>5, <2>3
  <2>5. Rank(a) = 1 /\ Rank(b) = 2
    <3>1. a.me = 1 /\ a.peer = 2 /\ b.me = 1 /\ b.peer = 3
      BY EndParts
    <3>2. a \in Slots(p) /\ b \in Slots(p)
      BY <2>4
    <3> HIDE DEF a, b
    <3>3. QED
      BY <1>3, <3>1, <3>2
  <2> HIDE DEF a, b
  <2>6. \A i \in 1..2 : i = 1 \/ i = 2
    OBVIOUS
  <2>7. \A i \in 1..2 : Blocks(p)[i] = {e \in Slots(p) : Rank(e) = i}
    BY <2>2, <2>4, <2>5, <2>6
  <2>8. QED
    BY <2>2, <2>4, <2>5, <2>7 DEF Ranked
<1>6. CASE p # 1
  <2>1. Blocks(p) = <<Slots(p)>>
    BY <1>2, <1>4, <1>6 DEF GoDirectBlocks
  <2>2. Size(p) = 1 /\ Blocks(p)[1] = Slots(p)
    BY <2>1 DEF Size
  <2>3. \A e \in Slots(p) : Rank(e) = 1
    BY <1>3, <1>4, <1>6, EndParts
  <2>4. \A i \in 1..1 : i = 1
    OBVIOUS
  <2>5. \A i \in 1..1 : Blocks(p)[i] = {e \in Slots(p) : Rank(e) = i}
    BY <2>2, <2>3, <2>4
  <2>6. QED
    BY <2>2, <2>3, <2>5 DEF Ranked
<1>7. QED
  BY <1>5, <1>6

(* NetIOMP over the relay: a block is a NetIOMP.                           *)
LEMMA CppRelayRanked ==
    ASSUME prog = "cppRelay", prog \in Programs, NEW p \in Party
    PROVE  Ranked(p)
<1>1. ~Go /\ Relayed
  BY DEF Go, Relayed
<1> DEFINE n == Meshes[prog]
<1>2. Blocks(p) = [m \in 1..n |-> {End(p, q, m, k) : q \in Party \ {p}, k \in Kinds}]
  BY <1>1 DEF Blocks, CppRelayBlocks, Kinds
<1>3. n \in 1..2
  BY Kind
<1> HIDE DEF n
<1>4. Size(p) = n
  BY <1>2, <1>3 DEF Size
<1>5. \A e \in Slots(p) : Rank(e) = e.mesh
  BY <1>1 DEF Rank
<1>6. Slots(p) = {End(p, q, m, k) : q \in Party \ {p}, m \in 1..n, k \in Kinds}
  BY <1>1 DEF Slots, n
<1>7. ASSUME NEW i \in 1..n
      PROVE  Blocks(p)[i] = {e \in Slots(p) : Rank(e) = i}
  <2>1. Blocks(p)[i] = {End(p, q, i, k) : q \in Party \ {p}, k \in Kinds}
    BY <1>2
  <2>2. ASSUME NEW e \in Blocks(p)[i] PROVE e \in Slots(p) /\ Rank(e) = i
    <3>1. PICK q \in Party \ {p}, k \in Kinds : e = End(p, q, i, k)
      BY <2>1, <2>2
    <3>2. e \in Slots(p) /\ e.mesh = i
      BY <1>6, <3>1, EndParts
    <3>3. QED
      BY <1>5, <3>2
  <2>3. ASSUME NEW e \in Slots(p), Rank(e) = i PROVE e \in Blocks(p)[i]
    <3>1. PICK q \in Party \ {p}, m \in 1..n, k \in Kinds : e = End(p, q, m, k)
      BY <1>6
    <3>2. m = i
      BY <1>5, <2>3, <3>1, EndParts
    <3>3. QED
      BY <2>1, <3>1, <3>2
  <2>4. QED
    BY <2>2, <2>3
<1>8. \A e \in Slots(p) : Rank(e) \in 1..n
  BY <1>5, <1>6, EndParts
<1>9. QED
  BY <1>3, <1>4, <1>7, <1>8 DEF Ranked

\* The other of the two other parties, and the i-th socket of a NetIOMP.
Second(p) == IF p = 3 THEN 2 ELSE 3
Nth(p, m, i) ==
    End(p, IF i <= 2 THEN First(p) ELSE Second(p), m, IF i \in {1, 3} THEN "ios" ELSE "ios2")

(* The lower of the other two comes first.                                 *)
LEMMA Lower ==
    ASSUME NEW p \in Party
    PROVE  /\ Party \ {p} = {First(p), Second(p)} /\ First(p) # Second(p)
           /\ (CHOOSE q \in Party \ {p} : \A r \in Party \ {p} : q <= r) = First(p)
           /\ (CHOOSE r \in Party \ {p} : \A s \in Party \ {p} : s <= r) = Second(p)
<1>1. /\ Party \ {p} = {First(p), Second(p)} /\ First(p) < Second(p)
      /\ First(p) \in Nat /\ Second(p) \in Nat
  BY Parties DEF First, Second
<1> DEFINE S == Party \ {p}
           a == First(p)
           b == Second(p)
<1> HIDE DEF S, a, b
<1>2. S = {a, b} /\ a < b /\ a \in Nat /\ b \in Nat
  BY <1>1 DEF S, a, b
<1>3. (CHOOSE q \in S : \A r \in S : q <= r) = a
  <2>1. \A r \in S : a <= r
    BY <1>2
  <2>2. \A q \in S : (\A r \in S : q <= r) => q = a
    BY <1>2
  <2>3. a \in S
    BY <1>2
  <2>4. QED
    BY <2>1, <2>2, <2>3
<1>4. (CHOOSE r \in S : \A s \in S : s <= r) = b
  <2>1. \A s \in S : s <= b
    BY <1>2
  <2>2. \A r \in S : (\A s \in S : s <= r) => r = b
    BY <1>2
  <2>3. b \in S
    BY <1>2
  <2>4. QED
    BY <2>1, <2>2, <2>3
<1>5. QED
  BY <1>1, <1>3, <1>4 DEF S, a, b

(* Two pairs of blocks, one after the other.                               *)
LEMMA TwoPairs ==
    ASSUME NEW a, NEW b, NEW c, NEW d
    PROVE  /\ Len(<<a, b>> \o <<c, d>>) = 4
           /\ (<<a, b>> \o <<c, d>>)[1] = a /\ (<<a, b>> \o <<c, d>>)[2] = b
           /\ (<<a, b>> \o <<c, d>>)[3] = c /\ (<<a, b>> \o <<c, d>>)[4] = d
           /\ (<<a, b>> \o <<c, d>>) \in Seq({a, b, c, d})
OBVIOUS

(* The four sockets of a NetIOMP are opened one by one.                    *)
LEMMA MeshInTurn ==
    ASSUME NEW p \in Party, NEW m
    PROVE  /\ Len(CppDirectMesh(p, m)) = 4
           /\ \A i \in 1..4 : CppDirectMesh(p, m)[i] = {Nth(p, m, i)}
           /\ \E S : CppDirectMesh(p, m) \in Seq(S)
<1> DEFINE a == {End(p, First(p), m, "ios")}
           b == {End(p, First(p), m, "ios2")}
           c == {End(p, Second(p), m, "ios")}
           d == {End(p, Second(p), m, "ios2")}
<1>1. CppDirectMesh(p, m) = <<a, b>> \o <<c, d>>
  BY Lower DEF CppDirectMesh, CppDirectPair
<1>2. a = {Nth(p, m, 1)} /\ b = {Nth(p, m, 2)} /\ c = {Nth(p, m, 3)} /\ d = {Nth(p, m, 4)}
  BY DEF Nth
<1> HIDE DEF a, b, c, d
<1>3. \A i \in 1..4 : i = 1 \/ i = 2 \/ i = 3 \/ i = 4
  OBVIOUS
<1> DEFINE u == CppDirectMesh(p, m)
<1>4. Len(u) = 4 /\ u[1] = a /\ u[2] = b /\ u[3] = c /\ u[4] = d /\ u \in Seq({a, b, c, d})
  BY <1>1, TwoPairs
<1> HIDE DEF u
<1>5. \A i \in 1..4 : u[i] = {Nth(p, m, i)}
  BY <1>2, <1>3, <1>4
<1>6. QED
  BY <1>4, <1>5 DEF u

(* Four blocks followed by four.                                           *)
LEMMA CatFour ==
    ASSUME NEW S, NEW s \in Seq(S), NEW T, NEW t \in Seq(T), Len(s) = 4, Len(t) = 4
    PROVE  /\ Len(s \o t) = 8
           /\ \A i \in 1..4 : (s \o t)[i] = s[i] /\ (s \o t)[4 + i] = t[i]
<1>1. s \in Seq(S \cup T) /\ t \in Seq(S \cup T)
  OBVIOUS
<1>2. /\ Len(s \o t) = Len(s) + Len(t)
      /\ \A i \in 1..(Len(s) + Len(t)) :
            (s \o t)[i] = IF i <= Len(s) THEN s[i] ELSE t[i - Len(s)]
  BY <1>1, ConcatProperties
<1>3. Len(s \o t) = 8
  BY <1>2
<1>4. ASSUME NEW i \in 1..4 PROVE (s \o t)[i] = s[i] /\ (s \o t)[4 + i] = t[i]
  <2>1. i \in 1..8 /\ i <= 4 /\ 4 + i \in 1..8 /\ ~ (4 + i <= 4) /\ (4 + i) - 4 = i
    OBVIOUS
  <2>2. \A j \in 1..8 : (s \o t)[j] = IF j <= 4 THEN s[j] ELSE t[j - 4]
    BY <1>2
  <2>3. (s \o t)[i] = s[i]
    BY <2>1, <2>2
  <2>4. (s \o t)[4 + i] = t[(4 + i) - 4]
    BY <2>1, <2>2
  <2>5. QED
    BY <2>1, <2>3, <2>4
<1>5. QED
  BY <1>3, <1>4

(* And so are those of both NetIOMPs.                                      *)
LEMMA DirectInTurn ==
    ASSUME prog = "cppDirect", prog \in Programs, NEW p \in Party
    PROVE  /\ Size(p) = 4 * Meshes[prog]
           /\ \A m \in 1..Meshes[prog], i \in 1..4 : Blocks(p)[4 * (m - 1) + i] = {Nth(p, m, i)}
<1>1. ~Go /\ ~Relayed
  BY DEF Go, Relayed
<1>2. Blocks(p) = CppDirectBlocks(p)
  BY <1>1 DEF Blocks
<1>3. /\ Len(CppDirectMesh(p, 1)) = 4 /\ Len(CppDirectMesh(p, 2)) = 4
      /\ \A i \in 1..4 : CppDirectMesh(p, 1)[i] = {Nth(p, 1, i)}
      /\ \A i \in 1..4 : CppDirectMesh(p, 2)[i] = {Nth(p, 2, i)}
      /\ \E S : CppDirectMesh(p, 1) \in Seq(S)
      /\ \E S : CppDirectMesh(p, 2) \in Seq(S)
  BY MeshInTurn
<1>4. CASE Meshes[prog] = 1
  <2>1. Blocks(p) = CppDirectMesh(p, 1)
    BY <1>2, <1>4 DEF CppDirectBlocks
  <2>2. \A m \in 1..1, i \in 1..4 : m = 1 /\ 4 * (m - 1) + i = i
    OBVIOUS
  <2>3. QED
    BY <1>3, <1>4, <2>1, <2>2 DEF Size
<1>5. CASE Meshes[prog] = 2
  <2> DEFINE s == CppDirectMesh(p, 1)
             t == CppDirectMesh(p, 2)
  <2>1. Blocks(p) = s \o t
    BY <1>2, <1>5 DEF CppDirectBlocks
  <2> HIDE DEF s, t
  <2>2. PICK S : s \in Seq(S)
    BY <1>3 DEF s
  <2>3. PICK T : t \in Seq(T)
    BY <1>3 DEF t
  <2>4. Len(s) = 4 /\ Len(t) = 4
    BY <1>3 DEF s, t
  <2>5. /\ Len(s \o t) = 8
        /\ \A i \in 1..4 : (s \o t)[i] = s[i] /\ (s \o t)[4 + i] = t[i]
    BY <2>2, <2>3, <2>4, CatFour
  <2>6. Size(p) = 8
    BY <2>1, <2>5 DEF Size
  <2>7. ASSUME NEW m \in 1..2, NEW i \in 1..4
        PROVE  Blocks(p)[4 * (m - 1) + i] = {Nth(p, m, i)}
    <3>1. CASE m = 1
      <4>1. 4 * (m - 1) + i = i
        BY <3>1
      <4>2. QED
        BY <1>3, <2>1, <2>5, <3>1, <4>1 DEF s
    <3>2. CASE m = 2
      <4>1. 4 * (m - 1) + i = 4 + i
        BY <3>2
      <4>2. QED
        BY <1>3, <2>1, <2>5, <3>2, <4>1 DEF t
    <3>3. QED
      BY <3>1, <3>2
  <2>8. QED
    BY <1>5, <2>6, <2>7
<1>6. QED
  BY <1>4, <1>5, Kind

(* The sockets of a party are these, and this is the rank of each.         *)
LEMMA CppDirectRank ==
    ASSUME prog = "cppDirect", prog \in Programs, NEW p \in Party, NEW e \in Slots(p)
    PROVE  /\ \E m \in 1..Meshes[prog], i \in 1..4 : e = Nth(p, m, i)
           /\ \A m \in 1..Meshes[prog], i \in 1..4 :
                 Nth(p, m, i) \in Slots(p) /\ Rank(Nth(p, m, i)) = 4 * (m - 1) + i
<1>1. ~Go /\ ~Relayed
  BY DEF Go, Relayed
<1> DEFINE a == First(p)
           b == Second(p)
<1>2. Party \ {p} = {a, b} /\ a # b
  BY Lower
<1> HIDE DEF a, b
<1>3. \E m \in 1..Meshes[prog], i \in 1..4 : e = Nth(p, m, i)
  <2>1. PICK q \in Party \ {p}, m \in 1..Meshes[prog], k \in Kinds : e = End(p, q, m, k)
    BY <1>1 DEF Slots
  <2>2. \E i \in 1..4 : /\ q = IF i <= 2 THEN a ELSE b
                        /\ k = IF i \in {1, 3} THEN "ios" ELSE "ios2"
    <3>1. CASE q = a /\ k = "ios"
      <4>1. 1 \in 1..4 /\ 1 <= 2 /\ 1 \in {1, 3}
        OBVIOUS
      <4>2. QED
        BY <3>1, <4>1
    <3>2. CASE q = a /\ k = "ios2"
      <4>1. 2 \in 1..4 /\ 2 <= 2 /\ 2 \notin {1, 3}
        OBVIOUS
      <4>2. QED
        BY <3>2, <4>1
    <3>3. CASE q = b /\ k = "ios"
      <4>1. 3 \in 1..4 /\ ~ (3 <= 2) /\ 3 \in {1, 3}
        OBVIOUS
      <4>2. QED
        BY <3>3, <4>1
    <3>4. CASE q = b /\ k = "ios2"
      <4>1. 4 \in 1..4 /\ ~ (4 <= 2) /\ 4 \notin {1, 3}
        OBVIOUS
      <4>2. QED
        BY <3>4, <4>1
    <3>5. QED
      BY <1>2, <3>1, <3>2, <3>3, <3>4, DirectKinds
  <2>3. QED
    BY <2>1, <2>2 DEF Nth, a, b
<1>4. ASSUME NEW m \in 1..Meshes[prog], NEW i \in 1..4
      PROVE  Nth(p, m, i) \in Slots(p) /\ Rank(Nth(p, m, i)) = 4 * (m - 1) + i
  <2> DEFINE q == IF i <= 2 THEN a ELSE b
             k == IF i \in {1, 3} THEN "ios" ELSE "ios2"
             x == Nth(p, m, i)
  <2>1. x = End(p, q, m, k)
    BY DEF Nth, a, b
  <2>2. q \in Party \ {p} /\ k \in Kinds
    BY <1>2, DirectKinds
  <2>3. x \in Slots(p)
    BY <1>1, <2>1, <2>2 DEF Slots
  <2>4. x.me = p /\ x.peer = q /\ x.mesh = m /\ x.kind = k
    BY <2>1, EndParts
  <2>5. Rank(x) = 4 * (m - 1) + (IF q = a THEN 0 ELSE 2) + (IF k = "ios" THEN 1 ELSE 2)
    BY <1>1, <2>4 DEF Rank, a
  <2>6. i = (IF q = a THEN 0 ELSE 2) + (IF k = "ios" THEN 1 ELSE 2)
    <3>1. i = 1 \/ i = 2 \/ i = 3 \/ i = 4
      OBVIOUS
    <3>2. QED
      BY <1>2, <3>1
  <2>7. m \in Nat
    BY Kind
  <2> HIDE DEF q, k, x
  <2>8. Rank(x) = 4 * (m - 1) + i
    BY <2>5, <2>6, <2>7
  <2>9. QED
    BY <2>3, <2>8 DEF x
<1>5. QED
  BY <1>3, <1>4

(* NetIOMP by direct connections: a block is a socket.                     *)
LEMMA CppDirectRanked ==
    ASSUME prog = "cppDirect", prog \in Programs, NEW p \in Party
    PROVE  Ranked(p)
<1> DEFINE n == Meshes[prog]
<1>1. n = 1 \/ n = 2
  BY Kind
<1>2. /\ Size(p) = 4 * n
      /\ \A m \in 1..n, i \in 1..4 : Blocks(p)[4 * (m - 1) + i] = {Nth(p, m, i)}
  BY DirectInTurn
<1>3. \A e \in Slots(p) :
          /\ \E m \in 1..n, i \in 1..4 : e = Nth(p, m, i)
          /\ \A m \in 1..n, i \in 1..4 :
                Nth(p, m, i) \in Slots(p) /\ Rank(Nth(p, m, i)) = 4 * (m - 1) + i
  BY CppDirectRank
<1>4. Slots(p) # {}
  <2>1. ~Go
    BY DEF Go
  <2>2. 1 \in 1..n /\ "ios" \in Kinds /\ First(p) \in Party \ {p}
    BY <1>1, Lower, DirectKinds
  <2>3. End(p, First(p), 1, "ios") \in Slots(p)
    BY <2>1, <2>2 DEF Slots
  <2>4. QED
    BY <2>3
<1> HIDE DEF n
<1>5. \A j \in 1..(4 * n) : \E m \in 1..n, i \in 1..4 : j = 4 * (m - 1) + i
  <2> SUFFICES ASSUME NEW j \in 1..(4 * n) PROVE \E m \in 1..n, i \in 1..4 : j = 4 * (m - 1) + i
    OBVIOUS
  <2>1. CASE j <= 4
    <3>1. 1 \in 1..n /\ j \in 1..4 /\ j = 4 * (1 - 1) + j
      BY <1>1, <2>1
    <3>2. QED
      BY <3>1
  <2>2. CASE j > 4
    <3>1. n = 2
      BY <1>1, <2>2
    <3>2. 2 \in 1..n /\ j - 4 \in 1..4 /\ j = 4 * (2 - 1) + (j - 4)
      BY <2>2, <3>1
    <3>3. QED
      BY <3>2
  <2>3. QED
    BY <1>1, <2>1, <2>2
<1>6. \A l, m \in 1..n : \A i, j \in 1..4 : 4 * (l - 1) + i = 4 * (m - 1) + j => l = m /\ i = j
  BY <1>1
<1>7. \A e \in Slots(p) : Rank(e) \in 1..Size(p)
  <2> SUFFICES ASSUME NEW e \in Slots(p) PROVE Rank(e) \in 1..(4 * n)
    BY <1>2
  <2>1. PICK m \in 1..n, i \in 1..4 : e = Nth(p, m, i)
    BY <1>3
  <2>2. Rank(e) = 4 * (m - 1) + i
    BY <1>3, <2>1
  <2>3. QED
    BY <1>1, <2>2
<1>8. ASSUME NEW j \in 1..Size(p) PROVE Blocks(p)[j] = {e \in Slots(p) : Rank(e) = j}
  <2>1. PICK m \in 1..n, i \in 1..4 : j = 4 * (m - 1) + i
    BY <1>2, <1>5
  <2>2. Blocks(p)[j] = {Nth(p, m, i)}
    BY <1>2, <2>1
  <2>3. Nth(p, m, i) \in Slots(p) /\ Rank(Nth(p, m, i)) = j
    BY <1>3, <1>4, <2>1
  <2>4. ASSUME NEW e \in Slots(p), Rank(e) = j PROVE e = Nth(p, m, i)
    <3>1. PICK l \in 1..n, h \in 1..4 : e = Nth(p, l, h)
      BY <1>3
    <3>2. Rank(e) = 4 * (l - 1) + h
      BY <1>3, <3>1
    <3>3. l = m /\ h = i
      BY <1>6, <2>1, <2>4, <3>2
    <3>4. QED
      BY <3>1, <3>3
  <2>5. QED
    BY <2>2, <2>3, <2>4
<1>9. Size(p) \in 1..8
  BY <1>1, <1>2
<1>10. QED
  BY <1>7, <1>8, <1>9 DEF Ranked

(* So in every program.                                                    *)
LEMMA AllRanked ==
    ASSUME prog \in Programs
    PROVE  \A p \in Party : Ranked(p)
BY Kind, GoRelayRanked, GoDirectRanked, CppRelayRanked, CppDirectRanked

(* The blocks of a party hold its sockets, each in the block of its rank.  *)
LEMMA BlockFacts ==
    ASSUME prog \in Programs, NEW p \in Party
    PROVE  /\ Ends(p) = Slots(p)
           /\ Size(p) \in 1..8
           /\ \A e \in Slots(p) : e.me = p /\ Rank(e) \in 1..Size(p)
           /\ \A i \in 1..Size(p) : Blocks(p)[i] = {e \in Slots(p) : Rank(e) = i}
<1>1. /\ Size(p) \in 1..8
      /\ \A e \in Slots(p) : Rank(e) \in 1..Size(p)
      /\ \A i \in 1..Size(p) : Blocks(p)[i] = {e \in Slots(p) : Rank(e) = i}
  BY AllRanked DEF Ranked
<1>2. Ends(p) = UNION {Blocks(p)[i] : i \in 1..Size(p)}
  BY DEF Ends, Size
<1>3. Ends(p) = Slots(p)
  BY <1>1, <1>2
<1>4. \A e \in Slots(p) : e.me = p
  BY SlotParts, EndParts
<1>5. QED
  BY <1>1, <1>3, <1>4

-----------------------------------------------------------------------------
(* The sockets of all parties, and the mirror of each.                     *)

(* The parts of a socket are in range.                                     *)
LEMMA AllParts ==
    ASSUME prog \in Programs, NEW e \in All
    PROVE  /\ e.me \in Party /\ e.peer \in Party /\ e.me # e.peer /\ e \in Slots(e.me)
           /\ e = End(e.me, e.peer, e.mesh, e.kind)
           /\ Go => e.mesh = 1 /\ e.kind = "ios"
           /\ e.mesh \in 1..2 /\ e.kind \in {"ios", "ios2"}
           /\ e \in AllEnds
<1>1. PICK p \in Party : e \in Slots(p)
  BY DEF All
<1>2. /\ e = End(p, e.peer, e.mesh, e.kind)
      /\ e.peer \in Party \ {p}
      /\ Go => e.mesh = 1 /\ e.kind = "ios"
      /\ ~Go => e.mesh \in 1..Meshes[prog] /\ e.kind \in Kinds
  BY <1>1, SlotParts
<1>3. e.me = p
  BY <1>2, EndParts
<1>4. e.mesh \in 1..2 /\ e.kind \in {"ios", "ios2"}
  <2>1. Meshes[prog] = 1 \/ Meshes[prog] = 2
    BY Kind
  <2>2. 1..Meshes[prog] \subseteq 1..2 /\ 1 \in 1..2
    BY <2>1
  <2>3. Kinds \subseteq {"ios", "ios2"}
    BY MeshAssumption DEF Kinds
  <2>4. CASE Go
    BY <1>2, <2>2, <2>4
  <2>5. CASE ~Go
    BY <1>2, <2>2, <2>3, <2>5
  <2>6. QED
    BY <2>4, <2>5
<1>5. e \in AllEnds
  BY <1>2, <1>3, <1>4 DEF AllEnds
<1>6. QED
  BY <1>1, <1>2, <1>3, <1>4, <1>5

(* The mirror of a socket is a socket of the peer.                         *)
LEMMA MirrorFacts ==
    ASSUME prog \in Programs, NEW e \in All
    PROVE  /\ Mirror(e) \in All /\ Mirror(Mirror(e)) = e /\ Mirror(e) # e
           /\ Mirror(e).me = e.peer /\ Mirror(e).peer = e.me
           /\ Mirror(e).mesh = e.mesh /\ Mirror(e).kind = e.kind
           /\ Dials(Mirror(e)) <=> ~Dials(e)
<1> DEFINE f == Mirror(e)
<1>1. f = End(e.peer, e.me, e.mesh, e.kind)
  BY DEF Mirror
<1>2. f.me = e.peer /\ f.peer = e.me /\ f.mesh = e.mesh /\ f.kind = e.kind
  BY <1>1, EndParts
<1>3. /\ e.me \in Party /\ e.peer \in Party /\ e.me # e.peer /\ e \in Slots(e.me)
      /\ e = End(e.me, e.peer, e.mesh, e.kind)
  BY AllParts
<1>4. /\ Go => e.mesh = 1 /\ e.kind = "ios"
      /\ ~Go => e.mesh \in 1..Meshes[prog] /\ e.kind \in Kinds
  BY <1>3, SlotParts
<1>5. Mirror(f) = e
  BY <1>2, <1>3 DEF Mirror
<1> HIDE DEF f
<1>6. f \in Slots(e.peer)
  <2>1. f = End(e.peer, f.peer, f.mesh, f.kind)
    BY <1>1, <1>2
  <2>2. QED
    BY <1>2, <1>3, <1>4, <2>1, SlotParts
<1>7. f \in All
  BY <1>3, <1>6 DEF All
<1>8. Dials(f) <=> ~Dials(e)
  <2>1. e.me \in {1, 2, 3} /\ e.peer \in {1, 2, 3}
    BY <1>3, Parties
  <2>2. QED
    BY <1>2, <1>3, <2>1 DEF Dials
<1>9. f # e
  BY <1>2, <1>3
<1>10. QED
  BY <1>2, <1>5, <1>7, <1>8, <1>9 DEF f

(* Slots with the same parts are the same.                                 *)
LEMMA SameParts ==
    ASSUME prog \in Programs, NEW e \in All, NEW f \in All,
           e.me = f.me, e.peer = f.peer, e.mesh = f.mesh, e.kind = f.kind
    PROVE  e = f
<1>1. e = End(e.me, e.peer, e.mesh, e.kind) /\ f = End(f.me, f.peer, f.mesh, f.kind)
  BY AllParts
<1>2. QED
  BY <1>1

(* Nothing of this changes while the program runs.                         *)
LEMMA Frame ==
    ASSUME prog' = prog
    PROVE  /\ All' = All
           /\ \A e : Rank(e)' = Rank(e)
           /\ \A p : Blocks(p)' = Blocks(p) /\ Ends(p)' = Ends(p)
           /\ Go' = Go /\ Relayed' = Relayed
<1>1. Go' = Go /\ Relayed' = Relayed
  BY DEF Go, Relayed
<1>2. \A p : Slots(p)' = Slots(p)
  BY <1>1 DEF Slots, Kinds
<1>3. All' = All
  BY <1>2 DEF All
<1>4. \A e : Rank(e)' = Rank(e)
  BY <1>1 DEF Rank
<1>5. \A p : Blocks(p)' = Blocks(p)
  BY <1>1 DEF Blocks, CppRelayBlocks, CppDirectBlocks
<1>6. \A p : Ends(p)' = Ends(p)
  BY <1>5 DEF Ends
<1>7. QED
  BY <1>1, <1>3, <1>4, <1>5, <1>6

(* The sockets stat speaks of, and who they belong to.                     *)
LEMMA Domain ==
    ASSUME prog \in Programs
    PROVE  UNION {Ends(p) : p \in Party} = All /\ \A p \in Party : Ends(p) = {e \in All : e.me = p}
<1>1. \A p \in Party : Ends(p) = Slots(p) /\ \A e \in Slots(p) : e.me = p
  BY BlockFacts
<1>2. UNION {Ends(p) : p \in Party} = All
  BY <1>1 DEF All
<1>3. \A p \in Party : Ends(p) = {e \in All : e.me = p}
  BY <1>1, AllParts DEF All
<1>4. QED
  BY <1>2, <1>3

(* A socket that is neither untouched nor settled is in the current block. *)
LEMMA Busy ==
    ASSUME StateType, RankInv, NEW e \in All, stat[e] \notin {"idle", "open", "reset", "lost"}
    PROVE  Rank(e) = block[e.me] /\ ~Ready(e.me)
<1>1. e.me \in Party /\ e \in Slots(e.me)
  BY AllParts DEF StateType
<1>2. Size(e.me) \in 1..8 /\ Rank(e) \in 1..Size(e.me)
  BY <1>1, BlockFacts DEF StateType
<1>3. block[e.me] \in 1..9
  BY <1>1 DEF StateType
<1>4. ~ (Rank(e) < block[e.me]) /\ ~ (Rank(e) > block[e.me])
  BY DEF RankInv
<1>5. Rank(e) = block[e.me]
  BY <1>2, <1>3, <1>4
<1>6. QED
  BY <1>2, <1>5 DEF Ready, Size

(* Whose turn it is: the sockets of the current block of a live process.   *)
LEMMA CurrentFacts ==
    ASSUME StateType, NEW p \in Party
    PROVE  Current(p) = IF Ready(p) \/ p \in down THEN {} ELSE {e \in All : e.me = p /\ Rank(e) = block[p]}
<1>1. /\ Size(p) \in 1..8
      /\ \A i \in 1..Size(p) : Blocks(p)[i] = {e \in Slots(p) : Rank(e) = i}
      /\ Ends(p) = Slots(p)
  BY BlockFacts DEF StateType
<1>2. Ends(p) = {e \in All : e.me = p}
  BY Domain DEF StateType
<1>3. block[p] \in 1..9
  BY DEF StateType
<1>4. CASE Ready(p) \/ p \in down
  BY <1>4 DEF Current
<1>5. CASE ~Ready(p) /\ p \notin down
  <2>1. block[p] \in 1..Size(p)
    BY <1>1, <1>3, <1>5 DEF Ready, Size
  <2>2. Blocks(p)[block[p]] = {e \in Slots(p) : Rank(e) = block[p]}
    BY <1>1, <2>1
  <2>3. Current(p) = Blocks(p)[block[p]]
    BY <1>5 DEF Current
  <2>4. Slots(p) = {e \in All : e.me = p}
    BY <1>1, <1>2
  <2>5. {e \in Slots(p) : Rank(e) = block[p]} = {e \in All : e.me = p /\ Rank(e) = block[p]}
    BY <2>4
  <2>6. QED
    BY <1>5, <2>2, <2>3, <2>5
<1>6. QED
  BY <1>4, <1>5

(* A set-up that has returned is past all its blocks.                      *)
LEMMA ReadyFacts ==
    ASSUME StateType, NEW e \in All, Ready(e.me)
    PROVE  Rank(e) < block[e.me]
<1>1. e.me \in Party /\ e \in Slots(e.me)
  BY AllParts DEF StateType
<1>2. Size(e.me) \in 1..8 /\ Rank(e) \in 1..Size(e.me)
  BY <1>1, BlockFacts DEF StateType
<1>3. block[e.me] \in 1..9
  BY <1>1 DEF StateType
<1>4. QED
  BY <1>2, <1>3 DEF Ready, Size

-----------------------------------------------------------------------------
(* Steps that leave the sockets as they are.                               *)

(* The process of p ends.                                                  *)
LEMMA ExitInv ==
    ASSUME MeshInv, NEW p \in Party, NEW why, Exit(p, why), faults' \in 0..MaxFaults
    PROVE  MeshInv'
<1>1. /\ down' = down \cup {p} /\ left' = left \cup Held(p)
      /\ queue' = {x \in queue : x[1].me # p} /\ excuse' = excuse \cup why
      /\ prog' = prog /\ block' = block /\ stat' = stat /\ asked' = asked
      /\ met' = met /\ cut' = cut /\ links' = links /\ short' = short
  BY DEF Exit
<1>2. /\ All' = All /\ (\A e : Rank(e)' = Rank(e)) /\ Go' = Go /\ Relayed' = Relayed
  BY <1>1, Frame
<1>3. Held(p) \subseteq asked
  BY DEF Held
<1>4. StateType'
  BY <1>1, <1>2, <1>3 DEF MeshInv, StateType
<1>5. RankInv'
  BY <1>1, <1>2 DEF MeshInv, RankInv
<1>6. StatInv'
  BY <1>1, <1>2, RacedStays DEF MeshInv, StatInv
<1>7. SessionInv' /\ MetInv' /\ BrokenInv'
  BY <1>1, <1>2 DEF MeshInv, SessionInv, MetInv, BrokenInv
<1>8. QueueInv'
  BY <1>1 DEF MeshInv, QueueInv
<1>9. LinkInv'
  BY <1>1, <1>2 DEF MeshInv, LinkInv
<1>10. QED
  BY <1>4, <1>5, <1>6, <1>7, <1>8, <1>9 DEF MeshInv

(* The threads of a block are joined: its sockets are settled.             *)
LEMMA ProceedInv ==
    ASSUME MeshInv, NEW p \in Party, Proceed(p)
    PROVE  MeshInv'
<1>1. /\ block' = [block EXCEPT ![p] = @ + 1] /\ Current(p) # {}
      /\ \A e \in Current(p) : stat[e] \in {"open", "reset", "lost"}
      /\ prog' = prog /\ stat' = stat /\ asked' = asked /\ met' = met
      /\ left' = left /\ cut' = cut /\ queue' = queue /\ links' = links /\ down' = down
      /\ short' = short /\ faults' = faults /\ excuse' = excuse
  BY DEF Proceed, relayVars
<1>2. /\ All' = All /\ (\A e : Rank(e)' = Rank(e)) /\ Go' = Go /\ Relayed' = Relayed
  BY <1>1, Frame
<1>3. /\ ~Ready(p) /\ p \notin down
      /\ Current(p) = {e \in All : e.me = p /\ Rank(e) = block[p]}
  BY <1>1, CurrentFacts DEF MeshInv
<1>4. prog \in Programs /\ block \in [Party -> 1..9]
  BY DEF MeshInv, StateType
<1>5. Size(p) \in 1..8 /\ block[p] <= Size(p) /\ block[p] \in 1..8
  <2>1. Size(p) \in 1..8 /\ block[p] \in 1..9
    BY <1>4, BlockFacts
  <2>2. ~ (block[p] > Size(p))
    BY <1>3 DEF Ready, Size
  <2>3. QED
    BY <2>1, <2>2
<1>6. block' \in [Party -> 1..9] /\ block'[p] = block[p] + 1
      /\ \A q \in Party \ {p} : block'[q] = block[q]
  BY <1>1, <1>4, <1>5
<1>7. StateType'
  BY <1>1, <1>2, <1>6 DEF MeshInv, StateType
<1>8. RankInv'
  <2>1. SUFFICES ASSUME NEW e \in All
                 PROVE  /\ Rank(e) < block'[e.me] => stat[e] \in {"open", "reset", "lost"}
                        /\ Rank(e) > block'[e.me] => stat[e] = "idle"
    BY <1>1, <1>2 DEF RankInv
  <2>2. /\ Rank(e) < block[e.me] => stat[e] \in {"open", "reset", "lost"}
        /\ Rank(e) > block[e.me] => stat[e] = "idle"
    BY DEF MeshInv, RankInv
  <2>3. e.me \in Party /\ Rank(e) \in Nat
    <3>1. e.me \in Party /\ e \in Slots(e.me)
      BY <1>4, AllParts
    <3>2. Size(e.me) \in 1..8 /\ Rank(e) \in 1..Size(e.me)
      BY <1>4, <3>1, BlockFacts
    <3>3. QED
      BY <3>1, <3>2
  <2>4. CASE e.me = p
    <3>1. Rank(e) = block[p] => stat[e] \in {"open", "reset", "lost"}
      BY <1>1, <1>3, <2>4
    <3>2. QED
      BY <1>5, <1>6, <2>2, <2>3, <2>4, <3>1
  <2>5. CASE e.me # p
    BY <1>6, <2>2, <2>3, <2>5
  <2>6. QED
    BY <2>4, <2>5
<1>9. StatInv'
  BY <1>1, <1>2, RacedStays DEF MeshInv, StatInv
<1>10. SessionInv' /\ BrokenInv'
  BY <1>1, <1>2 DEF MeshInv, BrokenInv, SessionInv
<1>11. MetInv'
  BY <1>1, <1>2 DEF MeshInv, MetInv
<1>12. QueueInv' /\ LinkInv'
  BY <1>1, <1>2 DEF MeshInv, QueueInv, LinkInv
<1>13. QED
  BY <1>7, <1>8, <1>9, <1>10, <1>11, <1>12 DEF MeshInv

(* The session of a socket is that with its mirror.                        *)
LEMMA SessionPair ==
    ASSUME MeshInv, NEW s \in met, NEW e \in s
    PROVE  e \in All /\ Mirror(e) \in All /\ s = {e, Mirror(e)}
<1>0. prog \in Programs /\ asked \subseteq All
  BY DEF MeshInv, StateType
<1>1. PICK f \in asked : s = {f, Mirror(f)} /\ Mirror(f) \in asked
  BY DEF MeshInv, SessionInv
<1>2. Mirror(Mirror(f)) = f
  BY <1>0, MirrorFacts
<1>3. QED
  BY <1>0, <1>1, <1>2

(* The relay gives two that ask for each other a session.                  *)
LEMMA MeetInv ==
    ASSUME MeshInv, NEW e \in asked, NEW f \in asked, Meet(e, f)
    PROVE  MeshInv'
<1>0. e \in All /\ f \in All /\ prog \in Programs
  BY DEF MeshInv, StateType
<1>1. /\ AsksFor(e, f) /\ met' = met \cup {{e, f}}
      /\ asked' = asked /\ left' = left
      /\ prog' = prog /\ block' = block /\ stat' = stat /\ cut' = cut
      /\ queue' = queue /\ links' = links /\ down' = down
      /\ short' = short /\ faults' = faults /\ excuse' = excuse
  BY DEF Meet, R!Meet
<1>2. /\ All' = All /\ (\A g : Rank(g)' = Rank(g)) /\ Go' = Go /\ Relayed' = Relayed
  BY <1>1, Frame
<1>3. f = Mirror(e)
  <2>1. e.me = f.peer /\ e.peer = f.me /\ Tag(e) = Tag(f)
    BY <1>1 DEF AsksFor
  <2>2. e.mesh = f.mesh /\ e.kind = f.kind
    BY <2>1 DEF Tag
  <2>3. /\ Mirror(e) \in All /\ Mirror(e).me = e.peer /\ Mirror(e).peer = e.me
        /\ Mirror(e).mesh = e.mesh /\ Mirror(e).kind = e.kind
    BY <1>0, MirrorFacts
  <2>4. QED
    BY <1>0, <2>1, <2>2, <2>3, SameParts
<1>4. StateType'
  BY <1>1, <1>2 DEF MeshInv, StateType
<1>5. RankInv' /\ StatInv'
  BY <1>1, <1>2, RacedStays DEF MeshInv, RankInv, StatInv
<1>6. SessionInv'
  BY <1>1, <1>3 DEF MeshInv, SessionInv
<1>7. MetInv' /\ BrokenInv'
  BY <1>1, <1>2 DEF MeshInv, MetInv, BrokenInv
<1>8. QueueInv' /\ LinkInv'
  BY <1>1, <1>2 DEF MeshInv, QueueInv, LinkInv
<1>9. QED
  BY <1>4, <1>5, <1>6, <1>7, <1>8 DEF MeshInv

(* A session breaks under a handshake.                                     *)
LEMMA CutInv ==
    ASSUME MeshInv, NEW s \in met, Cut(s)
    PROVE  MeshInv'
<1>1. /\ cut' = cut \cup {s} /\ faults' = faults + 1 /\ faults < MaxFaults
      /\ \E e \in s : stat[e] = "asked"
      /\ excuse' = excuse \cup {"cut"}
      /\ prog' = prog /\ block' = block /\ stat' = stat /\ asked' = asked
      /\ met' = met /\ left' = left /\ queue' = queue /\ links' = links /\ down' = down
      /\ short' = short
  BY DEF Cut, relayVars
<1>2. /\ All' = All /\ (\A e : Rank(e)' = Rank(e)) /\ Go' = Go /\ Relayed' = Relayed
  BY <1>1, Frame
<1>3. StateType'
  <2>1. faults' \in 0..MaxFaults
    <3>1. faults \in 0..MaxFaults /\ MaxFaults \in Nat
      BY MeshAssumption DEF MeshInv, StateType
    <3>2. QED
      BY <1>1, <3>1
  <2>2. QED
    BY <1>1, <1>2, <2>1 DEF MeshInv, StateType
<1>4. RankInv' /\ StatInv'
  BY <1>1, <1>2, RacedStays DEF MeshInv, RankInv, StatInv
<1>5. SessionInv' /\ MetInv'
  BY <1>1, <1>2 DEF MeshInv, SessionInv, MetInv
<1>6. BrokenInv'
  BY <1>1 DEF MeshInv, BrokenInv
<1>7. QueueInv' /\ LinkInv'
  BY <1>1, <1>2 DEF MeshInv, QueueInv, LinkInv
<1>8. QED
  BY <1>3, <1>4, <1>5, <1>6, <1>7 DEF MeshInv

-----------------------------------------------------------------------------
(* Steps of the sockets over the relay.                                    *)

(* Only sockets of current blocks change.                                  *)
LEMMA RankStays ==
    ASSUME MeshInv, prog' = prog, block' = block,
           \A g \in All : stat'[g] = stat[g] \/ Rank(g) = block[g.me]
    PROVE  RankInv'
<1>1. All' = All /\ \A g : Rank(g)' = Rank(g)
  BY Frame
<1>2. SUFFICES ASSUME NEW g \in All
               PROVE  /\ Rank(g) < block[g.me] => stat'[g] \in {"open", "reset", "lost"}
                      /\ Rank(g) > block[g.me] => stat'[g] = "idle"
  BY <1>1 DEF RankInv
<1>3. CASE stat'[g] = stat[g]
  BY <1>3 DEF MeshInv, RankInv
<1>4. CASE Rank(g) = block[g.me]
  <2>1. g.me \in Party
    BY AllParts DEF MeshInv, StateType
  <2>2. block[g.me] \in 1..9
    BY <2>1 DEF MeshInv, StateType
  <2>3. ~ (Rank(g) < block[g.me]) /\ ~ (Rank(g) > block[g.me])
    BY <1>4, <2>2
  <2>4. QED
    BY <2>3
<1>5. QED
  BY <1>3, <1>4

(* Whose turn it is.                                                       *)
LEMMA TurnFacts ==
    ASSUME MeshInv, NEW e \in All, Turn(e)
    PROVE  /\ stat[e] = "idle" /\ Rank(e) = block[e.me] /\ e.me \in Party /\ e.me \notin down
<1>1. e.me \in Party
  BY AllParts DEF MeshInv, StateType
<1>2. stat[e] = "idle" /\ e \in Current(e.me)
  BY DEF Turn
<1>3. QED
  BY <1>1, <1>2, CurrentFacts DEF MeshInv

(* Over the relay nobody waits at a port.                                  *)
LEMMA NoQueue ==
    ASSUME MeshInv, Relayed
    PROVE  queue = {}
<1>1. ASSUME NEW x \in queue PROVE FALSE
  <2>1. x[1] \in All /\ stat[x[1]] = "queued"
    BY <1>1 DEF MeshInv, StateType, QueueInv
  <2>2. QED
    BY <2>1 DEF MeshInv, StatInv
<1>2. QED
  BY <1>1

(* What a link joins.                                                      *)
LEMMA LinkParts ==
    ASSUME MeshInv
    PROVE  \A l \in links : \A g \in l : g \in All /\ stat[g] \in {"held", "open", "lost"}
BY MirrorFacts DEF MeshInv, LinkInv, StateType

(* Over the relay there is no link to break.                               *)
LEMMA LinksStay ==
    ASSUME MeshInv, Relayed, prog' = prog, links' = links,
           \A g \in All : stat[g] \in {"held", "open", "lost"} => stat'[g] \in {"held", "open", "lost"}
    PROVE  LinkInv'
<1>1. All' = All /\ Relayed' = Relayed
  BY Frame
<1>2. \A l \in links : \A g \in l : g \in All /\ stat[g] \in {"held", "open", "lost"}
  BY MirrorFacts DEF MeshInv, LinkInv, StateType
<1>3. QED
  BY <1>1, <1>2 DEF MeshInv, LinkInv

(* A broken session stays so while the ends in their handshake are.        *)
LEMMA BrokenStays ==
    ASSUME MeshInv, cut' = cut, \A g \in All : stat[g] = "asked" => stat'[g] = "asked"
    PROVE  BrokenInv'
<1>1. \A s \in cut : \A g \in s : g \in All
  BY SessionPair DEF MeshInv, StateType
<1>2. QED
  BY <1>1 DEF MeshInv, BrokenInv

(* A socket asks the relay.                                                *)
LEMMA AskInv ==
    ASSUME MeshInv, NEW e \in All, Ask(e)
    PROVE  MeshInv'
<1>0. prog \in Programs /\ stat \in [All -> Status]
  BY DEF MeshInv, StateType
<1>1. /\ Relayed /\ Turn(e) /\ asked' = asked \cup {e} /\ stat' = [stat EXCEPT ![e] = "asked"]
      /\ met' = met /\ left' = left
      /\ prog' = prog /\ block' = block /\ cut' = cut
      /\ queue' = queue /\ links' = links /\ down' = down
      /\ short' = short /\ faults' = faults /\ excuse' = excuse
  BY DEF Ask, R!Arrive
<1>2. /\ All' = All /\ Go' = Go /\ Relayed' = Relayed
  BY <1>1, Frame
<1>3. stat[e] = "idle" /\ Rank(e) = block[e.me]
  BY <1>1, TurnFacts
<1>4. \A g \in All : stat'[g] = IF g = e THEN "asked" ELSE stat[g]
  BY <1>0, <1>1
<1>5. StateType'
  <2>1. stat' \in [All -> Status]
    BY <1>0, <1>1 DEF Status
  <2>2. QED
    BY <1>1, <1>2, <2>1 DEF MeshInv, StateType
<1>6. RankInv'
  BY <1>1, <1>3, <1>4, RankStays
<1>7. StatInv'
  BY <1>1, <1>2, <1>4, RacedStays DEF MeshInv, StatInv
<1>8. SessionInv'
  BY <1>1 DEF MeshInv, SessionInv
<1>9. MetInv'
  BY <1>1, <1>2, <1>4 DEF MeshInv, MetInv
<1>10. BrokenInv'
  <2>1. \A g \in All : stat[g] = "asked" => stat'[g] = "asked"
    BY <1>4
  <2>2. QED
    BY <1>1, <2>1, BrokenStays
<1>11. QueueInv'
  BY <1>1, NoQueue DEF QueueInv
<1>12. LinkInv'
  BY <1>1, <1>3, <1>4, LinksStay
<1>13. QED
  BY <1>5, <1>6, <1>7, <1>8, <1>9, <1>10, <1>11, <1>12 DEF MeshInv

(* The end-to-end handshake gives a socket whose session is there.         *)
LEMMA SecureInv ==
    ASSUME MeshInv, NEW e \in All, Secure(e)
    PROVE  MeshInv'
<1>0. prog \in Programs /\ stat \in [All -> Status]
  BY DEF MeshInv, StateType
<1>1. /\ stat[e] = "asked" /\ stat' = [stat EXCEPT ![e] = Opened]
      /\ prog' = prog /\ block' = block /\ asked' = asked /\ met' = met
      /\ left' = left /\ cut' = cut /\ queue' = queue /\ links' = links /\ down' = down
      /\ short' = short /\ faults' = faults /\ excuse' = excuse
  BY DEF Secure, relayVars
<1>2. {e, Mirror(e)} \in met \ cut
  <2>1. PICK s \in met : e \in s /\ s \notin cut
    BY DEF Secure, SessionOf
  <2>2. QED
    BY <2>1, SessionPair
<1>3. Relayed
  BY <1>1 DEF MeshInv, StatInv
<1>4. /\ All' = All /\ Go' = Go /\ Relayed' = Relayed
  BY <1>1, Frame
<1>5. \A g \in All : stat'[g] = IF g = e THEN Opened ELSE stat[g]
  BY <1>0, <1>1
<1>6. Opened \in {"held", "open"} /\ (Opened = "held" => Go)
  BY DEF Opened
<1>7. StateType'
  <2>1. stat' \in [All -> Status]
    BY <1>0, <1>1, <1>6 DEF Status
  <2>2. QED
    BY <1>1, <1>4, <2>1 DEF MeshInv, StateType
<1>8. RankInv'
  <2>1. Rank(e) = block[e.me]
    BY <1>1, Busy DEF MeshInv
  <2>2. QED
    BY <1>1, <1>5, <2>1, RankStays
<1>9. StatInv'
  BY <1>1, <1>4, <1>5, <1>6, RacedStays DEF MeshInv, StatInv
<1>10. SessionInv'
  BY <1>1 DEF MeshInv, SessionInv
<1>11. MetInv'
  BY <1>1, <1>2, <1>4, <1>5 DEF MeshInv, MetInv
<1>12. BrokenInv'
  <2>1. SUFFICES ASSUME NEW s \in cut PROVE \E g \in s : stat'[g] = "asked"
    BY <1>1 DEF BrokenInv
  <2>2. s \in met
    BY DEF MeshInv, StateType
  <2>3. e \notin s
    BY <1>2, <2>2, SessionPair
  <2>4. PICK g \in s : stat[g] = "asked"
    BY DEF MeshInv, BrokenInv
  <2>5. g \in All /\ g # e
    BY <2>2, <2>3, SessionPair
  <2>6. QED
    BY <1>5, <2>4, <2>5
<1>13. QueueInv'
  BY <1>1, <1>3, NoQueue DEF QueueInv
<1>14. LinkInv'
  BY <1>1, <1>3, <1>5, <1>6, LinksStay
<1>15. QED
  BY <1>7, <1>8, <1>9, <1>10, <1>11, <1>12, <1>13, <1>14 DEF MeshInv

-----------------------------------------------------------------------------
(* Ports, and what a process listens on at a time.                         *)

(* A program that is neither over the relay nor in Go is this one.         *)
LEMMA TheDirect ==
    ASSUME prog \in Programs, ~Relayed, ~Go
    PROVE  prog = "cppDirect"
BY Kind DEF Relayed, Go

(* By direct connections a NetIOMP party opens one socket at a time.       *)
LEMMA OneAtATime ==
    ASSUME prog \in Programs, ~Relayed, ~Go, NEW e \in All, NEW f \in All,
           e.me = f.me, Rank(e) = Rank(f)
    PROVE  e = f
<1>1. prog = "cppDirect"
  BY TheDirect
<1> DEFINE p == e.me
<1>2. p \in Party /\ e \in Slots(p) /\ f \in Slots(p)
  BY AllParts
<1> HIDE DEF p
<1>3. /\ \A g \in Slots(p) : Rank(g) \in 1..Size(p)
      /\ \A i \in 1..Size(p) : Blocks(p)[i] = {g \in Slots(p) : Rank(g) = i}
  BY <1>2, BlockFacts
<1>4. PICK m \in 1..Meshes[prog], i \in 1..4 : e = Nth(p, m, i)
  BY <1>1, <1>2, CppDirectRank
<1>5. Rank(e) = 4 * (m - 1) + i
  BY <1>1, <1>2, <1>4, CppDirectRank
<1>6. Blocks(p)[Rank(e)] = {e}
  BY <1>1, <1>2, <1>4, <1>5, DirectInTurn
<1>7. f \in Blocks(p)[Rank(e)]
  BY <1>2, <1>3
<1>8. QED
  BY <1>6, <1>7

(* The parties at the two ends, in order.                                  *)
LEMMA LowHigh ==
    ASSUME prog \in Programs, NEW e \in All
    PROVE  /\ Low(e) \in 1..3 /\ High(e) \in 1..3
           /\ Dials(e) => Low(e) = e.me /\ High(e) = e.peer /\ e.me < e.peer
           /\ ~Dials(e) => Low(e) = e.peer /\ High(e) = e.me /\ e.peer < e.me
<1>1. e.me \in {1, 2, 3} /\ e.peer \in {1, 2, 3} /\ e.me # e.peer
  BY AllParts, Parties
<1>2. QED
  BY <1>1 DEF Low, High, Dials

(* The ports of two sockets are the same for a reason.                     *)
LEMMA SamePort ==
    ASSUME prog \in Programs, NEW e \in All, NEW f \in All, Port(e) = Port(f)
    PROVE  /\ e.mesh = f.mesh /\ e.kind = f.kind
           /\ e.kind = "ios" => Low(e) = Low(f)
           /\ e.kind = "ios2" => High(e) = High(f)
<1>1. /\ Low(e) \in 1..3 /\ High(e) \in 1..3 /\ Low(f) \in 1..3 /\ High(f) \in 1..3
  BY LowHigh
<1>2. /\ e.mesh \in 1..2 /\ f.mesh \in 1..2 /\ e.kind \in {"ios", "ios2"} /\ f.kind \in {"ios", "ios2"}
      /\ Go => e.mesh = 1 /\ e.kind = "ios" /\ f.mesh = 1 /\ f.kind = "ios"
  BY AllParts
<1>3. CASE Go
  BY <1>2, <1>3 DEF Port
<1>4. CASE ~Go
  <2>1. CppPort(e) = CppPort(f)
    BY <1>4 DEF Port
  <2> DEFINE le == Low(e)
             he == High(e)
             lf == Low(f)
             hf == High(f)
  <2>2. (e.kind = "ios" \/ e.kind = "ios2") /\ (f.kind = "ios" \/ f.kind = "ios2")
    BY <1>2
  <2>3. CASE e.kind = "ios" /\ f.kind = "ios"
    <3>1. 8 * e.mesh + 2 * le = 8 * f.mesh + 2 * lf
      BY <2>1, <2>3 DEF CppPort
    <3> HIDE DEF le, lf
    <3>2. e.mesh = f.mesh /\ le = lf
      BY <1>1, <1>2, <3>1 DEF le, lf
    <3>3. QED
      BY <2>3, <3>2 DEF le, lf
  <2>4. CASE e.kind = "ios2" /\ f.kind = "ios2"
    <3>1. 8 * e.mesh + (2 * he + 1) = 8 * f.mesh + (2 * hf + 1)
      BY <2>1, <2>4 DEF CppPort
    <3> HIDE DEF he, hf
    <3>2. e.mesh = f.mesh /\ he = hf
      BY <1>1, <1>2, <3>1 DEF he, hf
    <3>3. QED
      BY <2>4, <3>2 DEF he, hf
  <2>5. CASE e.kind = "ios" /\ f.kind = "ios2"
    <3>1. 8 * e.mesh + 2 * le = 8 * f.mesh + (2 * hf + 1)
      BY <2>1, <2>5 DEF CppPort
    <3>2. QED
      BY <1>1, <1>2, <3>1
  <2>6. CASE e.kind = "ios2" /\ f.kind = "ios"
    <3>1. 8 * e.mesh + (2 * he + 1) = 8 * f.mesh + 2 * lf
      BY <2>1, <2>6 DEF CppPort
    <3>2. QED
      BY <1>1, <1>2, <3>1
  <2>7. QED
    BY <2>2, <2>3, <2>4, <2>5, <2>6
<1>5. QED
  BY <1>3, <1>4

(* A process never binds a port it already listens on.                     *)
LEMMA NoClash ==
    ASSUME MeshInv, ~Relayed, NEW f \in All, Turn(f), ~Dials(f),
           NEW g \in All, g.me = f.me, Listening(g), Port(g) = Port(f)
    PROVE  FALSE
<1>0. prog \in Programs
  BY DEF MeshInv, StateType
<1>1. stat[g] = "listening" /\ ~Dials(g)
  BY DEF Listening, MeshInv, StatInv
<1>2. stat[f] = "idle" /\ Rank(f) = block[f.me]
  BY TurnFacts
<1>3. CASE Go
  <2>1. f.kind = "ios" /\ f.mesh = g.mesh /\ f.kind = g.kind /\ Low(f) = Low(g)
    BY <1>0, <1>3, SamePort, AllParts
  <2>2. f.peer = g.peer
    BY <1>0, <1>1, <2>1, LowHigh
  <2>3. f = g
    BY <1>0, <2>1, <2>2, SameParts
  <2>4. QED
    BY <1>1, <1>2, <2>3
<1>4. CASE ~Go
  <2>1. Rank(g) = block[g.me]
    BY <1>1, Busy DEF MeshInv
  <2>2. f = g
    BY <1>0, <1>2, <1>4, <2>1, OneAtATime
  <2>3. QED
    BY <1>1, <1>2, <2>2
<1>5. QED
  BY <1>3, <1>4

(* The place of a socket in the one thread of a NetIOMP party.             *)
LEMMA DirectRank ==
    ASSUME prog \in Programs, ~Relayed, ~Go, NEW e \in All
    PROVE  Rank(e) = 4 * (e.mesh - 1) + (IF e.peer = First(e.me) THEN 0 ELSE 2)
                                      + (IF e.kind = "ios" THEN 1 ELSE 2)
BY DEF Rank

(* What the thread has behind it is open, unless the listener is gone.     *)
LEMMA Behind ==
    ASSUME MeshInv, ~Relayed, ~Go, NEW e \in All, Rank(e) < block[e.me]
    PROVE  \/ {e, Mirror(e)} \in links /\ stat[Mirror(e)] # "idle"
           \/ Dials(e) /\ e.peer \in down
<1>1. stat[e] \in {"open", "reset", "lost"}
  BY DEF MeshInv, RankInv
<1>2. stat[e] # "lost"
  BY DEF MeshInv, StatInv
<1>3. CASE stat[e] = "reset"
  BY <1>3 DEF MeshInv, StatInv
<1>4. CASE stat[e] = "open"
  <2>1. {e, Mirror(e)} \in links
    BY <1>4 DEF MeshInv, LinkInv
  <2>2. stat[Mirror(e)] \in {"held", "open", "lost"}
    BY <2>1 DEF MeshInv, LinkInv
  <2>3. QED
    BY <2>1, <2>2
<1>5. QED
  BY <1>1, <1>2, <1>3, <1>4

(* Who connects finds the listener meant for it, also on the ports of ios2,
   which party 3 uses for both of the others: the ios before it has brought
   the two threads together.                                               *)
LEMMA RightListener ==
    ASSUME MeshInv, ~Relayed, NEW e \in All, Turn(e), Dials(e),
           NEW f \in All, f.me = e.peer, Listening(f), Port(f) = Port(e)
    PROVE  f = Mirror(e)
<1>0. prog \in Programs
  BY DEF MeshInv, StateType
<1>1. stat[f] = "listening" /\ ~Dials(f) /\ f.me \notin down
  BY DEF Listening, MeshInv, StatInv
<1>2. stat[e] = "idle" /\ Rank(e) = block[e.me]
  BY TurnFacts
<1>3. /\ e.mesh = f.mesh /\ e.kind = f.kind
      /\ e.kind = "ios" => Low(e) = Low(f)
  BY <1>0, SamePort
<1>4. /\ Mirror(e) \in All /\ Mirror(Mirror(e)) = e /\ ~Dials(Mirror(e))
      /\ Mirror(e).me = e.peer /\ Mirror(e).peer = e.me
      /\ Mirror(e).mesh = e.mesh /\ Mirror(e).kind = e.kind
  BY <1>0, MirrorFacts
<1>5. f.peer = e.me => f = Mirror(e)
  BY <1>0, <1>3, <1>4, SameParts
<1>6. CASE e.kind = "ios"
  <2>1. f.peer = e.me
    BY <1>0, <1>1, <1>3, <1>6, LowHigh
  <2>2. QED
    BY <1>5, <2>1
<1>7. CASE e.kind # "ios"
  <2>1. SUFFICES ASSUME f.peer # e.me PROVE FALSE
    BY <1>5
  <2>2. ~Go /\ e.kind = "ios2" /\ e.mesh \in 1..2
    BY <1>0, <1>7, AllParts DEF Kinds
  <2>3. /\ e.me \in {1, 2, 3} /\ f.peer \in {1, 2, 3} /\ e.peer \in {1, 2, 3}
        /\ e.me < e.peer /\ f.peer < e.peer
    BY <1>0, <1>1, AllParts, LowHigh, Parties
  <2>4. e.peer = 3 /\ ((e.me = 2 /\ f.peer = 1) \/ (e.me = 1 /\ f.peer = 2))
    BY <2>1, <2>3
  <2> DEFINE b == 4 * (e.mesh - 1)
  <2>5. /\ First(3) = 1 /\ First(2) = 1 /\ First(1) = 2 /\ b \in Nat
    BY <2>2 DEF First
  <2>6. Rank(f) = block[3]
    BY <1>1, <2>4, Busy DEF MeshInv
  <2>7. \A x \in All : x.mesh = e.mesh =>
            Rank(x) = b + (IF x.peer = First(x.me) THEN 0 ELSE 2)
                        + (IF x.kind = "ios" THEN 1 ELSE 2)
    BY <1>0, <2>2, DirectRank
  <2> HIDE DEF b
  <2>8. CASE e.me = 2 /\ f.peer = 1
    <3> DEFINE d == End(2, 3, e.mesh, "ios")
    <3>1. d.me = 2 /\ d.peer = 3 /\ d.mesh = e.mesh /\ d.kind = "ios"
      BY EndParts
    <3>2. d \in All
      <4>1. e \in Slots(2) /\ 2 \in Party /\ 3 \in Party \ {2}
        BY <1>0, <2>8, AllParts, Parties
      <4>2. e.mesh \in 1..Meshes[prog]
        BY <2>2, <4>1, SlotParts
      <4>3. d \in Slots(2)
        BY <2>2, <4>1, <4>2 DEF Slots, Kinds
      <4>4. QED
        BY <4>1, <4>3 DEF All
    <3> HIDE DEF d
    <3>3. /\ Mirror(d) \in All /\ Mirror(d).me = 3 /\ Mirror(d).peer = 2
          /\ Mirror(d).mesh = e.mesh /\ Mirror(d).kind = "ios"
      BY <1>0, <3>1, <3>2, MirrorFacts
    <3>4. Rank(d) = b + 3
      BY <2>5, <2>7, <3>1, <3>2
    <3>5. Rank(e) = b + 4
      BY <2>2, <2>4, <2>5, <2>7, <2>8
    <3>6. Rank(d) < block[d.me]
      BY <1>2, <2>5, <2>8, <3>1, <3>4, <3>5
    <3>7. stat[Mirror(d)] # "idle"
      BY <1>1, <2>2, <2>4, <3>1, <3>2, <3>6, Behind
    <3>8. Rank(Mirror(d)) = b + 3
      BY <2>5, <2>7, <3>3
    <3>9. Rank(f) = b + 2
      <4>1. f.me = 3 /\ f.peer = 1 /\ f.kind = "ios2" /\ f.mesh = e.mesh
        BY <1>3, <2>2, <2>4, <2>8
      <4>2. QED
        BY <2>5, <2>7, <4>1
    <3>10. Rank(Mirror(d)) > block[Mirror(d).me]
      BY <2>5, <2>6, <3>3, <3>8, <3>9
    <3>11. QED
      BY <3>3, <3>7, <3>10 DEF MeshInv, RankInv
  <2>9. CASE e.me = 1 /\ f.peer = 2
    <3>1. Rank(Mirror(e)) = b + 2
      BY <1>4, <2>2, <2>4, <2>5, <2>7, <2>9
    <3>2. Rank(f) = b + 4
      <4>1. f.me = 3 /\ f.peer = 2 /\ f.kind = "ios2" /\ f.mesh = e.mesh
        BY <1>3, <2>2, <2>4, <2>9
      <4>2. QED
        BY <2>5, <2>7, <4>1
    <3>3. Rank(Mirror(e)) < block[Mirror(e).me]
      BY <1>4, <2>4, <2>5, <2>6, <3>1, <3>2
    <3>4. stat[e] # "idle"
      BY <1>4, <2>2, <3>3, Behind
    <3>5. QED
      BY <1>2, <3>4
  <2>10. QED
    BY <2>4, <2>8, <2>9
<1>8. QED
  BY <1>6, <1>7

-----------------------------------------------------------------------------
(* Steps of the sockets by direct connections, and stores in the Go map.   *)

SocketsOnly ==
    /\ prog' = prog /\ block' = block /\ asked' = asked /\ met' = met
    /\ left' = left /\ cut' = cut /\ down' = down /\ faults' = faults
    /\ short' \subseteq Party /\ queue' \subseteq All \X All
    /\ excuse \subseteq excuse'
    /\ stat' \in [All -> Status]

(* A step of current sockets, none of them at the relay, leaves order and
   sessions as they were.                                                  *)
LEMMA SocketStep ==
    ASSUME MeshInv, SocketsOnly,
           \A g \in All : stat'[g] = stat[g] \/ (Rank(g) = block[g.me] /\ stat[g] # "asked")
    PROVE  /\ StateType' /\ RankInv' /\ SessionInv' /\ BrokenInv'
           /\ All' = All /\ Go' = Go /\ Relayed' = Relayed
<1>1. /\ prog' = prog /\ block' = block /\ asked' = asked /\ met' = met
      /\ left' = left /\ cut' = cut /\ down' = down /\ faults' = faults
  BY DEF SocketsOnly
<1>2. /\ All' = All /\ Go' = Go /\ Relayed' = Relayed
  BY <1>1, Frame
<1>3. StateType'
  BY <1>1, <1>2 DEF MeshInv, StateType, SocketsOnly
<1>4. RankInv'
  BY <1>1, RankStays
<1>5. SessionInv'
  BY <1>1 DEF MeshInv, SessionInv
<1>6. BrokenInv'
  <2>1. \A g \in All : stat[g] = "asked" => stat'[g] = "asked"
    OBVIOUS
  <2>2. QED
    BY <1>1, <2>1, BrokenStays
<1>7. QED
  BY <1>2, <1>3, <1>4, <1>5, <1>6

(* A listener starts; the bind never fails.                                *)
LEMMA ListenInv ==
    ASSUME MeshInv, NEW f \in All, Listen(f)
    PROVE  MeshInv'
<1>0. prog \in Programs /\ stat \in [All -> Status] /\ queue \subseteq All \X All /\ short \subseteq Party
  BY DEF MeshInv, StateType
<1>1. ~Relayed /\ Turn(f) /\ ~Dials(f)
  BY DEF Listen
<1>2. ~ \E g \in Ends(f.me) : Listening(g) /\ Port(g) = Port(f)
  <2>1. f.me \in Party
    BY <1>0, AllParts
  <2>2. Ends(f.me) = {g \in All : g.me = f.me}
    BY <1>0, <2>1, Domain
  <2>3. QED
    BY <1>1, <2>2, NoClash
<1>3. /\ stat' = [stat EXCEPT ![f] = "listening"]
      /\ prog' = prog /\ block' = block /\ asked' = asked /\ met' = met
      /\ left' = left /\ cut' = cut /\ queue' = queue /\ links' = links /\ down' = down
      /\ short' = short /\ faults' = faults /\ excuse' = excuse
  BY <1>2 DEF Listen, relayVars
<1>4. \A g \in All : stat'[g] = IF g = f THEN "listening" ELSE stat[g]
  BY <1>0, <1>3
<1>5. stat[f] = "idle" /\ Rank(f) = block[f.me]
  BY <1>1, TurnFacts
<1>6. SocketsOnly
  <2>1. stat' \in [All -> Status]
    BY <1>0, <1>3 DEF Status
  <2>2. QED
    BY <1>0, <1>3, <2>1 DEF SocketsOnly
<1>7. /\ StateType' /\ RankInv' /\ SessionInv' /\ BrokenInv'
      /\ All' = All /\ Go' = Go /\ Relayed' = Relayed
  <2>1. \A g \in All : stat'[g] = stat[g] \/ (Rank(g) = block[g.me] /\ stat[g] # "asked")
    BY <1>4, <1>5
  <2>2. QED
    BY <1>6, <2>1, SocketStep
<1>8. StatInv'
  BY <1>1, <1>3, <1>4, <1>7, RacedStays DEF MeshInv, StatInv
<1>9. MetInv'
  BY <1>1, <1>7 DEF MetInv
<1>10. QueueInv'
  <2>1. \A x \in queue : x[1] \in All /\ x[2] \in All
    BY <1>0
  <2>2. QED
    BY <1>3, <1>4, <1>5, <2>1 DEF MeshInv, QueueInv
<1>11. LinkInv'
  <2>1. \A l \in links : \A g \in l : g \in All /\ stat[g] \in {"held", "open", "lost"}
    BY <1>0, MirrorFacts DEF MeshInv, LinkInv
  <2>2. \A l \in links : \A g \in l : stat'[g] \in {"held", "open", "lost"}
    BY <1>4, <1>5, <2>1
  <2>3. \A g \in All : stat'[g] \in {"held", "open", "lost"} => stat[g] \in {"held", "open", "lost"}
    BY <1>4
  <2>4. QED
    BY <1>3, <1>7, <2>2, <2>3 DEF MeshInv, LinkInv
<1>12. QED
  BY <1>7, <1>8, <1>9, <1>10, <1>11 DEF MeshInv

(* A connect reaches the listener meant for it.                            *)
LEMMA ConnectInv ==
    ASSUME MeshInv, NEW e \in All, Connect(e)
    PROVE  MeshInv'
<1>0. prog \in Programs /\ stat \in [All -> Status] /\ queue \subseteq All \X All /\ short \subseteq Party
  BY DEF MeshInv, StateType
<1>1. /\ ~Relayed /\ Turn(e) /\ Dials(e) /\ stat' = [stat EXCEPT ![e] = "queued"]
      /\ prog' = prog /\ block' = block /\ asked' = asked /\ met' = met
      /\ left' = left /\ cut' = cut /\ links' = links /\ down' = down
      /\ short' = short /\ faults' = faults /\ excuse' = excuse
  BY DEF Connect, relayVars
<1>2. PICK f \in Ends(e.peer) : Listening(f) /\ Port(f) = Port(e) /\ queue' = queue \cup {<<e, f>>}
  BY DEF Connect
<1>3. f \in All /\ f = Mirror(e) /\ stat[f] = "listening"
  <2>1. e.peer \in Party
    BY <1>0, AllParts
  <2>2. f \in All /\ f.me = e.peer
    BY <1>0, <1>2, <2>1, Domain
  <2>3. f = Mirror(e)
    BY <1>1, <1>2, <2>2, RightListener
  <2>4. QED
    BY <1>2, <2>2, <2>3 DEF Listening
<1>4. \A g \in All : stat'[g] = IF g = e THEN "queued" ELSE stat[g]
  BY <1>0, <1>1
<1>5. stat[e] = "idle" /\ Rank(e) = block[e.me]
  BY <1>1, TurnFacts
<1>6. SocketsOnly
  <2>1. stat' \in [All -> Status]
    BY <1>0, <1>1 DEF Status
  <2>2. queue' \subseteq All \X All
    BY <1>0, <1>2, <1>3
  <2>3. QED
    BY <1>0, <1>1, <2>1, <2>2 DEF SocketsOnly
<1>7. /\ StateType' /\ RankInv' /\ SessionInv' /\ BrokenInv'
      /\ All' = All /\ Go' = Go /\ Relayed' = Relayed
  <2>1. \A g \in All : stat'[g] = stat[g] \/ (Rank(g) = block[g.me] /\ stat[g] # "asked")
    BY <1>4, <1>5
  <2>2. QED
    BY <1>6, <2>1, SocketStep
<1>8. StatInv'
  BY <1>1, <1>4, <1>7, RacedStays DEF MeshInv, StatInv
<1>9. MetInv'
  BY <1>1, <1>7 DEF MetInv
<1>10. QueueInv'
  <2>1. SUFFICES ASSUME NEW x \in queue'
                 PROVE  x[2] = Mirror(x[1]) /\ stat'[x[1]] = "queued" /\ stat'[x[2]] = "listening"
    BY DEF QueueInv
  <2>2. CASE x \in queue
    <3>1. x[1] \in All /\ x[2] \in All
      BY <1>0, <2>2
    <3>2. x[2] = Mirror(x[1]) /\ stat[x[1]] = "queued" /\ stat[x[2]] = "listening"
      BY <2>2 DEF MeshInv, QueueInv
    <3>3. QED
      BY <1>4, <1>5, <3>1, <3>2
  <2>3. CASE x = <<e, f>>
    <3>1. x[1] = e /\ x[2] = f /\ f # e
      BY <1>3, <1>5, <2>3
    <3>2. QED
      BY <1>3, <1>4, <3>1
  <2>4. QED
    BY <1>2, <2>2, <2>3
<1>11. LinkInv'
  <2>1. \A l \in links : \A g \in l : g \in All /\ stat[g] \in {"held", "open", "lost"}
    BY <1>0, MirrorFacts DEF MeshInv, LinkInv
  <2>2. \A l \in links : \A g \in l : stat'[g] \in {"held", "open", "lost"}
    BY <1>4, <1>5, <2>1
  <2>3. \A g \in All : stat'[g] \in {"held", "open", "lost"} => stat[g] \in {"held", "open", "lost"}
    BY <1>4
  <2>4. QED
    BY <1>1, <1>7, <2>2, <2>3 DEF MeshInv, LinkInv
<1>12. QED
  BY <1>7, <1>8, <1>9, <1>10, <1>11 DEF MeshInv

(* An accept joins the two sockets made for each other and resets nobody.  *)
LEMMA AcceptInv ==
    ASSUME MeshInv, NEW f, NEW e, <<e, f>> \in queue, Accept(f, e)
    PROVE  MeshInv'
<1>0. /\ prog \in Programs /\ stat \in [All -> Status] /\ DOMAIN stat = All
      /\ queue \subseteq All \X All /\ short \subseteq Party
  BY DEF MeshInv, StateType
<1>1. /\ e \in All /\ f \in All /\ f = Mirror(e) /\ stat[e] = "queued" /\ stat[f] = "listening"
      /\ ~Relayed
  <2>1. /\ e \in All /\ f \in All
    BY <1>0
  <2>2. f = Mirror(e) /\ stat[e] = "queued" /\ stat[f] = "listening"
    BY DEF MeshInv, QueueInv
  <2>3. QED
    BY <2>1, <2>2 DEF MeshInv, StatInv
<1>2. Mirror(f) = e /\ e # f
  BY <1>0, <1>1, MirrorFacts
<1>3. Slot(f, e) = f
  <2>1. CASE Go
    <3>1. e.mesh = 1 /\ e.kind = "ios"
      BY <1>0, <1>1, <2>1, AllParts
    <3>2. f = End(e.peer, e.me, 1, "ios") /\ f.me = e.peer
      BY <1>1, <3>1, EndParts DEF Mirror
    <3>3. QED
      BY <2>1, <3>2 DEF Slot
  <2>2. CASE ~Go
    BY <2>2 DEF Slot
  <2>3. QED
    BY <2>1, <2>2
<1>4. \A x \in queue : x[2] = f => x[1] = e
  <2>1. SUFFICES ASSUME NEW x \in queue, x[2] = f PROVE x[1] = e
    OBVIOUS
  <2>2. x[1] \in All /\ x[2] = Mirror(x[1])
    BY <1>0 DEF MeshInv, QueueInv
  <2>3. Mirror(x[2]) = x[1]
    BY <1>0, <2>2, MirrorFacts
  <2>4. QED
    BY <1>2, <2>1, <2>3
<1> DEFINE others == IF Go THEN {} ELSE {x \in queue : x[2] = f /\ x[1] # e}
<1>5. others = {}
  BY <1>4
<1>6. /\ links' = links \cup {{e, Slot(f, e)}}
      /\ stat' = [g \in DOMAIN stat |->
                     IF g \in {e, Slot(f, e)} THEN Opened
                     ELSE IF <<g, f>> \in others THEN "reset" ELSE stat[g]]
      /\ queue' = queue \ ({<<e, f>>} \cup others)
      /\ prog' = prog /\ block' = block /\ asked' = asked /\ met' = met
      /\ left' = left /\ cut' = cut /\ down' = down
      /\ short' = short /\ faults' = faults /\ excuse' = excuse
  BY DEF Accept, relayVars
<1> HIDE DEF others
<1>7. /\ links' = links \cup {{e, f}} /\ queue' = queue \ {<<e, f>>}
      /\ stat' = [g \in All |-> IF g \in {e, f} THEN Opened ELSE stat[g]]
  BY <1>0, <1>3, <1>5, <1>6
<1>8. \A g \in All : stat'[g] = IF g = e \/ g = f THEN Opened ELSE stat[g]
  BY <1>7
<1>9. Opened \in {"held", "open"} /\ (Opened = "held" => Go)
  BY DEF Opened
<1>10. Rank(e) = block[e.me] /\ Rank(f) = block[f.me]
  BY <1>1, Busy DEF MeshInv
<1>11. SocketsOnly
  <2>1. stat' \in [All -> Status]
    BY <1>0, <1>7, <1>9 DEF Status
  <2>2. QED
    BY <1>0, <1>6, <1>7, <2>1 DEF SocketsOnly
<1>12. /\ StateType' /\ RankInv' /\ SessionInv' /\ BrokenInv'
       /\ All' = All /\ Go' = Go /\ Relayed' = Relayed
  <2>1. \A g \in All : stat'[g] = stat[g] \/ (Rank(g) = block[g.me] /\ stat[g] # "asked")
    BY <1>1, <1>8, <1>10
  <2>2. QED
    BY <1>11, <2>1, SocketStep
<1>13. StatInv'
  BY <1>6, <1>8, <1>9, <1>12, RacedStays DEF MeshInv, StatInv
<1>14. MetInv'
  BY <1>1, <1>12 DEF MetInv
<1>15. QueueInv'
  <2>1. SUFFICES ASSUME NEW x \in queue, x # <<e, f>>
                 PROVE  x[2] = Mirror(x[1]) /\ stat'[x[1]] = "queued" /\ stat'[x[2]] = "listening"
    BY <1>7 DEF QueueInv
  <2>2. x[1] \in All /\ x[2] \in All /\ x = <<x[1], x[2]>>
    BY <1>0
  <2>3. x[2] = Mirror(x[1]) /\ stat[x[1]] = "queued" /\ stat[x[2]] = "listening"
    BY DEF MeshInv, QueueInv
  <2>4. x[1] # e /\ x[1] # f /\ x[2] # e /\ x[2] # f
    BY <1>1, <1>4, <2>1, <2>2, <2>3
  <2>5. QED
    BY <1>8, <2>2, <2>3, <2>4
<1>16. LinkInv'
  <2>1. \A l \in links : \A g \in l : g \in All /\ stat[g] \in {"held", "open", "lost"}
    BY <1>0, MirrorFacts DEF MeshInv, LinkInv
  <2>2. \A l \in links' : \A g \in l : stat'[g] \in {"held", "open", "lost"}
    BY <1>1, <1>7, <1>8, <1>9, <2>1
  <2>3. \A l \in links' : \E g \in All : l = {g, Mirror(g)}
    BY <1>1, <1>7 DEF MeshInv, LinkInv
  <2>4. {e, Mirror(e)} \in links' /\ {f, Mirror(f)} \in links'
    BY <1>1, <1>2, <1>7
  <2>5. \A g \in All : stat'[g] \in {"held", "open", "lost"} => {g, Mirror(g)} \in links'
    BY <1>1, <1>7, <1>8, <2>4 DEF MeshInv, LinkInv
  <2>6. QED
    BY <1>12, <2>2, <2>3, <2>5 DEF LinkInv
<1>17. QED
  BY <1>12, <1>13, <1>14, <1>15, <1>16 DEF MeshInv

(* A dialler whose listener is gone ends its process, or is reset.         *)
LEMMA ResetInv ==
    ASSUME MeshInv, NEW e \in All, Reset(e)
    PROVE  MeshInv'
<1>0. /\ prog \in Programs /\ stat \in [All -> Status]
      /\ queue \subseteq All \X All /\ short \subseteq Party /\ faults \in 0..MaxFaults
  BY DEF MeshInv, StateType
<1>1. PICK x \in queue :
        /\ x[1] = e /\ x[2].me \in down
        /\ IF Go THEN Exit(e.me, {"handshake"})
           ELSE /\ stat' = [stat EXCEPT ![e] = "reset"]
                /\ queue' = queue \ {x}
                /\ UNCHANGED <<prog, block, relayVars, cut, links, down, short, excuse>>
        /\ UNCHANGED faults
  BY DEF Reset
<1>2. CASE Go
  <2>1. Exit(e.me, {"handshake"}) /\ faults' = faults
    BY <1>1, <1>2
  <2>2. e.me \in Party
    BY <1>0, AllParts
  <2>3. QED
    BY <1>0, <2>1, <2>2, ExitInv
<1>3. CASE ~Go
  <2>1. /\ stat' = [stat EXCEPT ![e] = "reset"] /\ queue' = queue \ {x}
        /\ prog' = prog /\ block' = block /\ asked' = asked /\ met' = met
        /\ left' = left /\ cut' = cut /\ links' = links /\ down' = down
        /\ short' = short /\ faults' = faults /\ excuse' = excuse
    BY <1>1, <1>3 DEF relayVars
  <2>2. x[2] = Mirror(e) /\ stat[e] = "queued" /\ x = <<e, Mirror(e)>>
    BY <1>0, <1>1 DEF MeshInv, QueueInv
  <2>3. ~Relayed /\ Dials(e) /\ e.peer \in down
    <3>1. x[2].me = e.peer
      BY <1>0, <2>2, MirrorFacts
    <3>2. QED
      BY <1>1, <2>2, <3>1 DEF MeshInv, StatInv
  <2>4. \A g \in All : stat'[g] = IF g = e THEN "reset" ELSE stat[g]
    BY <1>0, <2>1
  <2>5. Rank(e) = block[e.me]
    BY <2>2, Busy DEF MeshInv
  <2>6. SocketsOnly
    <3>1. stat' \in [All -> Status]
      BY <1>0, <2>1 DEF Status
    <3>2. QED
      BY <1>0, <2>1, <3>1 DEF SocketsOnly
  <2>7. /\ StateType' /\ RankInv' /\ SessionInv' /\ BrokenInv'
        /\ All' = All /\ Go' = Go /\ Relayed' = Relayed
    <3>1. \A g \in All : stat'[g] = stat[g] \/ (Rank(g) = block[g.me] /\ stat[g] # "asked")
      BY <2>2, <2>4, <2>5
    <3>2. QED
      BY <2>6, <3>1, SocketStep
  <2>8. StatInv'
    BY <2>1, <2>3, <2>4, <2>7, RacedStays DEF MeshInv, StatInv
  <2>9. MetInv'
    BY <2>3, <2>7 DEF MetInv
  <2>10. QueueInv'
    <3>1. SUFFICES ASSUME NEW y \in queue, y # x
                   PROVE  y[2] = Mirror(y[1]) /\ stat'[y[1]] = "queued" /\ stat'[y[2]] = "listening"
      BY <2>1 DEF QueueInv
    <3>2. y[1] \in All /\ y[2] \in All /\ y = <<y[1], y[2]>>
      BY <1>0
    <3>3. y[2] = Mirror(y[1]) /\ stat[y[1]] = "queued" /\ stat[y[2]] = "listening"
      BY DEF MeshInv, QueueInv
    <3>4. y[1] # e /\ y[2] # e
      BY <2>2, <3>1, <3>2, <3>3
    <3>5. QED
      BY <2>4, <3>2, <3>3, <3>4
  <2>11. LinkInv'
    <3>1. \A l \in links : \A g \in l : g \in All /\ stat[g] \in {"held", "open", "lost"}
      BY <1>0, MirrorFacts DEF MeshInv, LinkInv
    <3>2. \A l \in links : \A g \in l : stat'[g] \in {"held", "open", "lost"}
      BY <2>2, <2>4, <3>1
    <3>3. \A g \in All : stat'[g] \in {"held", "open", "lost"} => stat[g] \in {"held", "open", "lost"}
      BY <2>4
    <3>4. QED
      BY <2>1, <2>7, <3>2, <3>3 DEF MeshInv, LinkInv
  <2>12. QED
    BY <2>7, <2>8, <2>9, <2>10, <2>11 DEF MeshInv
<1>4. QED
  BY <1>2, <1>3

(* What is held is put into the map, or lost to another store.             *)
LEMMA HeldInv ==
    ASSUME MeshInv, SocketsOnly, queue' = queue, links' = links,
           \A g \in All : stat'[g] = stat[g] \/ (stat[g] = "held" /\ stat'[g] \in {"open", "lost"}),
           \A g \in All : stat'[g] = "lost" => stat[g] = "lost" \/ Raced'
    PROVE  MeshInv'
<1>0. prog \in Programs /\ queue \subseteq All \X All
  BY DEF MeshInv, StateType
<1>1. /\ StateType' /\ RankInv' /\ SessionInv' /\ BrokenInv'
      /\ All' = All /\ Go' = Go /\ Relayed' = Relayed
  <2>1. ASSUME NEW g \in All, stat'[g] # stat[g] PROVE Rank(g) = block[g.me] /\ stat[g] # "asked"
    <3>1. stat[g] = "held" /\ stat'[g] \in {"open", "lost"}
      BY <2>1
    <3>2. QED
      BY <3>1, Busy DEF MeshInv
  <2>2. QED
    BY <2>1, SocketStep
<1>2. down' = down /\ met' = met /\ excuse \subseteq excuse'
  BY DEF SocketsOnly
<1>3. StatInv'
  BY <1>1, <1>2, RacedStays DEF MeshInv, StatInv
<1>4. MetInv'
  <2>1. \A g \in All : stat'[g] \in {"held", "open", "lost"} => stat[g] \in {"held", "open", "lost"}
    OBVIOUS
  <2>2. QED
    BY <1>1, <1>2, <2>1 DEF MeshInv, MetInv
<1>5. QueueInv'
  <2>1. \A x \in queue : x[1] \in All /\ x[2] \in All
    BY <1>0
  <2>2. QED
    BY <2>1 DEF MeshInv, QueueInv
<1>6. LinkInv'
  <2>1. \A l \in links : \A g \in l : g \in All /\ stat[g] \in {"held", "open", "lost"}
    BY LinkParts
  <2>2. \A g \in All : stat'[g] \in {"held", "open", "lost"} <=> stat[g] \in {"held", "open", "lost"}
    OBVIOUS
  <2>3. QED
    BY <1>1, <2>1, <2>2 DEF MeshInv, LinkInv
<1>7. QED
  BY <1>1, <1>3, <1>4, <1>5, <1>6 DEF MeshInv

(* One store.                                                              *)
LEMMA StoreInv ==
    ASSUME MeshInv, NEW e \in All, Store(e)
    PROVE  MeshInv'
<1>0. /\ stat \in [All -> Status] /\ queue \subseteq All \X All /\ short \subseteq Party
  BY DEF MeshInv, StateType
<1>1. /\ stat[e] = "held" /\ stat' = [stat EXCEPT ![e] = "open"]
      /\ prog' = prog /\ block' = block /\ asked' = asked /\ met' = met
      /\ left' = left /\ cut' = cut /\ queue' = queue /\ links' = links /\ down' = down
      /\ short' = short /\ faults' = faults /\ excuse' = excuse
  BY DEF Store, relayVars
<1>2. \A g \in All : stat'[g] = IF g = e THEN "open" ELSE stat[g]
  BY <1>0, <1>1
<1>3. SocketsOnly
  <2>1. stat' \in [All -> Status]
    BY <1>0, <1>1 DEF Status
  <2>2. QED
    BY <1>0, <1>1, <2>1 DEF SocketsOnly
<1>4. QED
  BY <1>1, <1>2, <1>3, HeldInv

(* Two at once.                                                            *)
LEMMA StoreRaceInv ==
    ASSUME MeshInv, NEW d \in All, NEW e \in All, StoreRace(d, e)
    PROVE  MeshInv'
<1>0. /\ prog \in Programs /\ stat \in [All -> Status] /\ queue \subseteq All \X All
      /\ short \subseteq Party /\ faults \in 0..MaxFaults /\ d.me \in Party
  BY AllParts DEF MeshInv, StateType
<1>1. d # e /\ stat[d] = "held" /\ stat[e] = "held" /\ faults' = faults
  BY DEF StoreRace
<1>2. CASE Exit(d.me, {"map race"})
  BY <1>0, <1>1, <1>2, ExitInv
<1>3. CASE /\ stat' = [stat EXCEPT ![d] = "open", ![e] = "lost"]
           /\ short' \in {short, short \cup {d.me}}
           /\ excuse' = excuse \cup {"map race"}
           /\ UNCHANGED <<prog, block, relayVars, cut, queue, links, down>>
  <2>1. /\ prog' = prog /\ block' = block /\ asked' = asked /\ met' = met
        /\ left' = left /\ cut' = cut /\ queue' = queue /\ links' = links /\ down' = down
    BY <1>3 DEF relayVars
  <2>2. \A g \in All : stat'[g] = IF g = e THEN "lost" ELSE IF g = d THEN "open" ELSE stat[g]
    BY <1>0, <1>3
  <2>3. Raced' /\ excuse \subseteq excuse'
    BY <1>3 DEF Raced
  <2>4. SocketsOnly
    <3>1. stat' \in [All -> Status]
      BY <1>0, <1>3 DEF Status
    <3>2. short' \subseteq Party
      BY <1>0, <1>3
    <3>3. QED
      BY <1>0, <1>1, <2>1, <2>3, <3>1, <3>2 DEF SocketsOnly
  <2>5. QED
    BY <1>1, <2>1, <2>2, <2>3, <2>4, HeldInv
<1>4. QED
  BY <1>2, <1>3 DEF StoreRace

-----------------------------------------------------------------------------
(* All steps together.                                                     *)

(* A process that ends on its own, or is killed.                           *)
LEMMA EndsInv ==
    ASSUME MeshInv,
           \/ \E e \in All : Abort(e) \/ GiveUp(e)
           \/ \E p \in Party : Kill(p)
    PROVE  MeshInv'
<1>0. prog \in Programs /\ faults \in 0..MaxFaults /\ MaxFaults \in Nat
  BY MeshAssumption DEF MeshInv, StateType
<1>1. ASSUME NEW e \in All, Abort(e) \/ GiveUp(e) PROVE MeshInv'
  <2>1. e.me \in Party
    BY <1>0, AllParts
  <2>2. faults' \in 0..MaxFaults
    BY <1>0, <1>1 DEF Abort, GiveUp
  <2>3. \E why : Exit(e.me, why)
    BY <1>1 DEF Abort, GiveUp
  <2>4. QED
    BY <2>1, <2>2, <2>3, ExitInv
<1>2. ASSUME NEW p \in Party, Kill(p) PROVE MeshInv'
  <2>1. faults' = faults + 1 /\ faults < MaxFaults /\ Exit(p, {"killed"})
    BY <1>2 DEF Kill
  <2>2. faults' \in 0..MaxFaults
    BY <1>0, <2>1
  <2>3. QED
    BY <2>1, <2>2, ExitInv
<1>3. QED
  BY <1>1, <1>2

(* Nothing has been opened at the start.                                   *)
LEMMA InitInv ==
    ASSUME Init
    PROVE  MeshInv
<1>1. /\ prog \in Programs /\ block = [p \in Party |-> 1]
      /\ stat = [e \in UNION {Ends(p) : p \in Party} |-> "idle"]
      /\ asked = {} /\ met = {} /\ left = {} /\ cut = {} /\ queue = {} /\ links = {}
      /\ down = {} /\ short = {} /\ faults = 0 /\ excuse = {}
  BY DEF Init, R!RInit
<1>2. stat = [e \in All |-> "idle"]
  BY <1>1, Domain
<1>4. \A e \in All : stat[e] = "idle"
  BY <1>2
<1>5. MaxFaults \in Nat
  BY MeshAssumption
<1>6. StateType
  <2>1. block \in [Party -> 1..9]
    BY <1>1
  <2>2. stat \in [All -> Status] /\ 0 \in 0..MaxFaults
    BY <1>2, <1>5 DEF Status
  <2>3. QED
    BY <1>1, <2>1, <2>2 DEF StateType
<1>7. RankInv
  <2>1. SUFFICES ASSUME NEW e \in All
                 PROVE  /\ Rank(e) < block[e.me] => stat[e] \in {"open", "reset", "lost"}
                        /\ Rank(e) > block[e.me] => stat[e] = "idle"
    BY DEF RankInv
  <2>2. e.me \in Party /\ e \in Slots(e.me)
    BY <1>1, AllParts
  <2>3. Size(e.me) \in 1..8 /\ Rank(e) \in 1..Size(e.me) /\ block[e.me] = 1
    BY <1>1, <2>2, BlockFacts
  <2>4. ~ (Rank(e) < block[e.me])
    BY <2>3
  <2>5. QED
    BY <1>4, <2>4
<1>8. StatInv
  BY <1>4 DEF StatInv
<1>9. SessionInv /\ BrokenInv
  BY <1>1 DEF SessionInv, BrokenInv
<1>10. MetInv /\ QueueInv /\ LinkInv
  BY <1>1, <1>4 DEF MetInv, QueueInv, LinkInv
<1>11. QED
  BY <1>6, <1>7, <1>8, <1>9, <1>10 DEF MeshInv

(* The step of one socket.                                                 *)
LEMMA StepInv ==
    ASSUME MeshInv, NEW e \in All, Step(e)
    PROVE  MeshInv'
<1>1. CASE Abort(e)
  BY <1>1, EndsInv
<1>2. CASE Ask(e) \/ Secure(e)
  BY <1>2, AskInv, SecureInv
<1>3. CASE Listen(e) \/ Connect(e) \/ Reset(e) \/ Store(e)
  BY <1>3, ListenInv, ConnectInv, ResetInv, StoreInv
<1>4. QED
  BY <1>1, <1>2, <1>3 DEF Step

(* A step that changes nothing.                                            *)
LEMMA StutterInv ==
    ASSUME MeshInv, UNCHANGED vars
    PROVE  MeshInv'
<1>1. /\ prog' = prog /\ block' = block /\ stat' = stat /\ asked' = asked
      /\ met' = met /\ left' = left /\ cut' = cut /\ queue' = queue /\ links' = links
      /\ down' = down /\ short' = short /\ faults' = faults /\ excuse' = excuse
  BY DEF vars, relayVars
<1>2. stat \in [All -> Status] /\ queue \subseteq All \X All /\ short \subseteq Party
  BY DEF MeshInv, StateType
<1>3. SocketsOnly
  BY <1>1, <1>2 DEF SocketsOnly
<1>4. QED
  BY <1>1, <1>3, HeldInv

(* Every step keeps the invariant.                                         *)
LEMMA NextInv ==
    ASSUME MeshInv, [Next]_vars
    PROVE  MeshInv'
<1>1. DOMAIN stat = All
  BY DEF MeshInv, StateType
<1>2. CASE UNCHANGED vars
  BY <1>2, StutterInv
<1>3. ASSUME NEW e \in DOMAIN stat, Step(e) PROVE MeshInv'
  BY <1>1, <1>3, StepInv
<1>4. CASE RelayStep
  <2>1. PICK e \in asked, f \in asked : Meet(e, f)
    BY <1>4 DEF RelayStep
  <2>2. QED
    BY <2>1, MeetInv
<1>5. CASE AcceptStep
  <2>1. PICK x \in queue : Accept(x[2], x[1])
    BY <1>5 DEF AcceptStep
  <2>2. x = <<x[1], x[2]>>
    BY DEF MeshInv, StateType
  <2>3. QED
    BY <2>1, <2>2, AcceptInv
<1>6. ASSUME NEW p \in Party, Proceed(p) \/ Kill(p) PROVE MeshInv'
  BY <1>6, ProceedInv, EndsInv
<1>7. ASSUME NEW s \in met, Cut(s) PROVE MeshInv'
  BY <1>7, CutInv
<1>8. ASSUME NEW e \in DOMAIN stat, GiveUp(e) PROVE MeshInv'
  BY <1>1, <1>8, EndsInv
<1>9. ASSUME NEW d \in DOMAIN stat, NEW e \in DOMAIN stat, StoreRace(d, e) PROVE MeshInv'
  BY <1>1, <1>9, StoreRaceInv
<1>10. QED
  BY <1>2, <1>3, <1>4, <1>5, <1>6, <1>7, <1>8, <1>9 DEF Next

(***************************************************************************)
(* The inductive invariant: sockets are opened in the order of the blocks, *)
(* sessions and connections are of mirrored sockets, what a party holds is *)
(* one end of such a pair, and a handshake that a break caught stays in    *)
(* it until its process ends.                                              *)
(***************************************************************************)
THEOREM MeshInvariant == Spec => []MeshInv
<1>1. Init => MeshInv
  BY InitInv
<1>2. MeshInv /\ [Next]_vars => MeshInv'
  BY NextInv
<1>3. QED
  BY <1>1, <1>2, PTL DEF Spec

(***************************************************************************)
(* Every variable of the set-up keeps its type, with sessions and links    *)
(* between sockets that exist.                                             *)
(***************************************************************************)
THEOREM TypeCorrect == Spec => []TypeOK
<1>1. MeshInv => TypeOK
  <2> SUFFICES ASSUME MeshInv PROVE TypeOK
    OBVIOUS
  <2>1. StateType
    BY DEF MeshInv
  <2>2. UNION {Ends(p) : p \in Party} = All /\ DOMAIN stat = All
    BY <2>1, Domain DEF StateType
  <2>3. met \subseteq {{e, f} : e \in asked, f \in asked}
    BY DEF MeshInv, SessionInv
  <2>4. links \subseteq {{e, f} : e \in All, f \in All}
    BY <2>1, MirrorFacts DEF MeshInv, LinkInv, StateType
  <2>6. asked \subseteq AllEnds
    BY <2>1, AllParts DEF StateType
  <2>7. QED
    BY <2>1, <2>2, <2>3, <2>4, <2>6 DEF TypeOK, StateType, Status
<1>2. QED
  BY <1>1, MeshInvariant, PTL

(***************************************************************************)
(* A socket leads where its slot says, over the relay and over ports that  *)
(* are listened on twice, and a dialler is only reset when the process it  *)
(* dialled has ended.                                                      *)
(***************************************************************************)
THEOREM SocketsMatchHolds == Spec => []SocketsMatch
<1>1. MeshInv => SocketsMatch
  <2> SUFFICES ASSUME MeshInv PROVE SocketsMatch
    OBVIOUS
  <2>0. prog \in Programs /\ DOMAIN stat = All
    BY DEF MeshInv, StateType
  <2>1. ASSUME NEW l \in links, NEW e \in l PROVE l = {e, Mirror(e)}
    <3>1. PICK g \in All : l = {g, Mirror(g)}
      BY DEF MeshInv, LinkInv
    <3>2. Mirror(Mirror(g)) = g
      BY <2>0, MirrorFacts
    <3>3. QED
      BY <2>1, <3>1, <3>2
  <2>2. ASSUME NEW s \in met, NEW e \in s PROVE s = {e, Mirror(e)}
    BY <2>2, SessionPair
  <2>3. \A e \in DOMAIN stat : stat[e] = "reset" => e.peer \in down
    BY <2>0 DEF MeshInv, StatInv
  <2>4. QED
    BY <2>1, <2>2, <2>3 DEF SocketsMatch
<1>2. QED
  BY <1>1, MeshInvariant, PTL

(***************************************************************************)
(* A set-up that returns has every socket, each joined to its mirror, up   *)
(* to parties that have ended or are about to, whatever is killed or cut   *)
(* on the way and unless the map of a Go party was written by two threads. *)
(***************************************************************************)
THEOREM ReadyHasAllHolds == Spec => []ReadyHasAll
<1>1. MeshInv => ReadyHasAll
  <2>1. SUFFICES ASSUME MeshInv, "map race" \notin excuse, NEW p \in Party, Ready(p),
                        NEW e \in Ends(p), e.peer \notin down
                 PROVE  /\ stat[e] = "open"
                        /\ {e, Mirror(e)} \in links \cup met
                        /\ {e, Mirror(e)} \in cut => stat[Mirror(e)] = "asked"
    BY DEF ReadyHasAll
  <2>2. e \in All /\ e.me = p
    <3>1. Ends(p) = {g \in All : g.me = p}
      BY <2>1, Domain DEF MeshInv, StateType
    <3>2. QED
      BY <2>1, <3>1
  <2>3. Rank(e) < block[e.me]
    BY <2>1, <2>2, ReadyFacts DEF MeshInv
  <2>4. stat[e] \in {"open", "reset", "lost"}
    BY <2>1, <2>2, <2>3 DEF MeshInv, RankInv
  <2>5. stat[e] # "lost" /\ stat[e] # "reset"
    <3>1. ~Raced
      BY <2>1 DEF Raced
    <3>2. QED
      BY <2>1, <2>2, <3>1 DEF MeshInv, StatInv
  <2>6. stat[e] = "open"
    BY <2>4, <2>5
  <2>7. {e, Mirror(e)} \in links \cup met
    BY <2>1, <2>2, <2>6 DEF MeshInv, MetInv, LinkInv
  <2>8. ASSUME {e, Mirror(e)} \in cut PROVE stat[Mirror(e)] = "asked"
    <3>1. PICK g \in {e, Mirror(e)} : stat[g] = "asked"
      BY <2>1, <2>8 DEF MeshInv, BrokenInv
    <3>2. QED
      BY <2>6, <3>1
  <2>9. QED
    BY <2>6, <2>7, <2>8
<1>2. QED
  BY <1>1, MeshInvariant, PTL

=============================================================================
