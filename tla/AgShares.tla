------------------------------ MODULE AgShares ------------------------------
(***************************************************************************)
(* The values of one run of an AG-MPC program, for parties that follow it: *)
(* authenticated bits, AND triples, the garbled circuit of parties 2..N,   *)
(* its evaluation by party 1, and the inputs and outputs of FlexIn and     *)
(* FlexOut.  The order of the messages is AgRounds'; here a phase is one   *)
(* action, and what a party received is what its sender computed.          *)
(*                                                                         *)
(* A block (128 bits) is the set of its one-bits, so that ^ is symmetric   *)
(* difference.  An authenticated bit of all parties together is a record:  *)
(* r[p] is p's share, key[p][q] the key p holds for q's share, mac[p][q]   *)
(* the MAC p holds on its own share under q's key.                         *)
(***************************************************************************)
EXTENDS Integers, Sequences, FiniteSets

CONSTANTS
    N,              \* nP
    Bits,           \* the bit positions of a block
    Lsb,            \* the lowest one
    Deltas,         \* choices of every party's global key: functions on Party
    TripleShares,   \* share vectors tried for the bits of a leaky triple
    Pads,           \* pads tried for a leaky triple: a bit for every pair of parties
    WireShares,     \* share vectors tried for the masks of wires and for inputs
    Key(_, _, _),   \* Key(i, p, q): the key p draws for q's i-th bit
    Label(_, _),    \* Label(p, w): the zero label p draws for wire w
    H(_, _),        \* the hash of a block and an index (external)
    G(_, _, _, _),  \* G(a, b, i, k): k-th output of the hash of two labels (external)
    NumIn,          \* input wires 1..NumIn
    Gates,          \* Gates[w]: the gate whose output is wire w
    NumOut,         \* the last NumOut wires are the outputs
    Bucket,         \* bucket_size
    Assignments     \* choices of party_assignment: [in |-> per input, out |-> per output]

Party == 1..N
Wire == 1..(NumIn + Len(Gates))
Block == SUBSET Bits

Gate(w) == Gates[w - NumIn]
IsAnd(w) == w > NumIn /\ Gate(w).op = "AND"
Ands == {w \in Wire : IsAnd(w)}
Inputs == 1..NumIn
Outputs == {w \in Wire : w > NumIn + Len(Gates) - NumOut}

\* the bits are numbered: those of the triples, the masks, the user's shares
KeyIndex == 0..(3 * Bucket) \cup {100 + w : w \in Wire} \cup {200 + w : w \in Wire}

\* values of party_assignment that are not a party
UnauthShare == -2
AuthShare == -1
Public == 0

ASSUME SharesAssumption ==
    /\ N \in Nat \ {0, 1} /\ NumIn \in Nat \ {0} /\ Bucket \in Nat \ {0}
    /\ Lsb \in Bits
    /\ Deltas \subseteq [Party -> Block \ {{}}]
    /\ TripleShares \cup WireShares \subseteq [Party -> BOOLEAN]
    /\ Pads \subseteq [Party -> [Party -> BOOLEAN]]
    /\ \A i \in KeyIndex, p \in Party, q \in Party : Key(i, p, q) \in Block
    /\ \A p \in Party, w \in Wire : Label(p, w) \in Block
    /\ Gates \in Seq([op : {"AND", "XOR", "NOT"}, a : Nat \ {0}, b : Nat \ {0}])
    /\ \A w \in Wire : w > NumIn => Gate(w).a < w /\ Gate(w).b < w
    /\ NumOut \in 0..Len(Gates)
    /\ \A as \in Assignments : as.in \in [Inputs -> -2..N] /\ as.out \in [Outputs -> -1..N]

VARIABLES
    delta,      \* the parties' global keys
    stage,      \* "triples", "dependent", "input", "evaluate", "output", "done"
    bucket,     \* leaky triples of the bucket being filled
    triples,    \* triples made so far, one per AND gate
    mask,       \* mask[w]: the authenticated bit that masks wire w
    sigma,      \* sigma[w]: the authenticated AND of the input masks of gate w
    assigned,   \* the assignment of FlexIn and FlexOut
    inputs,     \* inputs[w]: the input bit as one bit per party
    masked,     \* masked[w]: input bit of wire w XOR its mask, known to everyone
    seen,       \* what party 1 holds after the evaluation: bit and labels per wire
    outputs,    \* outputs[w]: the authenticated share, and the bit of each receiver
    cheat       \* a check of an opened value failed

vars == <<delta, stage, bucket, triples, mask, sigma, assigned, inputs, masked, seen, outputs, cheat>>

-----------------------------------------------------------------------------
(* Blocks, shares and authenticated bits *)

a (+) b == (a \ b) \cup (b \ a)
When(c, block) == IF c THEN block ELSE {}
Odd(S) == Cardinality(S) % 2 = 1
XorOver(S, f) == {x \in Bits : Odd({i \in S : x \in f[i]})}
Open(r) == Odd({p \in Party : r[p]})
Others(p) == Party \ {p}

\* MAC = KEY ^ (bit ? Delta : 0): what a correlated OT delivers
Authenticated(r, key) ==
    [r |-> r, key |-> key,
     mac |-> [p \in Party |-> [q \in Party |-> key[q][p] (+) When(r[p], delta[q])]]]

\* the i-th bit of ABitMP::compute
Abit(i, r) == Authenticated(r, [p \in Party |-> [q \in Party |-> Key(i, p, q)]])

Xor(x, y) ==
    [r |-> [p \in Party |-> x.r[p] # y.r[p]],
     key |-> [p \in Party |-> [q \in Party |-> x.key[p][q] (+) y.key[p][q]]],
     mac |-> [p \in Party |-> [q \in Party |-> x.mac[p][q] (+) y.mac[p][q]]]]

XorIf(c, x, y) == IF c THEN Xor(x, y) ELSE x

\* p's share flips by e[p], and everyone else corrects its key for p
Correct(x, e) ==
    [r |-> [p \in Party |-> x.r[p] # e[p]],
     key |-> [p \in Party |-> [q \in Party |-> x.key[p][q] (+) When(q # p /\ e[q], delta[p])]],
     mac |-> x.mac]

\* a public bit is added to the share of party 1
AddPublic(x, c) == Correct(x, [p \in Party |-> c /\ p = 1])

\* q verifies the shares the others open to it
OpenedTo(x, q) ==
    \A p \in Others(q) : x.mac[p][q] = x.key[q][p] (+) When(x.r[p], delta[q])

Valid(x) == \A q \in Party : OpenedTo(x, q)

-----------------------------------------------------------------------------
(* FpreMP::compute: leaky triples, their check and the buckets *)

\* the bit the lower party p sends to q in row <<u, v>> for the i-th triple, masked with s
Garble(x, y, p, q, s, i, u, v) ==
    LET h == H(x.key[p][q] (+) When(u, delta[p]), <<i, 0, u>>)
             (+) H(y.key[p][q] (+) When(v, delta[p]), <<i, 1, v>>)
    IN  (Lsb \in h) # (((u # x.r[p]) /\ (v # y.r[p])) # s)

\* q opens the row its own shares select
EvaluateBit(x, y, p, q, s, i) ==
    LET h == H(x.mac[q][p], <<i, 0, x.r[q]>>) (+) H(y.mac[q][p], <<i, 1, y.r[q]>>)
    IN  Garble(x, y, p, q, s, i, x.r[q], y.r[q]) # (Lsb \in h)

\* p's share of what it computes with q: the lower party draws s[p][q]
CrossShare(x, y, p, q, s, i) ==
    LET own == x.r[p] /\ y.r[p]
    IN  own # (IF p < q THEN s[p][q] ELSE EvaluateBit(x, y, q, p, s[q][p], i))

\* a share of the product: the own term and one share per pair the party is in
Product(x, y, s, i) ==
    [p \in Party |->
        (x.r[p] /\ y.r[p]) # Odd({q \in Others(p) : CrossShare(x, y, p, q, s, i)})]

\* z, a random authenticated bit, becomes the product: e is broadcast
LeakyAnd(x, y, z, s, i) ==
    LET c == Product(x, y, s, i)
    IN  [a |-> x, b |-> y, c |-> Correct(z, [p \in Party |-> c[p] # z.r[p]])]

\* Mutant: the own share of b is left out of phi
PhiNoDelta(t, p) ==
    XorOver(Others(p), [q \in Others(p) |-> t.b.key[p][q] (+) t.b.mac[p][q]])

\* the value every party contributes to the check of a triple
Phi(t, p) ==
    XorOver(Others(p), [q \in Others(p) |-> t.b.key[p][q] (+) t.b.mac[p][q]])
    (+) When(t.b.r[p], delta[p])

PhiSent(t, p, q, i) ==
    H(t.a.key[p][q], <<i, FALSE>>) (+) H(t.a.key[p][q] (+) delta[p], <<i, TRUE>>)
    (+) Phi(t, p)

PhiMac(t, p, q, i) ==
    H(t.a.mac[p][q], <<i, t.a.r[p]>>) (+) When(t.a.r[p], PhiSent(t, q, p, i))

Contribution(t, p, i) ==
    XorOver(Others(p), [q \in Others(p) |-> H(t.a.key[p][q], <<i, FALSE>>) (+) PhiMac(t, p, q, i)
                                             (+) t.c.key[p][q] (+) t.c.mac[p][q]])
    (+) When(t.a.r[p], Phi(t, p)) (+) When(t.c.r[p], delta[p])

AndCheck(t, i) == XorOver(Party, [p \in Party |-> Contribution(t, p, i)]) = {}

\* d[k]: the opened difference of the b's of the first and the k-th triple
Opened(ts, k) == Open(ts[1].b.r) # Open(ts[k].b.r)

\* Mutant: the a's of the triples whose b differs are not added to c
CombineNoD(ts) ==
    LET upTo[k \in 1..Len(ts)] ==
            IF k = 1 THEN ts[1]
            ELSE [a |-> Xor(upTo[k - 1].a, ts[k].a), b |-> ts[1].b,
                  c |-> Xor(upTo[k - 1].c, ts[k].c)]
    IN  upTo[Len(ts)]

\* the combination of the triples ts[1..k]
Combine(ts) ==
    LET upTo[k \in 1..Len(ts)] ==
            IF k = 1 THEN ts[1]
            ELSE [a |-> Xor(upTo[k - 1].a, ts[k].a),
                  b |-> ts[1].b,
                  c |-> XorIf(Opened(ts, k), Xor(upTo[k - 1].c, ts[k].c), ts[k].a)]
    IN  upTo[Len(ts)]

-----------------------------------------------------------------------------
(* The circuit *)

\* the value of every wire when the circuit is evaluated in the clear
PlainValues(x) ==
    LET val[w \in Wire] ==
            IF w <= NumIn THEN x[w]
            ELSE LET g == Gate(w)
                 IN  IF g.op = "AND" THEN val[g.a] /\ val[g.b]
                     ELSE IF g.op = "XOR" THEN val[g.a] # val[g.b]
                     ELSE ~val[g.a]
    IN  val

\* masks of the wires, from those of the inputs and of the AND outputs
Masks(pre) ==
    LET m[w \in Wire] ==
            IF w <= NumIn \/ IsAnd(w) THEN pre[w]
            ELSE IF Gate(w).op = "XOR" THEN Xor(m[Gate(w).a], m[Gate(w).b])
            ELSE m[Gate(w).a]
    IN  m

\* zero labels of party p
Labels(p) ==
    LET lab[w \in Wire] ==
            IF w <= NumIn \/ IsAnd(w) THEN Label(p, w)
            ELSE IF Gate(w).op = "XOR" THEN lab[Gate(w).a] (+) lab[Gate(w).b]
            ELSE lab[Gate(w).a] (+) delta[p]
    IN  lab

\* position of AND gate w among the AND gates
AndIndex(w) == Cardinality({u \in Ands : u <= w})

\* Mutant: the product of the two opened differences is forgotten
BeaverNoPublic(ma, mb, t) ==
    LET x == Open(ma.r) # Open(t.a.r)
        y == Open(mb.r) # Open(t.b.r)
    IN  XorIf(y, XorIf(x, t.c, t.b), t.a)

\* Beaver: the product of the masks ma and mb from the triple t
BeaverAnd(ma, mb, t) ==
    LET x == Open(ma.r) # Open(t.a.r)
        y == Open(mb.r) # Open(t.b.r)
    IN  AddPublic(XorIf(y, XorIf(x, t.c, t.b), t.a), x /\ y)

\* Mutant: row 3 is not flipped for the public product
RowNoPublic(w, u, v) ==
    LET base == Xor(sigma[w], mask[w])
    IN  XorIf(u, XorIf(v, base, mask[Gate(w).a]), mask[Gate(w).b])

\* the authenticated bit in row <<u, v>> of AND gate w: the masked output
\* for masked inputs u and v
Row(w, u, v) ==
    LET base == Xor(sigma[w], mask[w])
        withA == XorIf(v, base, mask[Gate(w).a])
        withB == XorIf(u, withA, mask[Gate(w).b])
    IN  AddPublic(withB, u /\ v)

\* what p > 1 sends for row <<u, v>> of gate w: one block per party
GarbledRow(p, w, u, v) ==
    LET row == Row(w, u, v)
        la == Labels(p)[Gate(w).a] (+) When(u, delta[p])
        lb == Labels(p)[Gate(w).b] (+) When(v, delta[p])
    IN  [k \in Party |->
            G(la, lb, <<AndIndex(w), u, v>>, k)
            (+) (IF k # p THEN row.mac[p][k]
                 ELSE XorOver(Others(p), [q \in Others(p) |-> row.key[p][q]])
                      (+) Labels(p)[w] (+) When(row.r[p], delta[p]))]

\* party 1 opens the rows of w that its masked bits u, v and labels select
EvaluateAnd(w, u, v, la, lb) ==
    LET row == Row(w, u, v)
        plain == [j \in Others(1) |->
                    [k \in Party |-> G(la[j], lb[j], <<AndIndex(w), u, v>>, k)
                                     (+) GarbledRow(j, w, u, v)[k]]]
    IN  [bit |-> row.r[1] # Odd({j \in Others(1) : plain[j][1] # row.key[1][j]
                                                  /\ plain[j][1] = row.key[1][j] (+) delta[1]}),
         lab |-> [k \in Others(1) |-> row.mac[1][k] (+) XorOver(Others(1), [j \in Others(1) |-> plain[j][k]])],
         match |-> \A j \in Others(1) :
                      plain[j][1] \in {row.key[1][j], row.key[1][j] (+) delta[1]}]

\* the evaluation loop of online
EvaluateCircuit(x) ==
    LET ev[w \in Wire] ==
            IF w <= NumIn
            THEN [bit |-> x[w], match |-> TRUE,
                  lab |-> [j \in Others(1) |-> Labels(j)[w] (+) When(x[w], delta[j])]]
            ELSE LET g == Gate(w) IN
                 IF g.op = "AND"
                 THEN EvaluateAnd(w, ev[g.a].bit, ev[g.b].bit, ev[g.a].lab, ev[g.b].lab)
                 ELSE IF g.op = "XOR"
                 THEN [bit |-> ev[g.a].bit # ev[g.b].bit, match |-> TRUE,
                       lab |-> [j \in Others(1) |-> ev[g.a].lab[j] (+) ev[g.b].lab[j]]]
                 ELSE [bit |-> ~ev[g.a].bit, match |-> TRUE, lab |-> ev[g.a].lab]
    IN  ev

-----------------------------------------------------------------------------
Init ==
    /\ delta \in Deltas /\ assigned \in Assignments
    /\ stage = "triples"
    /\ bucket = <<>> /\ triples = <<>>
    /\ mask = <<>> /\ sigma = <<>>
    /\ inputs = <<>> /\ masked = <<>> /\ seen = <<>> /\ outputs = <<>>
    /\ cheat = FALSE

\* one leaky triple from three authenticated bits; the AND check follows
LeakyTriple ==
    /\ stage = "triples" /\ Len(bucket) < Bucket
    /\ \E x, y, z \in TripleShares, s \in Pads :
          LET i == 3 * Len(bucket)
              t == LeakyAnd(Abit(i, x), Abit(i + 1, y), Abit(i + 2, z), s, i)
          IN  /\ bucket' = Append(bucket, t)
              /\ cheat' = (cheat \/ ~AndCheck(t, i))
    /\ UNCHANGED <<delta, stage, triples, mask, sigma, assigned, inputs, masked, seen, outputs>>

CombineBucket ==
    /\ stage = "triples" /\ Len(bucket) = Bucket
    /\ triples' = Append(triples, Combine(bucket))
    /\ bucket' = <<>>
    /\ stage' = IF Len(triples') = Cardinality(Ands) THEN "dependent" ELSE "triples"
    /\ UNCHANGED <<delta, mask, sigma, assigned, inputs, masked, seen, outputs, cheat>>

\* the masks of function_independent and all of function_dependent
FunctionDependent ==
    /\ stage = "dependent"
    /\ \E pre \in [Inputs \cup Ands -> WireShares] :
          LET m == Masks([w \in DOMAIN pre |-> Abit(100 + w, pre[w])])
          IN  /\ mask' = m
              /\ sigma' = [w \in Ands |->
                             BeaverAnd(m[Gate(w).a], m[Gate(w).b], triples[AndIndex(w)])]
    /\ triples' = <<>>
    /\ stage' = "input"
    /\ UNCHANGED <<delta, bucket, assigned, inputs, masked, seen, outputs, cheat>>

\* an authenticated share that the user's client builds for a bit with shares v
BuiltShare(w, v) == Abit(200 + w, v)

\* FlexIn::input for wire w: the checks of the opened values
InputPasses(w, v) ==
    /\ assigned.in[w] = AuthShare => Valid(Xor(BuiltShare(w, v), mask[w]))
    /\ assigned.in[w] = Public => Valid(mask[w])
    /\ assigned.in[w] \in Party => OpenedTo(mask[w], assigned.in[w])

\* shares are masked one by one and opened; a known bit is masked with the opened mask
MaskedInput(w, v) ==
    IF assigned.in[w] \in {AuthShare, UnauthShare}
    THEN Open([p \in Party |-> v[p] # mask[w].r[p]])
    ELSE Open(v) # Open(mask[w].r)

Input ==
    /\ stage = "input"
    /\ \E ins \in [Inputs -> WireShares] :
          /\ inputs' = ins
          /\ masked' = [w \in Inputs |-> MaskedInput(w, ins[w])]
          /\ cheat' = (cheat \/ \E w \in Inputs : ~InputPasses(w, ins[w]))
    /\ stage' = "evaluate"
    /\ UNCHANGED <<delta, bucket, triples, mask, sigma, assigned, seen, outputs>>

Evaluate ==
    /\ stage = "evaluate"
    /\ seen' = EvaluateCircuit(masked)
    /\ stage' = "output"
    /\ UNCHANGED <<delta, bucket, triples, mask, sigma, assigned, inputs, masked, outputs, cheat>>

\* what p takes for the masked output of w: party 1 knows it, the others
\* compare the label party 1 returns with their own
MaskedOutput(p, w) ==
    IF p = 1 THEN seen[w].bit ELSE seen[w].lab[p] # Labels(p)[w]

LabelKnown(p, w) ==
    p = 1 \/ seen[w].lab[p] \in {Labels(p)[w], Labels(p)[w] (+) delta[p]}

\* Mutant: the others keep their old key for the share party 1 has flipped
OutputShareOldKey(w) ==
    [mask[w] EXCEPT !.r = [p \in Party |-> mask[w].r[p] # (p = 1 /\ MaskedOutput(1, w))]]

\* each party's part of an authenticated output
OutputShare(w) ==
    [r |-> [p \in Party |-> mask[w].r[p] # (p = 1 /\ MaskedOutput(1, w))],
     key |-> [p \in Party |-> [q \in Party |->
                 mask[w].key[p][q] (+) When(p # 1 /\ q = 1 /\ MaskedOutput(p, w), delta[p])]],
     mac |-> mask[w].mac]

\* the plaintext p computes
OutputBit(p, w) == MaskedOutput(p, w) # Open(mask[w].r)

Receives(p, w) == assigned.out[w] \in {Public, p}

Output ==
    /\ stage = "output"
    /\ outputs' = [w \in Outputs |->
          [share |-> OutputShare(w),
           bit |-> [p \in {q \in Party : Receives(q, w)} |-> OutputBit(p, w)]]]
    /\ cheat' = (cheat \/ \E w \in Outputs, p \in Party :
                    \/ ~LabelKnown(p, w)
                    \/ Receives(p, w) /\ ~OpenedTo(mask[w], p))
    /\ stage' = "done"
    /\ UNCHANGED <<delta, bucket, triples, mask, sigma, assigned, inputs, masked, seen>>

Done == stage = "done" /\ UNCHANGED vars

Next ==
    \/ LeakyTriple \/ CombineBucket \/ FunctionDependent
    \/ Input \/ Evaluate \/ Output \/ Done

Spec == Init /\ [][Next]_vars

-----------------------------------------------------------------------------
Triple(t) == Open(t.c.r) = (Open(t.a.r) /\ Open(t.b.r))

(* Leaky triples, the triples their buckets give, and the products that
   function_dependent derives from them multiply: the shares of the third
   open to the AND of the other two.                                       *)
TriplesMultiply ==
    /\ \A i \in DOMAIN bucket : Triple(bucket[i])
    /\ \A i \in DOMAIN triples : Triple(triples[i])
    /\ \A w \in DOMAIN sigma :
          Open(sigma[w].r) = (Open(mask[Gate(w).a].r) /\ Open(mask[Gate(w).b].r))

(* Every authenticated bit that some phase computes still carries MACs that
   the other parties' keys verify, and so does an authenticated output, which
   a later circuit takes as input under the same global keys.              *)
MacsVerify ==
    /\ \A i \in DOMAIN bucket : Valid(bucket[i].a) /\ Valid(bucket[i].b) /\ Valid(bucket[i].c)
    /\ \A i \in DOMAIN triples : Valid(triples[i].a) /\ Valid(triples[i].b) /\ Valid(triples[i].c)
    /\ \A w \in DOMAIN mask : Valid(mask[w])
    /\ \A w \in DOMAIN sigma : Valid(sigma[w])
    /\ \A w \in DOMAIN outputs : Valid(outputs[w].share)

(* On every wire, the label party 1 holds for each garbler is that garbler's
   label for the masked value of the wire, and the row of every AND gate
   opens: "no match GT!" is never printed.                                 *)
EvaluationTracksWires ==
    seen # <<>> =>
        LET plain == PlainValues([w \in Inputs |-> Open(inputs[w])])
        IN  \A w \in Wire :
               /\ seen[w].match
               /\ seen[w].bit = (plain[w] # Open(mask[w].r))
               /\ \A j \in Others(1) : seen[w].lab[j] = Labels(j)[w] (+) When(seen[w].bit, delta[j])

(* Whatever mixture of private, shared, authenticated and public inputs and
   outputs is assigned, everyone who receives an output receives the value
   of the circuit, and an authenticated output opens to it.                *)
ResultIsTheCircuit ==
    outputs # <<>> =>
        LET plain == PlainValues([w \in Inputs |-> Open(inputs[w])])
        IN  \A w \in Outputs :
               /\ \A p \in DOMAIN outputs[w].bit : outputs[w].bit[p] = plain[w]
               /\ Open(outputs[w].share.r) = plain[w]

(* Parties that follow the program are never taken for cheaters: no AND check,
   no MAC check of FlexIn or FlexOut and no label comparison fails.        *)
NoFalseCheat == ~cheat
=============================================================================
