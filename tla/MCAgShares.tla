----------------------------- MODULE MCAgShares -----------------------------
EXTENDS AgShares

(* Blocks of three bits; keys and labels are arbitrary but fixed, the shares
   and the choices of global keys are enumerated.                           *)
MCBits == 0..2
MCKey(i, p, q) == {b \in MCBits : ((i + 2) * (p + 3 * q) + b * (i + p)) % 3 = 0}
MCLabel(p, w) == {b \in MCBits : (p * w + b * (p + w)) % 2 = 0}
MCDeltas == { [p \in Party |-> IF p = 1 THEN {0} ELSE {0, 1}],
              [p \in Party |-> {b \in MCBits : (b + p) % 3 # 0}] }

Weight(b) == Cardinality(b)
BitNumber(u) == IF u THEN 1 ELSE 0
MCH(block, i) ==
    {b \in MCBits : (Weight(block) + b * i[1] + Len(i)
                     + BitNumber(i[Len(i)]) + (IF b \in block THEN 1 ELSE 0)) % 3 = 1}
MCG(x, y, i, k) ==
    {b \in MCBits : (Weight(x) + 2 * Weight(y) + b * k + BitNumber(i[2]) + 2 * BitNumber(i[3])
                     + (IF b \in x THEN 1 ELSE 0)) % 3 = 0}

\* x1 AND NOT x2, by all three kinds of gate
MCGates == << [op |-> "XOR", a |-> 1, b |-> 2], [op |-> "NOT", a |-> 3, b |-> 3],
              [op |-> "AND", a |-> 4, b |-> 2], [op |-> "XOR", a |-> 5, b |-> 1] >>

Of(S) == [p \in Party |-> p \in S]
MCTripleShares == { Of({}), Of({1}), Of({2, 3}) }
MCPads == { [p \in Party |-> Of({2} \ {p})], [p \in Party |-> Of({3} \ {p})] }
MCWireShares == { Of({1}), Of({1, 2}), Of({3}) }
MCAssignments ==
    { [in |-> <<AuthShare, 2>>, out |-> [w \in Outputs |-> AuthShare]],
      [in |-> <<UnauthShare, AuthShare>>, out |-> [w \in Outputs |-> 3]],
      [in |-> <<1, Public>>, out |-> [w \in Outputs |-> Public]] }
=============================================================================
