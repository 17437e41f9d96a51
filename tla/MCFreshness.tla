---------------------------- MODULE MCFreshness ----------------------------
(***************************************************************************)
(* Instances of the freshness module: the client's stores all send version *)
(* 0; s2 is the store of a client that counts and sends 1.                 *)
(***************************************************************************)
EXTENDS Freshness, TLC

CONSTANTS s0, s1, s2, r1

Same == Permutations({s0, s1})
MixedVer == [c \in Store |-> IF c = s2 THEN 1 ELSE 0]
=============================================================================
