------------------------------ MODULE MCRelay ------------------------------
(***************************************************************************)
(* Small instances of the relay: the connections a1, a2 of party A and b1, *)
(* b2 of party B ask for each other under one tag, so that the tag is used *)
(* twice, and c1 of A and d1 of B under another tag, so that two sessions  *)
(* share the maps without sharing a key.                                   *)
(***************************************************************************)
EXTENDS Relay

CONSTANTS a1, a2, b1, b2, c1, d1

MCParty == {"A", "B"}
MCReq == [c \in Conn |->
             [src |-> IF c \in {a1, a2, c1} THEN "A" ELSE "B",
              dst |-> IF c \in {a1, a2, c1} THEN "B" ELSE "A",
              tag |-> IF c \in {c1, d1} THEN "io" ELSE "sign"]]
=============================================================================
