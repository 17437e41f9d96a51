---------------------------- MODULE MCTssRounds ----------------------------
(***************************************************************************)
(* signingTypes with its seven closing broadcasts cut down to two: a       *)
(* point-to-point type and a broadcast in round 1, a point-to-point type,  *)
(* two broadcasts in rounds of their own.  Every change of kind and of     *)
(* round in keygenTypes occurs here too.                                   *)
(***************************************************************************)
EXTENDS TssRounds

SigningRound == <<1, 1, 2, 3, 4>>
=============================================================================
