----------------------------- MODULE MCAgRounds -----------------------------
EXTENDS AgRounds

(* Party 2 may be killed inside ABitMP::check, party 1 in the first exchange of
   FlexIn::input, party 3 in the last exchange of FlexOut::output.          *)
KillAt == {<<2, 9>>, <<1, 32>>, <<3, 39>>}
=============================================================================
