------------------------------- MODULE MCU2F --------------------------------
EXTENDS U2F, TLC

Symmetry == Permutations(Op) \cup Permutations(Passcode)
=============================================================================
