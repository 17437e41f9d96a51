SPECIFICATION Spec
CONSTANTS
  N = 3
  Bits <- MCBits
  Lsb = 0
  Deltas <- MCDeltas
  TripleShares <- MCTripleShares
  Pads <- MCPads
  WireShares <- MCWireShares
  Key <- MCKey
  Label <- MCLabel
  H <- MCH
  G <- MCG
  NumIn = 2
  Gates <- MCGates
  NumOut = 1
  Bucket = 2
  Assignments <- MCAssignments
INVARIANTS
  TriplesMultiply
  MacsVerify
  EvaluationTracksWires
  ResultIsTheCircuit
  NoFalseCheat
