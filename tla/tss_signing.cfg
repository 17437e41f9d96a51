CONSTANTS
  N = 3
  L = 5
  P2P = {1, 3}
  Round <- SigningRound
  Fragile = {1}
SPECIFICATION FairSpec
INVARIANTS
  TypeOK
  TypesAgree
  AtMostTwoInFlight
  DoneHasReadAll
PROPERTIES
  AllEnd
  NobodyStranded
CHECK_DEADLOCK FALSE
