CONSTANTS
  s0 = s0
  s1 = s1
  s2 = s2
  r1 = r1
  None = None
  Store = {s0, s1, s2}
  Retrieve = {r1}
  Ver <- MixedVer
  Overlap = TRUE
  Lossy = {s0, s1}
SYMMETRY Same
SPECIFICATION Spec
INVARIANTS
  TypeOK
  InitialStoreAccepted
CHECK_DEADLOCK FALSE
PROPERTY FreshAfterStore
