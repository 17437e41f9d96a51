CONSTANTS
  o1 = o1
  o2 = o2
  c2 = c2
  c1 = c1
  None = None
  N = 3
  Op = {o1, o2}
  Passcode = {c1, c2}
  MAX_FAULTY_ATTEMPTS = 2
SPECIFICATION Spec
INVARIANTS
  LockedOnlyByFailures
PROPERTY VerdictIsFreshness
CHECK_DEADLOCK FALSE
SYMMETRY Symmetry
