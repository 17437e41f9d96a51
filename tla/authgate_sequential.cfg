CONSTANTS
  Worker = {w1}
  Host = {"old", "young"}
  Uptime <- MCUptime
  MAX_FAULTY_ATTEMPTS = 2
  LOCKOUT_PERIOD = 2
  Flaky = TRUE
  MayAbort = TRUE
  MaxNow = 6
  MaxFailures = 5
  None = None
SPECIFICATION Spec
INVARIANTS
  TypeOK
  FailuresBounded
PROPERTY RefusedOnlyWhileLocked
CHECK_DEADLOCK FALSE
