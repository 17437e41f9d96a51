CONSTANTS
  Worker = {w1, w2}
  Host = {"young"}
  Uptime <- MCUptime
  MAX_FAULTY_ATTEMPTS = 2
  LOCKOUT_PERIOD = 2
  Flaky = FALSE
  MayAbort = FALSE
  MaxNow = 1
  MaxFailures = 5
  None = None
SPECIFICATION Spec
INVARIANT FailuresBounded
CHECK_DEADLOCK FALSE
