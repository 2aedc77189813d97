SPECIFICATION Spec
CONSTANTS
  Workers = {w1, w2}
  Leases = {1, 3, 4}
  MaxAttempts = 5
  MaxAge = 10
  InitialBackoff = 1
  MaxBackoff = 3
  Jitter = 1
  RequestTimeout = 2
  Overrun = 1
  RetryCap = 5
  RetryDefault = 2
  RetryAfter = {0, 4, 7}
  Restart = 2
  MaxCrashes = 2
  Horizon = 25
SYMMETRY Symmetry
INVARIANTS
  NoOverlap
  ClosedInTime
PROPERTIES
  PausesKept
CHECK_DEADLOCK FALSE
