SPECIFICATION APISpec
CONSTANTS
  a = a
  b = b
  c1 = c1
  c2 = c2
  NumKeys = 2
  Label <- UniqueLabels
  Callers <- TwoCallers
  Remaining = {0, 5}
  SwitchThreshold = 1
  RateLimitCooldown = 4
  ErrorCooldown = 1
  MaxErrorCount = 2
  DefaultRetryAfter = 3
  TicksPerSecond = 2
  DayLength = 3
  MaxTime = 4
  ErrorCountBound = 3
SYMMETRY CallerSymmetry
INVARIANTS
  PoolTypeOK
  RecoveryBounded
  WorkConserving
  RetryOneSecondLater
PROPERTIES
  NoNewTrafficOnQuarantined
  SequentialExhaustion
