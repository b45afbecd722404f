SPECIFICATION Spec
CONSTANTS
  a = a
  b = b
  c1 = c1
  c2 = c2
  NumKeys = 1
  Label <- OneLabel
  Callers <- TwoCallers
  Remaining = {0}
  SwitchThreshold = 1
  RateLimitCooldown = 1
  ErrorCooldown = 1
  MaxErrorCount = 1
  DefaultRetryAfter = 3
  TicksPerSecond = 1
  DayLength = 2
  MaxTime = 2
  ErrorCountBound = 3
  ConfiguredRetries = 2
  UpstreamStatuses = {200, 404, 429, 401}
PROPERTIES
  PoolContract
  DeliversAsPromised
  EveryRequestCloses
  CancellationNeverCharged
