SPECIFICATION TrailSpec
CONSTANTS
  a = a
  b = b
  c1 = c1
  NumKeys = 2
  Label <- UniqueLabels
  Callers <- OneCaller
  Remaining = {0, 5}
  SwitchThreshold = 1
  RateLimitCooldown = 1
  ErrorCooldown = 1
  MaxErrorCount = 2
  DefaultRetryAfter = 3
  TicksPerSecond = 1
  DayLength = 2
  MaxTime = 2
  ErrorCountBound = 3
  ConfiguredRetries = 3
  UpstreamStatuses = {200, 404, 429, 401, 403, 500, 503}
INVARIANT
  EveryRetryTakesAnotherKey
