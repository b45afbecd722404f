SPECIFICATION Spec
CONSTANTS
  a = a
  b = b
  c1 = c1
  c2 = c2
  NumKeys = 2
  Label <- UniqueLabels
  Callers <- OneCaller
  Remaining = {0, 5}
  SwitchThreshold = 1
  RateLimitCooldown = 2
  ErrorCooldown = 1
  MaxErrorCount = 3
  DefaultRetryAfter = 3
  TicksPerSecond = 1
  DayLength = 3
  MaxTime = 4
  ErrorCountBound = 3
  ConfiguredRetries = 3
  UpstreamStatuses = {200, 404, 429, 401, 403, 500, 503}
INVARIANTS
  EveryUnavailableSaysWhen
