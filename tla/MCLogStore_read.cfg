SPECIFICATION Spec
CONSTANTS
  proxy = proxy
  admin = admin
  oversized = oversized
  anyKind = anyKind
  r1 = r1
  d1 = d1
  Readers = {r1}
  Admins = {d1}
  Kinds = {proxy, admin, oversized}
  AdminKind = admin
  AnyKind = anyKind
  Length <- Lengths
  MaxToken = 3
  AskedLimits = {0, 1}
  ReadLimit = 2
  MaxEvents = 5
  MaxFailures = 1
INVARIANTS
  LogTypeOK
  FailureCostsAtMostNext
PROPERTIES
  AnswerIsNewest
  LongEventBlocksReading
