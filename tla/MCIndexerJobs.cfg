SPECIFICATION Spec
CONSTANTS
  MaxBlock = 4
  PageSize = 3
  Parallel = 2
  Refused = {2}
  Partial = {3}
  MaxRejects = 1
  MaxTip = 5
  Concurrency = 2
  BatchSize = 3
  MaxTrouble = 2
  MaxUrls = 2
  retriesPerUrl = 2
  maxLogRange = 5
  Hosts = {"a", "b"}
  Senders = {"s1", "s2"}
  MaxSends = 4
  Tokens = {"t1", "t2"}
  Exposed <- MCExposed
  Limit = 1
  IdleInterval = 3
  BusyInterval = 1
  BackoffMax = 3
  MaxLevel = 2
  StatusTtl = 5
  MaxCrashes = 1
  Logs <- MCLogs
  Shape <- MCShape
  Savers = {"index", "nft", "logs"}
INVARIANTS
  NothingPassedBy
  HolesKnown
  FillerCovers
  ThrowsAfterAll
  PreferredFirst
  StatusOutlasts
  EventInOneTable
PROPERTIES
  ReceiptsJobEnds
  ResolvedStays
CHECK_DEADLOCK FALSE
