CONSTANTS
  w1 = w1
  w2 = w2
  none = none
  NoWorker = none
  NoPost = none
  Worker = {w1, w2}
  Post = {1}
  User = {1}
  Attr <- OnePost
  Retention = 2
  MaxList = 2
  TrimFraction = 1
  OverflowChecks = FALSE
  Now0 = 2
  InitLogs <- RaceLogs
  NumThreads = 2
  BatchSize = 1
  PartitionsPerThread = 1
  ShortPolls = FALSE
  LagFails = FALSE
  MaxSkew = 0
  TrimStalls = FALSE
  MaxNow = 2
  MaxEvents = 1
SPECIFICATION FairSpec
INVARIANTS
  TypeOK
  DeletedStaysDeleted
  PurgeCoversRaces
  BatchesExclusive
  StaleOnlyWithStraggler
PROPERTIES
  EventuallyReady
