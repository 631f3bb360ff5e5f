CONSTANTS
  w1 = w1
  w2 = w2
  none = none
  NoWorker = none
  NoPost = none
  Worker = {w1}
  Post = {1, 2, 3}
  User = {1}
  Attr <- VideoPosts
  Retention = 2
  MaxList = 1
  TrimFraction = 1
  OverflowChecks = TRUE
  Now0 = 3
  InitLogs <- TrimLogs
  NumThreads = 1
  BatchSize = 1
  PartitionsPerThread = 1
  ShortPolls = FALSE
  LagFails = TRUE
  MaxSkew = 1
  TrimStalls = TRUE
  MaxNow = 5
  MaxEvents = 1
SPECIFICATION Spec
INVARIANTS
  DeletedStaysDeleted
  RecentPostsHeld
  NoOrphan
PROPERTIES
  TombstoneOutlivesPost
CHECK_DEADLOCK FALSE
