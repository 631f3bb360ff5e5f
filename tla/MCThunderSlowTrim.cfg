CONSTANTS
  w1 = w1
  w2 = w2
  none = none
  NoWorker = none
  NoPost = none
  Worker = {w1}
  Post = {1, 2}
  User = {1}
  Attr <- TwoPosts
  Retention = 2
  MaxList = 2
  TrimFraction = 1
  OverflowChecks = FALSE
  Now0 = 2
  InitLogs <- AgeLogs
  NumThreads = 1
  BatchSize = 1
  PartitionsPerThread = 1
  ShortPolls = FALSE
  LagFails = TRUE
  MaxSkew = 0
  TrimStalls = TRUE
  MaxNow = 4
  MaxEvents = 2
SPECIFICATION Spec
INVARIANTS
  RecentPostsHeld
