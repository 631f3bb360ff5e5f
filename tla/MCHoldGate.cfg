SPECIFICATION FairSpec
CONSTANTS
    t1 = t1
    t2 = t2
    Task = {t1, t2}
    NoTask = NoTask
    SuspendHold = {"s"}
    Exempt = {"s"}
    Label = {"l"}
    Faults = {"reachable", "neutral", "failure"}
    Life = 1
    Ttl = 1
    BreakerFailures = 2
    BreakerOpen = 2
    ReachableErrors = 2
    Backoff = 1
    Stale = 1
    AgeMax = 1
INVARIANTS TypeOK HoldsRespected OneTrial
PROPERTIES CacheMovesForward OpenRunsItsTime Recovers
