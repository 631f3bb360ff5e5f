SPECIFICATION Spec
CONSTANTS
    w1 = w1
    w2 = w2
    Worker <- MCWorker
    Incoming <- MCIncoming
    TTL = 2
    SkipTTL = 1
    MaxRetries = 1
    MaxTime = 3
    MaxMsgs = 2
    MaxFaults = 1
SYMMETRY MCSymmetry
CHECK_DEADLOCK FALSE
INVARIANTS
    TypeOK
    
    NoAbandonedClaim
PROPERTIES
    HoldKept
    
