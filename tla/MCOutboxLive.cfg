SPECIFICATION FairSpec
CONSTANTS
    t1 = t1
    t2 = t2
    key = key
    NoKey = NoKey
    Events = {1, 2, 3}
    DedupeKey <- MCSharedKey
    Ticks <- MCTicks
    MaxAttempts = 1
    BatchLimit = 1
    BackoffBase = 1
    BackoffCap = 1
    StuckAfter = 1
    MaxLosses = 1
PROPERTY
    EventuallySettled
CHECK_DEADLOCK FALSE
