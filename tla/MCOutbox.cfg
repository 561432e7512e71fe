SPECIFICATION Spec
CONSTANTS
    t1 = t1
    t2 = t2
    key = key
    NoKey = NoKey
    Events = {1, 2}
    DedupeKey <- MCNoKeys
    Ticks <- MCTicks
    MaxAttempts = 2
    BatchLimit = 2
    BackoffBase = 1
    BackoffCap = 1
    StuckAfter = 1
    MaxLosses = 0
SYMMETRY TickSymmetry
INVARIANTS
    TypeOK
    PublishedWasAccepted
    SingleHolder
    DuplicatesAccounted
    OverrunOnlyByRecovery
PROPERTY
    RelaySpec
CHECK_DEADLOCK FALSE
