SPECIFICATION Spec
CONSTANTS
    t1 = t1
    t2 = t2
    key = key
    NoKey = NoKey
    Events = {1}
    DedupeKey <- MCNoKeys
    Ticks <- MCTicks
    MaxAttempts = 2
    BatchLimit = 1
    BackoffBase = 1
    BackoffCap = 1
    StuckAfter = 1
    MaxLosses = 0
PROPERTY
    PublishedIsFinal
