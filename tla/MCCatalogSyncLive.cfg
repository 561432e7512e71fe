SPECIFICATION FairSpec
CONSTANTS
    p1 = p1
    p2 = p2
    w1 = w1
    w2 = w2
    d1 = d1
    x1 = x1
    Free = Free
    NoProduct = NoProduct
    Processes = {p1}
    Messages <- MCRequests
    Direct = {d1}
    Products = {x1}
    LockTTL = 1
    MaxFailures = 1
    MaxCrashes = 1
INVARIANT
    ImportedOnce
PROPERTY
    LockComesBack
CHECK_DEADLOCK FALSE
