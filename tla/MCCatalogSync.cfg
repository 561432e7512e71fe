SPECIFICATION Spec
CONSTANTS
    p1 = p1
    p2 = p2
    w1 = w1
    w2 = w2
    d1 = d1
    x1 = x1
    Free = Free
    NoProduct = NoProduct
    Processes <- MCProcesses
    Messages <- MCRequests
    Direct = {}
    Products = {}
    LockTTL = 1
    MaxFailures = 1
    MaxCrashes = 1
SYMMETRY MCSymmetry
INVARIANTS
    TypeOK
    OneHandlerUnlessExpired
    LockHasAHolder
    RequestAnswered
CHECK_DEADLOCK FALSE
