SPECIFICATION ContentSpec
CONSTANTS
    i1 = i1
    i2 = i2
    t1 = t1
    t2 = t2
    q1 = q1
    q2 = q2
    b1 = b1
    NoText = NoText
    NoItem = NoItem
    Items = {i1, i2}
    Texts = {t1, t2}
    Requests = {q1, q2}
    Workers = {b1}
    Libraries <- MCLibraries
    MaxMishaps = 1
    Unsaid = Unsaid
    Faqs = {f1}
    Sayings = {t1, t2}
    Admins = {a1, a2}
    MaxRefusals = 2
    r1 = r1
    r2 = r2
    w1 = w1
    n1 = n1
    n2 = n2
    Free = Free
    Nodes = {n1, n2}
    Readers = {r1, r2}
    Writers = {w1}
    NodeOf <- MCNodeOf
    TTL = 1
    LockTTL = 1
    MaxWrites = 1
INVARIANTS
    ContentTypeOK
    SearchFollowsStore
    BotAnswersAreCurrent
    CacheIsSound
PROPERTIES
    DeletedFaqComesBackOnlyByWork
    NothingStaysPending
    StalenessEnds
CHECK_DEADLOCK FALSE
