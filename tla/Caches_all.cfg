SPECIFICATION ACSpec
CONSTANTS
    t1 = t1
    r1 = r1
    r2 = r2
    w1 = w1
    Tokens = {t1}
    MaxRotations = 1
    Requests = {r1, r2}
    Writers = {w1}
    Rows <- SomeRows
    Tables <- SomeTables
    BatchRequests = {r2}
    AuthTTL = 1
    RbacTTL = 2
    MaxCacheSize = 1
    QueriesMayFail = TRUE
    MaxWrites = 2
    Free = Free
    None = None
INVARIANTS
    CachesCurrent
    ResultCurrent
    NoCircularWait
CHECK_DEADLOCK FALSE
