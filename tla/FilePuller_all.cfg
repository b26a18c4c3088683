\* Callback, catch-up and two workers; peers fail, vanish and corrupt; Stop.
SPECIFICATION Spec
SYMMETRY WorkerSymmetry
CONSTANTS
    Paths = {1, 2, 3}
    Restored = {1, 2, 3}
    SelfPaths = {3}
    SizeOf <- OneVersion
    Workers = {w1, w2}
    QueueSize = 1
    RetryMaxAttempts = 2
    MaxPeers = 1
    PageSize = 1
    FetchMayFail = TRUE
    MayCorrupt = TRUE
    MayStop = TRUE
    MaxApplies = 1
    NoFile = NoFile
    w1 = w1
    w2 = w2
INVARIANTS
    InflightExact
    TagsOwned
    FinalVerified
    GateMissesOnly
CHECK_DEADLOCK FALSE
