\* Liveness and the contract of the buffer: failing storage, Close at any time.
SPECIFICATION FairSpec
CONSTANTS
    b1 = b1
    b2 = b2
    b3 = b3
    b4 = b4
    k1 = k1
    k2 = k2
    d1 = d1
    i64 = i64
    f64 = f64
    Batches = {b1, b2, b3}
    Keys = {k1}
    Shards = {d1}
    Sigs = {i64, f64}
    Hours = {1, 2}
    Workers = {w1}
    FlushCalls = {}
    KeyOf <- KeyOfBatches
    SigOf <- SigOfBatches
    RowsOf <- RowsOfBatches
    HoursOf <- HoursOfBatches
    ShardOf <- OneShard
    MaxBufferSize = 2
    QueueSize = 1
    MaxIters = 2
    StorageMayFail = TRUE
    MayClose = TRUE
    NoSig = NoSig
PROPERTIES
    KeepsContract
    MemoryDrains
    CallsReturn
CHECK_DEADLOCK FALSE
