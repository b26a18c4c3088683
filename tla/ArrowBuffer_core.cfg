\* Handlers, a worker, the ticker and FlushAll; storage may fail; the buffer stays open.
SPECIFICATION Spec
SYMMETRY Alike
CONSTANTS
    b1 = b1
    b2 = b2
    b3 = b3
    b4 = b4
    k1 = k1
    k2 = k2
    d1 = d1
    i64 = i64
    f64 = f64
    Batches = {b1, b2, b3, b4}
    Keys = {k1, k2}
    Shards = {d1}
    Sigs = {i64, f64}
    Hours = {1, 2}
    Workers = {w1}
    FlushCalls = {fa}
    KeyOf <- KeyOfBatches
    SigOf <- SigOfBatches
    RowsOf <- RowsOfBatches
    HoursOf <- AlikeHours
    ShardOf <- OneShard
    MaxBufferSize = 2
    QueueSize = 1
    MaxIters = 2
    StorageMayFail = TRUE
    MayClose = FALSE
    NoSig = NoSig
INVARIANTS
    SweepEmptiesBuffers
    OneSchemaPerFlush
    HeldExactlyOnce
    RegisteredComplete
CHECK_DEADLOCK FALSE
