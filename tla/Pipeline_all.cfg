\* Every fault: failing storage and replays, full queues, a crash, recovery,
\* shutdown.
SPECIFICATION PSpec
SYMMETRY EntrySymmetry
CONSTANTS
    Torn = Torn
    Entries = {e1, e2}
    ChanCap = 2
    MaxFileEntries = 2
    SyncEvery = 2
    SafeAge = 1
    WritesMayFail = FALSE
    SyncMayFail = FALSE
    ReplayMayFail = TRUE
    MaxFiles = 6
    MaxTime = 3
    MaxStarts = 2
    MaxPasses = 1
    StorageMayFail = TRUE
    QueueMayFill = TRUE
    MayShutDown = TRUE
    MaxHold = 1
PROPERTIES
    PurgedIsDurable
    DeletedAfterReplay
    NeverWithoutCopy
CHECK_DEADLOCK FALSE
