\* Every fault of the log in one process: failing writes, creates and replays,
\* a purge and a recovery.  No symmetry: liveness.
SPECIFICATION FairSpec
CONSTANTS
    Torn = Torn
    Entries = {e1, e2}
    ChanCap = 1
    MaxFileEntries = 2
    SyncEvery = 2
    SafeAge = 0
    WritesMayFail = TRUE
    SyncMayFail = FALSE
    ReplayMayFail = TRUE
    MaxFiles = 5
    MaxTime = 1
    MaxStarts = 1
    MaxPasses = 1
INVARIANTS
    EveryEntryAccounted
    SyncedExceptTail
PROPERTIES
    ChannelDrains
CHECK_DEADLOCK FALSE
