SPECIFICATION CPSpec
CONSTANTS
    Hour = {1, 2, 3, 4}
    Others = {5}
    MinFiles = 2
    MaxBatch = 3
    MaxJobs = 3
    MaxCycles = 2
    MaxFaults = 2
    Reconciles = TRUE
INVARIANTS RowsKept OncePerRow
PROPERTY ListedAsStored
CHECK_DEADLOCK FALSE
