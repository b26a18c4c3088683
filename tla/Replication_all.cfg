SPECIFICATION FairSpec
CONSTANTS
    r1 = r1
    r2 = r2
    Readers = {r1, r2}
    Slots = {1, 2}
    None = 0
    BufferSize = 1
    CheckpointInterval = 2
    MaxCallers = 2
    MaxEntries = 2
    MaxTrouble = 1
INVARIANTS
    EveryEntryKnown
    RefusedOnly
PROPERTIES
    AppliesInOrder
    Reconnects
CHECK_DEADLOCK FALSE
