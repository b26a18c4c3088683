SPECIFICATION CLFairSpec
CONSTANTS
    Nodes = {n1, n2}
    First = n1
    Nobody = Nobody
    Layouts <- SomeLayouts
    UnhealthyThreshold = 1
    MaxJoins = 1
    MaxTrouble = 2
INVARIANTS
    SoleCompactor
    HolderCompacts
PROPERTIES
    LeaseMoves
CHECK_DEADLOCK FALSE
