SPECIFICATION ARSpec
CONSTANTS
    Names = {"a", "b"}
    Creds = {"k1", "k2"}
    Patterns = {"p"}
    Empty = ""
    Seed <- FullSeed
    MaxCommits = 2
    Families <- BothFamilies
    MaxLag = 0
    MaxRestarts = 2
    MayInstall = TRUE
INVARIANTS ReplicaAgrees MirrorAgrees
CHECK_DEADLOCK FALSE
