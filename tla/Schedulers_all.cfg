SPECIFICATION FairSpec
CONSTANTS
    q1 = q1
    c1 = c1
    c2 = c2
    x1 = x1
    CQs = {q1}
    Calls = {c1, c2}
    Crons = {x1}
    Intervals = {1, 2}
    Bad = 0
    None = 0
    Slots = {1, 2}
    LookBack = 1
    MaxTime = 3
    MaxEvents = 2
INVARIANTS
    OneAtATime
    WindowsMeet
    ScheduledAsStored
PROPERTIES
    StopsEnd
CHECK_DEADLOCK FALSE
