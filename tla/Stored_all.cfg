\* Any three operations on one day, with one fault.
SPECIFICATION SFSpec
SYMMETRY Alike
CONSTANTS
    Hourly = {1}
    Daily = {2}
    Fresh = 3
    low = low
    high = high
    blank = blank
    Kinds = {low, high, blank}
    Clauses <- WhereClauses
    Expired = {1}
    Cycles = {c1, c2}
    Requests = {d1, d2}
    MaxStarts = 3
    MaxFaults = 1
INVARIANTS
    RowsSurvive
    SeenExactlyOnce
    DeletedStayDeleted
    CycleRepairs
CHECK_DEADLOCK FALSE
