\* The collectors over a board that changes, with failures and retries.
CONSTANTS
    x = x
    y = y
    z = z
    Items = {x, y, z}
    In <- MCIn
    Kinds = {"workua", "robota", "dou"}
    Last = 2
    Blank = {z}
    Wanted = {9}
    MaxPages = 2
    PageSize = 2
    Tries = 3
    Retries = 1
SPECIFICATION FairSpec
INVARIANTS
    ScanIsComplete
PROPERTIES
    RowsAreFinal
    ScanEnds
CHECK_DEADLOCK FALSE
