\* Two processes at a time, over three days.
CONSTANTS
    p1 = p1
    p2 = p2
    v1 = v1
    v2 = v2
    r1 = r1
    Procs = {p1, p2}
    Rows = {v1, v2, r1}
    Kind <- MCKind
    Market <- MCMarket
    Currency <- MCCurrency
    MaxDays = 3
    MaxStarts = 2
SPECIFICATION Spec
SYMMETRY ProcSymmetry
CHECK_DEADLOCK FALSE
INVARIANTS
    SettledIsCounted
    OwnRowsArePriced
PROPERTIES
    RevaluedOnlyInRace
    ForgetsOnlyInRace
