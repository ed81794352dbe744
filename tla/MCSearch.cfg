\* A visitor turns pages of two while four rows come and are converted.
CONSTANTS
    a = a
    b = b
    c = c
    d = d
    Rows = {a, b, c, d}
    Kinds = {"vacancy", "resume"}
    Years <- MCYears
    Worth <- MCWorth
    Has <- MCHas
    Filters <- MCFilters
    Blank = "blank"
    PageSize = 2
    MaxPage = 2
    MaxClock = 2
SPECIFICATION SearchSpec
INVARIANTS
    WalkIsComplete
    EmptyOnlyBeyond
