SPECIFICATION Spec
CONSTANTS
    Slots = {1, 2}
    NPAGE = 16
    FAN = 2
    PG = 2
    USERSTACK = 1
    MAXARG = 2
    Deltas <- MCDeltas
    Programs <- MCPrograms
    MayStore = TRUE
    MaxCalls = 4
    NULL = NULL
    TRAMP = TRAMP
CHECK_DEADLOCK FALSE
INVARIANTS
    PagesPartitioned
    NoPanic
    SizeMapped
PROPERTIES
    ImplementsSpaces
