SPECIFICATION FairSpec
CONSTANTS
    Cpus = {c1, c2}
    Procs = {p1, p2}
    First = p1
    Values = {zero, one}
    ZERO = zero
    MaxNest = 2
    NULL = NULL
INVARIANTS
    OwnRegisters
    InterruptsMatch
PROPERTIES
    TakesInterrupts
CHECK_DEADLOCK FALSE
