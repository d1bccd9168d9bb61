SPECIFICATION FairSpec
CONSTANTS
    NBUF = 2
    Procs = {p1, p2, p3}
    Blocks = {k1, k2, k3}
    NULL = NULL
CHECK_DEADLOCK FALSE
INVARIANTS
    HolderHasBlock
    RefcntExact
PROPERTIES
    ImplementsBlockLocks
    SleeperWoken
