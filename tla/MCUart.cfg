SPECIFICATION FairSpec
CONSTANTS
    NCPU = 2
    Threads = {t1, t2}
    INTR = INTR
    Writers = {p1}
    NULL = NULL
    Batch = 2
    Asks <- MCAsks
    MaxSync = 2
    MaxTyped = 1
    MayPanic = {t1}
CHECK_DEADLOCK FALSE
INVARIANTS
    NoOverrun
    PrintfReleasesOwn
PROPERTIES
    WriterWoken
