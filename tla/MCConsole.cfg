SPECIFICATION FairSpec
CONSTANTS
    INPUT_BUF_SIZE = 3
    UMOD = 6
    Readers = {p1, p2}
    p1 = p1
    p2 = p2
    NULL = NULL
    INTR = INTR
    Keys = {"a", "cont", "CR", "^D", "^H", "^U"}
    Asks <- MCAsks
    MayFail = TRUE
INVARIANTS
    FullIsCommitted
    SleeperHasNoInput
PROPERTIES
    KillEnds
    ImplementsLine
