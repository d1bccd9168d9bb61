SPECIFICATION Spec
CONSTANTS
    BSIZE = 2
    NDIRECT = 1
    NINDIRECT = 2
    IPB = 2
    BPB = 20
    FSSIZE = 25
    NINODES = 4
    LOGBLOCKS = 1
    UMOD = 32
    DOT = DOT
    CONSOLE = CONSOLE
    ZERO = ZERO
    name1 = name1
    name2 = name2
    long = long
    Names <- MCNames
    Cut <- MCCut
    Inputs <- MCInputs
INVARIANTS
    BlocksUsedOnce
    ReadsBack
    NamexFinds
CHECK_DEADLOCK FALSE
