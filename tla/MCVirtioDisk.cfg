SPECIFICATION FairSpec
CONSTANTS
    NUM = 8
    IDX = 16
    Procs = {p1, p2, p3}
    Blocks = {k1, k2, k3}
    Writes = {FALSE}
    NULL = NULL
    First = 14
    MaxCalls = 3
CHECK_DEADLOCK FALSE
INVARIANTS
    DescriptorsOwned
    RequestsAccounted
PROPERTIES
    ImplementsDiskService
    RequestReturns
    StarvedWoken
