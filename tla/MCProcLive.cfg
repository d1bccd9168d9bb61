SPECIFICATION FairSpec
CONSTANTS
    NPROC = 3
    CPUS = {c1}
    NULL = NULL
    MaxPid = 3
    MaxFull = 3
    KillPids = {3}
    MayFail = FALSE
PROPERTIES
    WaitReturns
    KilledExits
