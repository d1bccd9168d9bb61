SPECIFICATION Spec
CONSTANTS
    NPROC = 3
    CPUS = {c1, c2}
    NULL = NULL
    MaxPid = 3
    MaxFull = 3
    KillPids = {0}
    MayFail = FALSE
SYMMETRY CpuSymmetry
PROPERTY
    BornUnkilled
