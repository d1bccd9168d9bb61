SPECIFICATION Spec
CONSTANTS
    NPROC = 3
    CPUS = {c1, c2}
    NULL = NULL
    MaxPid = 3
    MaxFull = 4
    KillPids = {2}
    MayFail = TRUE
SYMMETRY CpuSymmetry
INVARIANTS
    KernelStackExclusive
    SleeperHasNoZombie
PROPERTIES
    BornUnkilled
    ImplementsTree
