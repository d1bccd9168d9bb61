SPECIFICATION Spec
CONSTANTS
    Procs = {p1, p2}
    First = p1
    NFILE = 2
    NOFILE = 2
    NINODE = 3
    root = root
    a = a
    console = console
    Inums <- MCInums
    Calls <- MCCalls
    ROOTINO = root
    Devices <- MCDevices
    SIZE = 1
    NULL = NULL
INVARIANTS
    FileRefExact
    InodeRefExact
    HolderHasInode
    OffsetStable
