CONSTANTS
    CPUs <- MCCPUs
    Threads = {t1, t2}
    Handlers = {}
    Locks <- MCLocks
    ZeroInit <- NoLocks
SPECIFICATION Spec
SYMMETRY Symmetry
INVARIANT
    CheckLockExact
