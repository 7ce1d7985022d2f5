CONSTANTS
    CPUs <- MCCPUs
    Threads = {t1, t2}
    Handlers = {h1}
    Locks <- MCLocks
    ZeroInit <- NoLocks
SPECIFICATION Spec
SYMMETRY Symmetry
INVARIANTS
    TypeOK
    MutualExclusion
    IntrOffWhileHeld
    IntrRestored
    NoPanic
    CheckLockSound
