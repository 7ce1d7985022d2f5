CONSTANTS
    c1 = c1
    c2 = c2
    CPUs <- MCCPUs
    NTASK = 3
    Calls <- BusyCalls
    MaxSem = 1
SPECIFICATION MCSpec
SYMMETRY Symmetry
INVARIANTS
    NoPanic
    ExitsLocked
    OneHart
    NoLostWakeup
    IntrPreserved
    SemConsistent
PROPERTIES
    ImplementsSemaphore
