CONSTANTS
    c1 = c1
    c2 = c2
    CPUs <- MCCPUs
    NTASK = 3
    Calls <- ExitCalls
    MaxSem = 1
SPECIFICATION Spec
SYMMETRY Symmetry
INVARIANTS
    LockedOnReturn
CHECK_DEADLOCK FALSE
