CONSTANTS
    c1 = c1
    c2 = c2
    CPUs <- MCCPUs
    NTASK = 2
    Calls <- ExitingCalls
    MaxSem = 1
SPECIFICATION LiveSpec
INVARIANTS
    ReturnsClean
PROPERTIES
    NoStarvation
