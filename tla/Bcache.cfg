CONSTANTS
    t1 = t1
    t2 = t2
    t3 = t3
    Tasks <- TwoTasks
    Nesting <- TwoNest
    NBUF = 2
    Blocks <- ThreeBlocks
    Values = {0, 1}
    WriteBack = TRUE
SPECIFICATION Spec
CHECK_DEADLOCK FALSE
INVARIANTS
    Consistent
PROPERTIES
    KeepsIdentity
    ImplementsStore
