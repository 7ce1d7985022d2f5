CONSTANTS
    t1 = t1
    t2 = t2
    t3 = t3
    Tasks <- ThreeTasks
    Nesting <- TwoNest
    NBUF = 2
    Blocks <- TwoBlocks
    Values = {0}
    WriteBack = TRUE
SPECIFICATION Spec
PROPERTIES
    BreadReturns
