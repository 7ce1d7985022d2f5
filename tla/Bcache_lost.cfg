CONSTANTS
    t1 = t1
    t2 = t2
    t3 = t3
    Tasks <- TwoTasks
    Nesting <- NoneNests
    NBUF = 2
    Blocks <- ThreeBlocks
    Values = {0, 1}
    WriteBack = FALSE
SPECIFICATION Spec
PROPERTIES
    ContentsKept
