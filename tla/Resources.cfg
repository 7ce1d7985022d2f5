CONSTANTS
    t1 = t1
    t2 = t2
    Tasks <- TwoTasks
    First = t1
    NINODE = 2
    NOFILE = 1
    Kind <- SmallKind
    FreeIno = {0, 5}
    Entry <- SmallEntry
    Paths <- SmallPaths
    Modes = {{}, {"W"}, {"C", "W"}, {"C", "T"}}
    MaxCalls = 3
    Users <- TwoTasks
    FirstUser = t1
    Pages = {0, 1, 2, 3}
    VA_ANON = 4
    MaxHigh = 2
    Requests <- SmallRequests
    Image <- SmallImage
    MaxMaps = 2
    MaxPages = 9
    PerPage <- SmallPerPage
    BigSizes = {2, 3}
    MaxLive = 4
SPECIFICATION MCSpec
INVARIANTS
    TreeSound
    TreeAnswersLikeASet
    HeapSound
    RefsCounted
    TokensAccounted
    LocksBalanced
    PteCovered
PROPERTY
    ForkProtects
CHECK_DEADLOCK FALSE
