CONSTANTS
    t1 = t1
    t2 = t2
    t3 = t3
    Tasks <- ThreeTasks
    NUM = 8
    IdxMod = 16
    Readers <- TwoReaders
    Lengths = {1, 3}
    INPUT_BUF_SIZE = 3
    UintMod = 6
    Plain = {"a", "b"}
    Writers <- ThreeTasks
    Booter = t1
    GPU_NUM = 4
    GpuMod = 8
    FB_PARTS = 2
    MaxFrames = 3
    EVENT_NUM = 2
    EventMod = 8
    BUF_SIZE = 3
    MaxEvents = 8
    KeyEvents = {1, 2, 4, 5, 6, 8}
SPECIFICATION MCSpec
INVARIANTS
    DescConserved
    OwnRequest
    CommandsOwned
    FrameShown
    EventsKept
    SleepsOnEmpty
PROPERTIES
    DiskRequestReturns
    ImplementsLines
CHECK_DEADLOCK FALSE
