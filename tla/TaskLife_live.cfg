CONSTANTS
    NTASK = 3
    MaxPid = 3
    Killers = {2}
    InitExits = FALSE
SPECIFICATION Spec
CHECK_DEADLOCK FALSE
INVARIANTS
    SlotsSound
PROPERTIES
    LocksReleased
    WaitReturns
