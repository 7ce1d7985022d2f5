CONSTANTS
    NTASK = 4
    MaxPid = 4
    Killers = {}
    InitExits = TRUE
SPECIFICATION Spec
CHECK_DEADLOCK FALSE
INVARIANTS
    SlotsSound
    ZombiesSignalled
