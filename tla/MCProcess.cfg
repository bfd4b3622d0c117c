SPECIFICATION SpecAll
CONSTANTS
    PROCESS_MAX_PROCESSES = 2
    MaxPid = 3
    MaxToken = 1
    KernelPids = {1}
    Foreground = TRUE
    Creators = {"kernel", "user"}
    p1 = p1
    p2 = p2
    NoProcess = NoProcess
INVARIANTS
    LifetimesSound
    ReapedOnce
    SignalsAct
    WorkersSound
PROPERTIES
    RevokedOnlyShrinks
SYMMETRY Symmetric
CHECK_DEADLOCK FALSE
