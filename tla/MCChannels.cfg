SPECIFICATION SpecAll
CONSTANTS
    w1 = w1
    w2 = w2
    w3 = w3
    t1 = t1
    t2 = t2
    None = None
    Threads = {w1, w2, w3}
    InitialUnits = 1
    MaxUnits = 2
INVARIANTS
    PipeSound
    RightsSound
    TerminalSound
    SemaphoreSound
PROPERTIES
    CloseIsFinal
SYMMETRY Symmetric
CHECK_DEADLOCK FALSE
