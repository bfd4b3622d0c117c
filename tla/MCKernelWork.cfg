SPECIFICATION SpecAll
CONSTANTS
    Works = {"safe", "ordinary", "both"}
    SafeFlags <- MCSafeFlags
    WORKQUEUE_MAX_ITEMS = 2
    MaxDropped = 1
    MaxCallers = 2
    NoHandler = NoHandler
INVARIANTS
    WorkSound
    HandlersSound
PROPERTIES
    SemaphoreEnds
    ImplementsFifo
    WorkRuns
