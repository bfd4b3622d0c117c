SPECIFICATION Spec
CONSTANTS
    p1 = p1
    p2 = p2
    thread_capacity = 4
    Services = 2
    Processes = {p1, p2}
    Killable = {p1, p2}
    Deadlines = {TRUE}
    KernelScopes = TRUE
    MaxIdentity = 0
    MaxDepth = 1
    SCHEDULER_PREEMPT_QUANTUM_TICKS = 1
    NoProcess = NoProcess
INVARIANTS
    SchedulerSound
PROPERTIES
    QuarantineIsFinal
SYMMETRY Symmetric
