SPECIFICATION Spec
CONSTANTS
    thread_capacity = 2
    Services = 0
    Processes = {p1}
    Killable = {}
    Deadlines = {TRUE, FALSE}
    KernelScopes = TRUE
    MaxIdentity = 0
    MaxDepth = 1
    SCHEDULER_PREEMPT_QUANTUM_TICKS = 2
    NoProcess = NoProcess
INVARIANTS BinderIsRunning
