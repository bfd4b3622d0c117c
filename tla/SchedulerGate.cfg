SPECIFICATION LiveSpec
CONSTANTS
    thread_capacity = 3
    Services = 0
    Processes = {p1, p2}
    Killable = {}
    Deadlines = {}
    KernelScopes = FALSE
    MaxIdentity = 3
    MaxDepth = 1
    SCHEDULER_PREEMPT_QUANTUM_TICKS = 1
    NoProcess = NoProcess
PROPERTY GateProgress
