SPECIFICATION FairSpec
CONSTANTS
    PROCESS_MAX_PROCESSES = 2
    MaxPid = 3
    MaxToken = 1
    KernelPids = {1}
    Foreground = FALSE
    Creators = {}
PROPERTY KilledExits
CHECK_DEADLOCK FALSE
