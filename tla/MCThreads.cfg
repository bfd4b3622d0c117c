SPECIFICATION SpecAll
CONSTANTS
    t1 = t1
    t2 = t2
    t3 = t3
    stackA = stackA
    stackB = stackB
    Threads = {t1, t2, t3}
    Procs = {1, 2}
    Owner <- OwnerOf
    Pages <- PagesOf
    PROCESS_MAX_FUTEXES = 2
    MaxValue = 1
INVARIANTS
    FutexSound
    LibrarySound
    UsbSound
SYMMETRY Symmetric
CHECK_DEADLOCK FALSE
