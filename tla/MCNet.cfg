SPECIFICATION SpecAll
CONSTANTS
    Slots = {1}
    SeqSpace = 16
    Iss = 14
    TxBytes = 2
    TxHistory = 2
    Mss = 2
    ZeroWindowMax = 1
    Pending = 1
    Situations <- MCSituations
INVARIANTS
    StreamExact
    TableSound
    
CHECK_DEADLOCK FALSE
