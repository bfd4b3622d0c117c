SPECIFICATION SpecAll
CONSTANTS
    f1 = f1
    f2 = f2
    d1 = d1
    d2 = d2
    None = None
    Devices <- TheDevices
    Backing <- TheBacking
    BackingOffset <- TheBackingOffset
    Size <- TheSize
    Slots = {0, 1, 2}
    MaxDepth = 4
    MaxSerial = 4
    NoDevice = "none"
    NoClaim = NoClaim
INVARIANTS
    ClaimsSound
    CacheSound
    ContentSound
    LocksSound
    NamesSound
SYMMETRY Symmetric
CHECK_DEADLOCK FALSE
