SPECIFICATION SpecAll
CONSTANTS
    Idents = {"usbA", "usbB", "pci"}
    ContextOf <- MCContextOf
    Contexts = {"c1", "c2"}
    Priority <- MCPriority
    Slots = 3
    Frames = {f1, f2}
    MaxRefs = 2
    None = None
INVARIANTS
    RegistrySound
    LocksExact
PROPERTIES
    RetirementEnds
    CallsServed
    WritesReturn
    DrainCompletes
CHECK_DEADLOCK FALSE
