SPECIFICATION SpecAll
CONSTANTS
    frame_count = 5
    Minimums = {1, 3}
    Counts = {1, 2}
    AllocTags = {"general"}
    PMM_SEARCH_HINTS = 2
INVARIANTS
    AllocatorSound
    VolumeSound
PROPERTIES
    ImplementsFirstFit
CHECK_DEADLOCK FALSE
