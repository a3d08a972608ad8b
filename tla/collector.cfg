SPECIFICATION FairSpec
CONSTANTS
    None = None
    MAX_EVENTS = 2
    RingMax = 2
    MaxTime = 1
CHECK_DEADLOCK FALSE
INVARIANTS
    TypeOK
    KeepsPrefixes
    TimelineOrdered
PROPERTIES
    StopsWhenTold
    GpuCollected
