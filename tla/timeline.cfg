SPECIFICATION TimelineSpec
CONSTANTS
    CPUs = {0, 1}
    Threads = {1, 2}
    Tgid <- OneProcess
    Targets = {0, 1}
    RingMax = 2
    MaxEvents = 4
    TidLimit = 3
    GpuTidBase = 1000
CHECK_DEADLOCK FALSE
INVARIANTS
    TypeOK
    Alternates
    TraceTellsState
    EndsCloseBegins
    SpansAreStays
PROPERTIES
    EverySwitchTraced
