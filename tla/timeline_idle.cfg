SPECIFICATION TimelineSpec
CONSTANTS
    CPUs = {0, 1}
    Threads = {1, 2}
    Tgid <- OneProcess
    Targets = {0}
    RingMax = 2
    MaxEvents = 6
    TidLimit = 3
    GpuTidBase = 1000
CHECK_DEADLOCK FALSE
INVARIANT
    BeginEndMatch
