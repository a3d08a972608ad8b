SPECIFICATION Spec
CONSTANTS
    CPUs = {0, 1}
    Threads = {1, 2}
    Tgid <- OneProcess
    Targets = {1}
    RingMax = 2
    MaxEvents = 4
CHECK_DEADLOCK FALSE
PROPERTY
    TargetProcessTraced
