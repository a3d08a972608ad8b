SPECIFICATION Spec
CONSTANTS
    t1 = t1
    t2 = t2
    t3 = t3
    None = None
    Threads = {t1, t2}
    Tgid <- MCTgid
    CPUs = {0}
    CaptureStacks = TRUE
    SamplePeriodSync = 1
    SamplePeriodAsync = 2
    StackResults = {0}
    TargetPid = 0
    Ops <- MCOps
    Reentrant = {}
    cuda_funcs <- MCcuda_funcs
    MayMiss = {"return"}
    CallsMax = 1
    RingMax = 1
    MaxTime = 4
    MaxDepth = 2
CHECK_DEADLOCK FALSE
INVARIANTS
    TypeOK
    GenuineLog
PROPERTIES
    ImplementsCallLog
