SPECIFICATION FairSpec
CONSTANTS
    t1 = t1
    t2 = t2
    t3 = t3
    None = None
    Threads = {t1, t2, t3}
    Tgid <- MCTgid3
    CPUs = {0}
    CaptureStacks = FALSE
    SamplePeriodSync = 1
    SamplePeriodAsync = 2
    StackResults = {0}
    TargetPid = 1
    Ops <- MCSyncOp
    Reentrant <- MCSyncOp
    cuda_funcs <- MCSyncFuncs
    MayMiss = {}
    CallsMax = 2
    RingMax = 4
    MaxTime = 4
    MaxDepth = 2
CHECK_DEADLOCK FALSE
INVARIANTS
    GenuineLog
    LeafCallsReported
    OnlyTarget
PROPERTIES
    EventuallyHandedOver
