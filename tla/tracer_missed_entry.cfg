SPECIFICATION Spec
CONSTANTS
    t1 = t1
    t2 = t2
    t3 = t3
    None = None
    Threads = {t1, t2}
    Tgid <- MCTgid
    CPUs = {0}
    CaptureStacks = TRUE
    SamplePeriodSync = 1
    SamplePeriodAsync = 2
    StackResults = {0}
    TargetPid = 0
    Ops <- MCSyncOp
    Reentrant = {}
    cuda_funcs <- MCSyncFuncs
    MayMiss = {"entry"}
    CallsMax = 2
    RingMax = 2
    MaxTime = 4
    MaxDepth = 1
CHECK_DEADLOCK FALSE
INVARIANT
    GenuineLog
