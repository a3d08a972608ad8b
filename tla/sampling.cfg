SPECIFICATION Spec
CONSTANTS
    CPUs = {0, 1}
    CaptureStacks = TRUE
    SamplePeriodSync = 1
    SamplePeriodAsync = 3
    StackResults = {7}
    Ops <- MixedOps
    MaxEntries = 6
CHECK_DEADLOCK FALSE
INVARIANTS
    AsyncCapturesSpaced
    EverySyncCaptured
    AsyncRunsSampled
