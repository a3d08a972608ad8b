SPECIFICATION Spec
CONSTANTS
    python = python
    server = server
    Gone = Gone
    NoEntry = NoEntry
    Stacks <- MCStacks
    Hash <- MCHash
    NBuckets = 4
    max_entries = 2
    BSW_STR_MAX = 5
    Programs = {python, server}
    Code <- MCCode
    max_stack_frames_in_json = 2
    Pids = {7, 23}
    StacksOf <- MCStacksOf
    StreamAt <- MCStreamAt
    MaxEvents = 2
    TidLimit = 10
    GpuTidBase = 1000
INVARIANTS
    FallsBackToAddresses
