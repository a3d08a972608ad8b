SPECIFICATION FairSpec
CONSTANTS
    p1 = p1
    p2 = p2
    Processes = {p1, p2}
    LineUps <- MCLineUps
    None = None
CHECK_DEADLOCK FALSE
INVARIANTS
    TypeOK
    NothingHeld
    StatusTells
    OneStackMap
    XdpDetached
PROPERTIES
    CtrlCStops
