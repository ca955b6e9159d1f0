SPECIFICATION Spec
CONSTANTS
    Proc = {p1, p2}
    None = None
    Nodes = 3
    Screens = 2
    ScreenSize <- Large
    Size <- BothSizes
    Cell <- Aside
    Mirroring = {p2}
    MaxTries = 1
    MaxFaults = 1
    MaxEnds = 1
CHECK_DEADLOCK FALSE
INVARIANTS
    OwnOutput
    AtItsPlace
    NoGrowth
    OneCapture
