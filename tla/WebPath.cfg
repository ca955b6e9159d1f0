SPECIFICATION WebSpec
CONSTANTS
    p1 = p1
    p2 = p2
    Pages = {p1}
    MaxTries = 2
    Extras = {"native", "request", "idle"}
    MaxSockets = 2
    MaxQueue = 1
    MaxEdits = 1
    MaxFrames = 1
CHECK_DEADLOCK FALSE
INVARIANTS
    PinKept
    HandedBackInTime
PROPERTIES
    NobodyBlocks
