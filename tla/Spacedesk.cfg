SPECIFICATION FairSpec
CHECK_DEADLOCK FALSE
CONSTANTS
    Viewer = {v1}
    ByIp = {}
    Mode <- Modes
    Cap = 1
    MaxStarts = 2
    MaxDials = 2
    MaxModes = 1
INVARIANT PicturesWhole
PROPERTY ServerStops
PROPERTY GoneIsNoticed
