SPECIFICATION HostFairSpec
CHECK_DEADLOCK FALSE
CONSTANTS
    t1 = t1
    Tablet = {t1}
    Offers <- Ways
    Limit = 2
    Stored <- Files
    Misses = 3
    MaxPolls = 1
    MaxWorld = 1
    MaxClicks = 1
    Place <- OnePort
    Nobody = Nobody
    Tries = 2
    MaxBus = 2
PROPERTIES
    StartsClean
    UnplugRemoves
    KnownStreamsAgain
