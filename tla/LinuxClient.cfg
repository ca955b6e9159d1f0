SPECIFICATION MCSpec
CONSTANTS
    Cert = {old, new}
    NoCert = NoCert
    NoShape = NoShape
    old = old
    small = small
    plain = plain
    Shape = {small, large}
    Look = {plain, bright}
    Keys = {ctrl}
    MaxClicks = 3
    MaxFaults = 2
CHECK_DEADLOCK FALSE
INVARIANTS
    ButtonMatches
    HostHasTheUsers
PROPERTIES
    StopReturns
    StreamsAgain
