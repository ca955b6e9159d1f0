SPECIFICATION FairSpec
CONSTANTS
    Tablet = {tablet}
    NoKey = NoKey
    Cap = 2
    MaxClicks = 5
    MaxEnds = 2
CHECK_DEADLOCK FALSE
INVARIANTS
    Governed
    SingleListener
PROPERTIES
    SwitchObeyed
