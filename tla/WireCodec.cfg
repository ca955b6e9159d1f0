SPECIFICATION Spec
CONSTANTS
    Base = 20
    MaxMessage = 200
    Compact = 20
    MaxContacts = 2
    FullPressure = 100
    Samples <- Every
    Junk = {0, 201}
    Cli <- OnTheLine
    MaxSent = 2
CHECK_DEADLOCK FALSE
INVARIANTS
    MessagesArrive
    HelloHeard
    ModeSurvives
