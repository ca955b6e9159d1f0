SPECIFICATION Spec
CONSTANTS
    Id <- ThreePointers
    MaxSlots = 2
    NoFinger = NoFinger
    MaxEvents = 7
    MaxWire = 3
    MaxEnds = 1
INVARIANTS
    KernelMatchesSlots
    NothingStuck
PROPERTIES
    ClickOnlyAtLift
    ImplementsScreen
CHECK_DEADLOCK FALSE
