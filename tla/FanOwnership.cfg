SPECIFICATION OwnFairSpec
CONSTANTS
    p1 = p1
    p2 = p2
    None = None
    Proc = {p1, p2}
    MaxKills = 2
    MaxFails = 1
    MaxTroubles = 2
INVARIANTS
    SingleWriter
    HandsBack
PROPERTIES
    OwnedAgain
    LetsGo
CHECK_DEADLOCK FALSE
