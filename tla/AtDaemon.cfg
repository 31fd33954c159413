SPECIFICATION FairSpec
CONSTANTS
    MaxInst = 1
    MaxOpen = 2
    MaxCmd = 2
    MaxUnplug = 1
    MaxEvents = 2
INVARIANTS
    MonitorOnListed
    OrderlyIsClean
PROPERTIES
    
    CallsReturn
CHECK_DEADLOCK FALSE
