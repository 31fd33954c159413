SPECIFICATION FairSpec
CONSTANTS
    MaxSleeps = 2
    MaxErrors = 2
    MaxLate = 1
    MaxEvents = 3
INVARIANTS
    WaitsMeanArrival
    CleanRemovalEnds
PROPERTIES
    DeadStaysDead
    RemovalReturns
    
CHECK_DEADLOCK FALSE
