SPECIFICATION FairSpec
CONSTANTS
    k1 = k1
    k2 = k2
    k3 = k3
    w1 = w1
    w2 = w2
    Idle = Idle
    Command <- TwoCommands
    PickWorker <- PickTwo
    Worker = {w1, w2}
    MaxSeen = 1
    Ttl = 1
    Capacity = 1
    MaxNow = 1
    MaxCopies = 2
    MaxStarts = 2
INVARIANTS
    QuietWhenOff
PROPERTIES
    
    AcceptedRuns
    StopReturns
CHECK_DEADLOCK FALSE
