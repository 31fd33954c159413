SPECIFICATION FairSpec
CONSTANTS
    s1 = s1
    a1 = a1
    a2 = a2
    w1 = w1
    w2 = w2
    Nobody = Nobody
    Session <- MCSession
    Agent <- MCAgent
    Worker <- MCWorker
    PickWorker <- MCPickWorker
    Capacity = 2
    LowPct = 50
    QueueLimit = 2
    MaxVersion = 1
    MaxSwitches = 1
    MaxEvents = 1
INVARIANTS
    ClearedIsUnused
PROPERTIES
    NeverOlder
    StraysArePushes
    PublishedIsSeen
    StopEnds
CHECK_DEADLOCK FALSE
