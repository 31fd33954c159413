SPECIFICATION ChannelFairSpec
CONSTANTS
    MaxOutgoing = 2
    MaxTasks = 2
    MaxWire = 1
    MaxReplies = 3
    MaxBeats = 1
    MaxLosses = 2
    MaxBusy = 1
INVARIANTS
    RepliesInOrder
PROPERTIES
    RetriesUntilAcked
    QueueDrains
CHECK_DEADLOCK FALSE
