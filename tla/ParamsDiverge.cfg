SPECIFICATION FairSpec
CONSTANTS
    MaxRetry = 1
    AskedFor = {1}
    MaxUpdates = 2
    MaxRegisters = 1
    MaxFaults = 0
CHECK_DEADLOCK FALSE
PROPERTIES
    Synced
