SPECIFICATION FairSpec
CONSTANTS
    MaxRetry = 2
    AskedFor = {2}
    MaxUpdates = 2
    MaxRegisters = 2
    MaxFaults = 1
PROPERTIES
    OlderOnlyIfOvertaken
    
CHECK_DEADLOCK FALSE
