SPECIFICATION FairSpec
CONSTANTS
    Cmd = {c1}
    NoCmd = NoCmd
    MaxRetry = 2
    OutCap = 3
    MaxDisconnects = 1
    MaxCrashes = 1
    MaxRestarts = 1
    MaxFaults = 1
INVARIANTS
    FirstTerminalWins
    ReportedUndeliveredWasNotSent
    
    SuccessWasExecuted
PROPERTIES
    ImplementsLifecycle
    ParkedResolves
    
CHECK_DEADLOCK FALSE
