\* Two sessions that may claim either of two agents.
SPECIFICATION Spec
CONSTANTS
    Agent = {m1, m2}
    Session = {s1, s2}
    NoAgent = NoAgent
    NoSession = NoSession
    NoEntry = NoEntry
    MaxFrames = 2
    MaxFaults = 1
SYMMETRY Symmetry
INVARIANTS
    RoutesAgree
    RegisteredIsOnline
    OnlyLateFramesStayOnline
