SPECIFICATION Spec
CONSTANTS
    PwmMin = 3
    PwmMax = 0
    FailsafePwm = 2
    Hysteresis = 1
    RampUp = 2
    RampDown = 4
    Interval = 1
    NSources = 2
    Source <- MCSource
    Temps = {1, 5}
    ForeignPwm = {5}
    MaxSampling = 1
    MaxForeign = 1
INVARIANTS
    LostSourceFailsafe
    RampLimited
CHECK_DEADLOCK FALSE
