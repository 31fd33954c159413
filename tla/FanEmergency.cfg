SPECIFICATION FairSpec
CONSTANTS
    PwmMin = 0
    PwmMax = 2
    FailsafePwm = 1
    Hysteresis = 1
    RampUp = 5
    RampDown = 3
    Interval = 1
    NSources = 2
    Source <- MCSource
    Temps = {1, 5}
    ForeignPwm = {5}
    MaxSampling = 0
    MaxForeign = 0
PROPERTIES
    EmergencyReachesFull
CHECK_DEADLOCK FALSE
