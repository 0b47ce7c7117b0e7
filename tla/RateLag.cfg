CONSTANTS
    MaxSamples = 3
    MaxAge = 3
    MinRate = 1
    MaxRate = 2
    MaxShift = 1
    MaxDelay = 1
    MaxLag = 4
    UnitMillis = 2
    OthersSeconds <- MCOthersSeconds
    Missing = Missing
SPECIFICATION RateSpec
INVARIANTS
    RateTypeOK
    SteadyRateIsClose
    NoTimeLagForAReason
