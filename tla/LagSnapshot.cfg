CONSTANTS
    Partitions = {p1}
    Missing = Missing
    MaxOffset = 4
SPECIFICATION Spec
INVARIANTS
    TypeOK
    LagWithinCycle
    LossWithinCycle
    RatioAlarmIsTrue
