CONSTANTS
    Partitions = {p1}
    Missing = Missing
    MaxOffset = 2
SPECIFICATION Spec
INVARIANT LossAlarmIsTrue
