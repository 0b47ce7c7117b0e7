CONSTANTS
    Instances = {i1, i2}
    Nobody = Nobody
    MaxFaults = 1
SPECIFICATION Spec
INVARIANT ReadyForFailover
CHECK_DEADLOCK FALSE
