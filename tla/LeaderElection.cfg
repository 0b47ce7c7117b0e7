CONSTANTS
    Instances = {i1, i2}
    Nobody = Nobody
    MaxFaults = 3
SPECIFICATION FairSpec
INVARIANTS
    TypeOK
    StaleFlagIsTransient
PROPERTIES
    Failover
CHECK_DEADLOCK FALSE
