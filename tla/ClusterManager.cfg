CONSTANTS
    Clusters = {c1, c2}
    Absent = Absent
    StalenessThreshold = 1
    MaxTime = 0
    MaxBackoff = 2
    MaxErrors = 3
    RecycleInterval = 1
SPECIFICATION FairManagersSpec
INVARIANTS
    TypeOK
    UnhealthyForAReason
PROPERTIES
    ExportPromise
    StandbyIsCleared
    ShutdownCompletes
CHECK_DEADLOCK FALSE
