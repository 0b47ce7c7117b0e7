CONSTANTS
    Clusters = {c1, c2}
    Absent = Absent
    StalenessThreshold = 1
    MaxTime = 3
SYMMETRY ClusterSymmetry
SPECIFICATION RegistrySpec
INVARIANTS
    RegistryTypeOK
    RenderedFresh
    MapsAgree
PROPERTIES
    StaleStampIsOnItsWayOut
