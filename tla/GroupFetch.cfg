CONSTANTS
    Groups = {g1, g2}
    Rounds = {r1, r2}
    MaxConcurrent = 1
    MaxRetries = 1
    MaxBlockingThreads = 1
SPECIFICATION FairSpec
INVARIANTS
    TypeOK
    PermitsAccounted
    MissingForAReason
PROPERTIES
    EveryFetchEnds
    ManagerComesBack
