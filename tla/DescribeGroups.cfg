CONSTANTS
    Groups = {g1, g2, g3, g4}
    ChunkSize = 2
    MaxConcurrent = 1
    MaxRetries = 2
SPECIFICATION FairSpec
INVARIANTS
    TypeOK
    GivenUpForAReason
PROPERTIES
    AskedWhileOpen
    Promise
