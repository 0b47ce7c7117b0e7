CONSTANTS
    Groups = {g1, g2}
    Rounds = {r1, r2}
    MaxConcurrent = 1
    SkipDataLoss = FALSE
    MaxOffset = 1
    Consumers = {c1, c2, c3, c4}
    None = None
    Nothing = Nothing
    Absent = Absent
SYMMETRY PoolSymmetry
SPECIFICATION Spec
INVARIANTS
    TypeOK
    ConsumersExclusive
    TimestampBelongs
    ConsumersBounded
