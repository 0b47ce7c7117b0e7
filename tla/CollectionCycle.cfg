CONSTANTS
    Groups = {g}
    Topics = {t, u}
    GroupsTTL = 2
    MetadataTTL = 1
    CompactedTTL = 2
    CollectionTimeout = 2
    KafkaTimeout = 1
    Calm = 2
SPECIFICATION Spec
SYMMETRY Alike
INVARIANTS
    TypeOK
    OverrunBounded
    SnapshotIsRecent
    CompactionForAReason
