CONSTANTS
    PollInterval = 3
    CollectionTimeout = 2
    KafkaTimeout = 3
    MaxBackoff = 2
    JoinTimeout = 2
    LongestBlock = 6
    MaxLate = 3
SPECIFICATION Spec
INVARIANTS
    TypeOK
    StaleForAReason
    OrderlyExit
    PanicForAReason
