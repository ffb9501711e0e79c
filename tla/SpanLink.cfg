SPECIFICATION FairSpec
CONSTANTS
    BatchSize = 2
    Callbacks = {c1, c2}
    MaxRuns = 2
    MaxLostAcks = 1
    CollectorFails = FALSE
CHECK_DEADLOCK FALSE
INVARIANTS
    TypeOK
    AckedCollected
    LinkedToOwnProducer
    CleanRunProcessesAcked
    OneProcessPerPublish
PROPERTIES
    BatchRefinement
    ReceiveEnds
