SPECIFICATION FairSpec
CONSTANTS
    Messages = {m1, m2}
    PerRun = 2
    MaxRuns = 2
    MaxLostAcks = 1
INVARIANTS
    TypeOK
    DeliveriesTraced
    GracefulFlush
PROPERTIES
    AtLeastOnceRefinement
    SignalStops
CHECK_DEADLOCK FALSE
