SPECIFICATION FairSpec
CONSTANTS
    Requests = {r1, r2}
    ProgramNames = {"microservice", "sampling", "collector", "envoy", "tailSampling", "refinery"}
    MaxLeft = 1
INVARIANTS
    TypeOK
    SampledTogether
    TraceTree
    CleanupKeepsFinished
PROPERTIES
    RequestsEnd
CHECK_DEADLOCK FALSE
