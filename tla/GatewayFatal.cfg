SPECIFICATION Spec
CONSTANTS
    Requests = {r1, r2}
    ProgramNames = {"microservice"}
    MaxLeft = 1
INVARIANT EveryRequestTraced
CHECK_DEADLOCK FALSE
