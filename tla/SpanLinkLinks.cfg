SPECIFICATION Spec
CONSTANTS
    BatchSize = 2
    Callbacks = {c1, c2, c3}
    MaxRuns = 1
    MaxLostAcks = 0
    CollectorFails = FALSE
SYMMETRY CallbackSymmetry
CHECK_DEADLOCK FALSE
INVARIANTS
    BatchSizeLinks
