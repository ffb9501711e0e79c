SPECIFICATION Spec
CONSTANTS
    Traces = {t1}
INVARIANTS
    TypeOK
    JudgedWhole
    KeepsFailedAndSlow
CHECK_DEADLOCK FALSE
