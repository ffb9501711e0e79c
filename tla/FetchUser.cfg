SPECIFICATION FairSpec
CONSTANTS
    MaxAttempts = 3
    RequestFlags = {0, 1, 2}
    MaxSent = 2
    TracesStall = FALSE
    LogsStall = FALSE
CHECK_DEADLOCK FALSE
INVARIANTS
    TypeOK
    CountsAgree
    ErrorOnlyIfFailed
    SignalsCorrelate
    ExitCodeTells
    FlushedOnExit
PROPERTIES
    SignalStops
