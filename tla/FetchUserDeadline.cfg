SPECIFICATION Spec
CONSTANTS
    MaxAttempts = 3
    RequestFlags = {1}
    MaxSent = 2
    TracesStall = TRUE
    LogsStall = FALSE
CHECK_DEADLOCK FALSE
INVARIANTS
    LogsWritten
