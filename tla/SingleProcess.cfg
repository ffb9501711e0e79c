SPECIFICATION FairSpec
CONSTANTS
    Requests = {r1, r2}
    ProgramNames = {"simple", "multiPackage", "bridge", "batch"}
    MaxLeft = 1
INVARIANTS
    TypeOK
    TraceTree
    CleanupKeepsFinished
    JobExitTells
    FatalOnlyAtGet
PROPERTIES
    LeaversRelease
    RunEnds
CHECK_DEADLOCK FALSE
