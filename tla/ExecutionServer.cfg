SPECIFICATION FairSpec
CONSTANTS
    Requests = {r1, r2}
    MaxConcurrent = 1
    MaxChunks = 1
    CloseOnEnd = {r1}
CHECK_DEADLOCK FALSE
INVARIANTS
    SlotAccounting
    NoOrphanProcess
PROPERTIES
    KilledForCause
    ImplementsProtocol
    Served
    RunStreamEnds
