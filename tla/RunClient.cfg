SPECIFICATION LiveSpec
CONSTANTS
    Runs = {r1, r2}
    NoRun = NoRun
    Targets = {here}
    Up = {here}
    MaxChunks = 1
    MaxPings = 1
INVARIANTS
    StopReachesTheRun
    SuccessIsEarned
    WorkersAreStopped
PROPERTIES
    NoStrayLines
    StopWorks
    ClosedStreamEnds
CHECK_DEADLOCK FALSE
