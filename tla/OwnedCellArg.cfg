SPECIFICATION Spec
CONSTANTS
    a = a
    b = b
    Vars = {a, b}
    Kind <- CellArg
    Functions <- CallOnly
CHECK_DEADLOCK FALSE
INVARIANTS
    HandlesOwnBuffers
