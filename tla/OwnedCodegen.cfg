SPECIFICATION Spec
CONSTANTS
    a = a
    b = b
    Vars = {a, b}
    Kind <- Tensors
    Functions <- Small
CHECK_DEADLOCK FALSE
INVARIANTS
    HandlesOwnBuffers
    ReadsFindValue
    NoLeak
    ResultIntact
    FreesAreJustified
