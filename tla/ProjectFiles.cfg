SPECIFICATION LiveSpec
CONSTANTS
    Files = {f1, f2}
    NoFile = NoFile
    MaxName = 1
    MaxEdits = 2
    MaxMishaps = 1
    MaxRenames = 1
    MaxDeletes = 1
INVARIANTS
    TypedIsKept
    ShownIsTyped
    NoResurrection
PROPERTIES
    EveryFileIsShown
    EditReachesDisk
CHECK_DEADLOCK FALSE
