CONSTANTS
    Axes = {1, 2}
    Programs <- MCPrograms
    Inputs <- MCInputs
    MaxTurns = 20
SPECIFICATION Spec
INVARIANTS
    TypesDescribeValues
    SlotsFit
    RunsAsWritten
    NeverAhead
PROPERTY
    Finishes
\* A function that has returned, or is not translated, is left alone.
CHECK_DEADLOCK FALSE
