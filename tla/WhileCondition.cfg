CONSTANTS
    Axes = {1, 2}
    Programs <- MCCountdown
    Inputs = {1}
    MaxTurns = 16
SPECIFICATION Spec
INVARIANT NeverAhead
CHECK_DEADLOCK FALSE
