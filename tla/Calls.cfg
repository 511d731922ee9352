SPECIFICATION MCSpec
CONSTANTS
  SearchPaths = {}
  ExprBuiltins = {"sin", "t"}
  StatementBuiltins = {"disp"}
  OperatorNames = {"plus"}
  Constants = {"pi"}
INVARIANTS
  CallsWhatMatlabCalls
  RunsItsOwnBody
  CalleesComeFirst
  NoneTwice
  CapturesMeanTheSame
