SPECIFICATION Spec
CONSTANTS
  Names = {"a", "b", "abstract", "output", "repeating"}
  Numerals = {"1", "2"}
  Files <- MCFiles
  Rejected = Rejected
  Overlooked = Overlooked
  Unspecified = Unspecified
INVARIANTS
  ReadsAsWritten
  RejectsMixedEnds
  TokensCoverText
