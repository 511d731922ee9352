SPECIFICATION Spec
CONSTANTS
  Loud = {"g"}
  OutOfRange = "9"
  InlineTemps = {TRUE, FALSE}
  MaxPasses = 2
  Parameters = {"a", "k", "y"}
  Truths <- MCTruths
  Programs <- MCPrograms
INVARIANTS
  HoistingKeepsMeaning
  ReadyForC
  InliningKeepsMeaning
CHECK_DEADLOCK FALSE
