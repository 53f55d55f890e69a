SPECIFICATION DSpec
CONSTANTS
  QStates <- MCStates
  ZeroState <- TripleZero
  Gates <- TripleGates
  Identity <- TripleIdentity
  Act <- MCAct
  Bits = {"c0"}
  Programs = {"zeros", "interaction", "tree", "relayed", "nested", "measured", "split", "illegal", "two_ways"}
  NoProgram = "none"
  Code <- MCCode
  MaxSteps = 64
  MaxBreakpoints = 0
  Editing = FALSE
  MaxMovements = 3
  Switching = FALSE
INVARIANTS
  ReportedGateNeverActed
  RecordsMatchCircuit
  MissingInteractionIsReal
  SuggestionsConnect
PROPERTY
  SplitIsEquivalent
CHECK_DEADLOCK FALSE
