SPECIFICATION HSpec
CONSTANTS
  QStates <- SmallStates
  ZeroState <- SmallZero
  Gates <- SmallGates
  Identity = "id"
  Act <- SmallAct
  Bits = {"c0"}
  Programs = {"assertions", "classical", "illegal", "unsupported", "constant"}
  NoProgram = "none"
  Code <- MCCode
  MaxSteps = 64
  MaxBreakpoints = 1
  Editing = TRUE
INVARIANTS
  TypeOK
  CallStackIsNesting
  PastIsAPath
  IteratorInStep
PROPERTIES
  StepBackRestoresPlace
  StepBackRestoresState
  ImplementsTimeTravel
CHECK_DEADLOCK FALSE
