SPECIFICATION CSpec
CONSTANTS
  QStates <- SmallStates
  ZeroState <- SmallZero
  Gates <- SmallGates
  Identity = "id"
  Act <- SmallAct
  Bits = {"c0"}
  Programs = {"jumps"}
  NoProgram = "none"
  Code <- MCCode
  MaxSteps = 64
  MaxBreakpoints = 0
  Editing = FALSE
  MaxPauses = 1
PROPERTY
  PauseStopsRunAll
CHECK_DEADLOCK FALSE
