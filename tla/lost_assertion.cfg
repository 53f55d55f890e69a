SPECIFICATION Spec
CONSTANTS
  QStates <- SmallStates
  ZeroState <- SmallZero
  Gates <- SmallGates
  Identity = "id"
  Act <- SmallAct
  Bits = {"c0"}
  Programs = {"illegal"}
  NoProgram = "none"
  Code <- MCCode
  MaxSteps = 64
  MaxBreakpoints = 0
  Editing = FALSE
INVARIANT
  AssertionsStay
CHECK_DEADLOCK FALSE
