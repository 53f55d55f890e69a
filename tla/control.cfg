SPECIFICATION CFairSpec
CONSTANTS
  QStates <- SmallStates
  ZeroState <- SmallZero
  Gates <- SmallGates
  Identity = "id"
  Act <- SmallAct
  Bits = {"c0"}
  Programs = {"assertions"}
  NoProgram = "none"
  Code <- MCCode
  MaxSteps = 64
  MaxBreakpoints = 1
  Editing = TRUE
  MaxPauses = 1
INVARIANTS
  CTypeOK
  CommandStaysInFrame
PROPERTIES
  StepOverArrives
  StepOutArrives
  PauseEndsCommand
  NothingMissed
  RunAllCounts
  CommandsReturn
CHECK_DEADLOCK FALSE
