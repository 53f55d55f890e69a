SPECIFICATION DFairSpec
CONSTANTS
  QStates <- SmallStates
  ZeroState <- SmallZero
  Gates <- SmallGates
  Identity = "id"
  Act <- SmallAct
  Bits = {"c0"}
  Programs = {"checked"}
  NoProgram = "none"
  Code <- MCCode
  MaxSteps = 64
  MaxBreakpoints = 1
  Editing = FALSE
  MaxPauses = 1
INVARIANTS
  DAPTypeOK
  StopReasonIsTrue
  ProgramEndIsTold
  StoppedClientIsServed
  FailureFlagIsTrue
PROPERTIES
  RestartFrameArrives
  RequestsAnswered
CHECK_DEADLOCK FALSE
