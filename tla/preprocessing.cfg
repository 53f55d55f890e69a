SPECIFICATION Spec
CONSTANTS
  QStates <- SmallStates
  ZeroState <- SmallZero
  Gates <- SmallGates
  Identity = "id"
  Act <- SmallAct
  Bits = {"c0"}
  Statements <- MCStatements
  MaxStatements = 4
INVARIANTS
  TablesWellFormed
  ExecutionIsExpansion
  BackUndoesForward
CHECK_DEADLOCK FALSE
