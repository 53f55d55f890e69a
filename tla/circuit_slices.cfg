SPECIFICATION Spec
CONSTANTS
  QStates <- MCStates
  ZeroState <- PairZero
  Gates <- PairGates
  Identity <- PairIdentity
  Act <- MCAct
  Bits = {"c0"}
  Preamble <- SlicePreamble
  Statements <- SingleStatements
  MaxStatements = 3
  Verdict <- Unasked
INVARIANT SlicesDoNotInterfere
CHECK_DEADLOCK FALSE
