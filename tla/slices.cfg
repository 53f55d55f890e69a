SPECIFICATION Spec
CONSTANTS
  QStates <- MCStates
  ZeroState <- PairZero
  Gates <- PairGates
  Identity <- PairIdentity
  Act <- MCAct
  Bits = {"c0"}
  Preamble <- SlicePreamble
  Statements <- SingleStatements
  MaxStatements = 4
  Verdict <- Unasked
INVARIANTS
  EveryAssertionIsMeasured
  CancelledCannotFail
  SlicesReadTrue
CHECK_DEADLOCK FALSE
