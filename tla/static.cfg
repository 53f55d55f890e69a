SPECIFICATION Spec
CONSTANTS
  QStates <- MCStates
  ZeroState <- PairZero
  Gates <- PairGates
  Identity <- PairIdentity
  Act <- MCAct
  Bits = {"c0"}
  Preamble <- TwoQubitPreamble
  Statements <- AllStatements
  MaxStatements = 4
  Verdict <- PairVerdict
INVARIANTS
  ConeIsFound
  ConeIsPast
  InteractionsAreFound
  MovementIsHarmless
CHECK_DEADLOCK FALSE
