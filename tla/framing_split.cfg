SPECIFICATION Spec
CONSTANTS
  Bodies <- MCBodies
  MaxMessages = 2
  MaxChunk = 7
  SplitHeaders = TRUE
INVARIANT
  HandledInOrder
CHECK_DEADLOCK FALSE
