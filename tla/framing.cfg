SPECIFICATION Spec
CONSTANTS
  Bodies <- MCBodies
  MaxMessages = 3
  MaxChunk = 7
  SplitHeaders = FALSE
INVARIANTS
  FramingTypeOK
  HandledInOrder
PROPERTY
  EverythingHandled
CHECK_DEADLOCK FALSE
