SPECIFICATION Spec
CONSTANTS
  MaxStream = 7
  MaxChunk = 3
  MaxRead = 3
INVARIANT OnlyWholeLines
CHECK_DEADLOCK FALSE
