SPECIFICATION Spec
CONSTANTS
  MaxStream = 7
  MaxChunk = 3
  MaxRead = 3
INVARIANTS LinesAreWhole LinesNeverMerge
CHECK_DEADLOCK FALSE
