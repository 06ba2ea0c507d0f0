SPECIFICATION PrintingSpec
CONSTANTS
  Channels = {"#a"}
  Queries = {"bob"}
  Spellings = {"lower", "Upper"}
  MaxRows = 3
  PruneRows = 2
  MaxBatch = 2
  MaxLines = 5
PROPERTY PrintedLinesStay
CHECK_DEADLOCK FALSE
