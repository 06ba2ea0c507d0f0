SPECIFICATION Spec
CONSTANTS
  Channels = {"#a"}
  Queries = {"bob"}
  Spellings = {"lower", "Upper"}
  MaxRows = 3
  PruneRows = 2
  MaxBatch = 2
  MaxLines = 5
INVARIANT BadgeIsTheSum
CHECK_DEADLOCK FALSE
