SPECIFICATION Spec
CONSTANTS
  Channels = {"#a"}
  Queries = {"bob"}
  Spellings = {"lower", "Upper"}
  MaxRows = 3
  PruneRows = 2
  MaxBatch = 2
  MaxLines = 5
INVARIANTS TypeOK ViewIsTheBuffer BadgeOfASession
PROPERTY NewestRowStays
CHECK_DEADLOCK FALSE
