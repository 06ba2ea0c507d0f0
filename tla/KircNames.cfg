SPECIFICATION Spec
CONSTANTS
  TopNick = 3
  Present = {2}
  Channels = {c1}
  TopStatus = 2
  Flags = {"m"}
  ListsLate = TRUE
  MaxNames = 9
  MaxChanges = 4
  MaxWire = 1
  MaxEvents = 2
INVARIANTS RosterIsTruth StatusIsShown FlagsAreConfirmed
CHECK_DEADLOCK FALSE
