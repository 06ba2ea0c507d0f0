SPECIFICATION FairSpec
CONSTANTS
  MaxEpoch = 2
  EventCapacity = 1
  EventSlots = 1
  CommandCapacity = 1
INVARIANTS
  TypeOK
  DisconnectIsFinal
  RowsOfOneSession
  QtQueueIsBounded
PROPERTY StateSettles
CHECK_DEADLOCK FALSE
