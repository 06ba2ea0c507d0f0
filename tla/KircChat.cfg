SPECIFICATION Spec
CONSTANTS
  Clients = {c1, c2}
  Readers = {c1}
  Echoing = {{c1}, {c2}}
  Channel = "#a"
  MaxBatches = 2
  Limits = {1, 2}
  MaxHistory = 2
  MaxChunks = 2
  MaxWire = 1
  MaxSaid = 2
  MaxAsked = 3
INVARIANTS ShownOnce HistoryIsWhole AnsweredOnce
CHECK_DEADLOCK FALSE
