CONSTANTS
  c1 = c1
  c2 = c2
  Slots = 3
  FoldAt = 2
  LogCap = 2
  QueueBound = 1
  KeyCap = 1
  IntervalZero = TRUE
  MaxSerial = 6
  Conns = {c1}
  Programs <- Alone
  Prepares <- Unprepared
  AnswerRows = 2
  MaxTx = 3
  Faults = {}
SPECIFICATION Spec
PROPERTIES
  OwnWritesRead
CHECK_DEADLOCK FALSE
