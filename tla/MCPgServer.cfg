CONSTANTS
  c1 = c1
  c2 = c2
  Slots = 3
  FoldAt = 2
  LogCap = 2
  QueueBound = 1
  KeyCap = 1
  IntervalZero = TRUE
  MaxSerial = 6
  Conns = {c1, c2}
  Programs <- Simple
  Prepares <- Extended
  AnswerRows = 2
  MaxTx = 3
  Faults = {"read", "write", "commit", "fold", "rollback"}
SPECIFICATION Spec
INVARIANTS
  OneViewEach
  WriterLeftClean
  PortalRunsOnce
PROPERTIES
  BlockIsAtomic
  ReadsForward
  FoldsWhenLetGo
CONSTRAINT Apart
CHECK_DEADLOCK FALSE
