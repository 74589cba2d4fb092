CONSTANTS
  Slots = 2
  FoldAt = 2
  LogCap = 2
  QueueBound = 1
  KeyCap = 1
  IntervalZero = FALSE
  MaxSerial = 3
  Readers = {r1}
  Subs = {c1}
  LeftLogs = {1}
  MaxTx = 3
  MaxActive = 2
  MaxBatch = 2
  MaxEvents = 2
  Faults = {}
SPECIFICATION Spec
PROPERTIES
  BarrierIsEvent
CHECK_DEADLOCK FALSE
CONSTRAINT Active
