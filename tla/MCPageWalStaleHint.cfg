SPECIFICATION Spec
CONSTANTS
  Pages = {p1}
  Vals = {a, b}
  WalCap = 3
  Meta = Meta
  Torn = Torn
  Readers = {r1}
  Writer = W
  Slots = 1
  FoldAt = 3
  MaxTx = 1
  MaxEvict = 0
  Faults = {"crash", "power", "stale"}
VIEW WithReaders
INVARIANTS StaleHintNotServed
CHECK_DEADLOCK FALSE
