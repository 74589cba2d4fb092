SPECIFICATION ScenarioSpec
CONSTANTS
  p1 = p1
  r1 = r1
  Pages = {p1, p2}
  Vals = {a, b}
  WalCap = 4
  Meta = Meta
  Torn = Torn
  Readers = {}
  Writer = W
  Slots = 1
  FoldAt = 3
  MaxTx = 1
  MaxEvict = 1
  Faults = {"io", "crash", "power", "reorder"}
VIEW Reachable
INVARIANTS PowerLossOpensToTruth WindowSnapshotFresh
PROPERTIES WindowGateReleased
CHECK_DEADLOCK FALSE
