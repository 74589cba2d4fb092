SPECIFICATION MappedSpec
CONSTANTS
  Pages = {p1}
  Vals = {a, b}
  WalCap = 5
  Meta = Meta
  Torn = Torn
  Readers = {r1, r2}
  Writer = W
  Slots = 2
  FoldAt = 3
  MaxTx = 2
  MaxEvict = 0
  Faults = {}
SYMMETRY ReaderSymmetry
VIEW Reachable
CONSTRAINT FewReaders
INVARIANTS Recoverable CopySurvives IndexNamesFrames SnapshotStable SeenIsDurable SnapshotCurrent FoldAlone
PROPERTIES FoldKeepsState KeepsPromise
CHECK_DEADLOCK FALSE
