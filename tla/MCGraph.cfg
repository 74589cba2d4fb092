SPECIFICATION ScenarioSpec
CONSTANTS
  Rows = {1, 2, 3}
  Home <- TwoHomes
  Labels = {1, 2}
  Tuples <- TypedTuples
  Bags = {0, 1}
  OldRows = {1, 2, 3}
  OldEdges <- NoTuples
  TableLabels = {2}
  TableEnds <- PeoplePlaces
  TableKeys <- SomeKeys
  Register = TRUE
  IdBlock = 2
  MaxId = 2
  MemoSize = 2
  MaxCascade = 3
  Batch = 2
  Calls = {"table", "link", "drop"}
  Outcomes = {"ok", "lost"}
VIEW Reachable
INVARIANTS EdgesSound EndpointSetExact EdgeIdsNeverReused TableKeyHolds ReadsExact
PROPERTIES NoEdgeOrphaned
CHECK_DEADLOCK FALSE
