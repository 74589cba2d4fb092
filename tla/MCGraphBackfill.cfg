SPECIFICATION SingleSpec
CONSTANTS
  Rows = {1, 2, 3}
  Home <- OneHome
  Labels = {1}
  Tuples <- Ring
  Bags = {0}
  OldRows = {1, 2, 3}
  OldEdges <- Ring
  TableLabels = {}
  TableEnds <- NoEnds
  TableKeys = {}
  Register = TRUE
  IdBlock = 2
  MaxId = 2
  MemoSize = 2
  MaxCascade = 3
  Batch = 2
  Calls = {"rows", "put", "remove", "backfill"}
  Outcomes = {"ok", "lost"}
INVARIANTS Reopenable
CHECK_DEADLOCK FALSE
