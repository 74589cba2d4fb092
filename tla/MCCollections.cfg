SPECIFICATION ScenarioSpec
CONSTANTS
  k1 = k1
  MaxColl = 2
  Keys = {k1, k2}
  MaxId = 4
  Block = 2
  Register = FALSE
  DeletedIdentities = 1
  Batch = 2
  Outcomes = {"ok", "lost", "published"}
  Maintenance = {"drop", "backfill"}
VIEW Reachable
CONSTRAINT OneCollection
INVARIANTS
  IdsNeverReused
  KnownLiveIsThere
  CountExact
  RowsConsistent
  DropResumable
PROPERTIES DropFreezes
CHECK_DEADLOCK FALSE
