SPECIFICATION PublishedSpec
CONSTANTS
  k1 = k1
  MaxColl = 1
  Keys = {k1, k2}
  MaxId = 3
  Block = 2
  Register = TRUE
  DeletedIdentities = 1
  Batch = 1
  Outcomes = {"ok", "published"}
  Maintenance = {}
VIEW Reachable
INVARIANTS IdsNeverReused
CHECK_DEADLOCK FALSE
