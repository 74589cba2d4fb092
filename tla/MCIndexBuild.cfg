SPECIFICATION ScenarioSpec
CONSTANTS
  MaxSeq = 3
  MaxVal = 2
  MaxIndex = 3
  UserNames = {n1}
  Batch = 2
  Calls = {"step", "reindex"}
  Outcomes = {"ok", "lost", "published"}
VIEW Reachable
CONSTRAINT FewRows
INVARIANTS ReadyIsExact BuildingIsResumable CatalogueAgrees
PROPERTIES NameStaysAnswered
