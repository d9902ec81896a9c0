CONSTANTS
  Thread = {t1, t2}
  Item = {e1, e2}
  Job = {j1}
  None = None
  MaxRequests = 4
  OverlapRequests = 2
  MaxStores = 2
  MaxDeaths = 1
SPECIFICATION MCSpec
SYMMETRY Symmetry
INVARIANTS ReviewIsCurrent CatalogIsIndexed AuditedWasProcessed NothingIsStuck StrandedByDeath
CHECK_DEADLOCK FALSE
