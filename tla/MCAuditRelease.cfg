CONSTANTS
  Thread = {t1, t2}
  None = None
  FileCount = 2
  MaxAudits = 2
  MaxRequests = 6
  FaultRequests = 5
  MaxDeaths = 1
SPECIFICATION MCSpec
SYMMETRY Symmetry
INVARIANTS ReadyIsEarned ReleasedIsOneAudit PackagesAreBacked
CHECK_DEADLOCK FALSE
