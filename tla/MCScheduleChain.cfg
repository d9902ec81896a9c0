CONSTANTS
  Schedule = {s1}
  Interval = 1
  LeadDays = 0
  MaxDay = 2
  MaxDeaths = 1
  Statuses = {"ready", "STALE_EVIDENCE"}
  NoFile = NoFile
SPECIFICATION Spec
INVARIANTS NothingIsDropped ReadyIsMaterialized AlertsAreShown
PROPERTIES QueuedBecomesWork
CHECK_DEADLOCK FALSE
