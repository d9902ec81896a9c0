CONSTANTS
  Proc = {p1, p2}
  Subject = {s1}
  NoRun = NoRun
  MaxAudits = 1
  MaxRuns = 2
  MaxTime = 1
  MaxDeaths = 1
SYMMETRY Symmetry
SPECIFICATION MCSpec
INVARIANTS CompletedIsEarned RegisterAgrees
PROPERTIES ClosedRunsStay
CHECK_DEADLOCK FALSE
