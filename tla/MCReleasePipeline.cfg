CONSTANTS
    a1 = a1
    a2 = a2
    Absent = Absent
    Audit = {a1, a2}
    Gate <- MCGate
    MaxRuns = 2
    MaxQueueings = 2
    MaxDeaths = 1

SPECIFICATION MCSpec

SYMMETRY AuditSymmetry

INVARIANTS
    DoneMeansWritten
    NothingIsLost
    RunsAgree
    ReleasedWasExecuted

PROPERTIES
    RecordsAreFinal
    ReleaseIsEarned
    ReadinessCoversJobs

\* The bounded runs end.
CHECK_DEADLOCK FALSE
