CONSTANTS
    t1 = t1
    t2 = t2
    h1 = h1
    None = None
    Thread = {t1, t2}
    Hook = {h1}
    MaxFailures = 2
    MaxDeliveries = 2
    MaxSends = 2
    MaxDeaths = 1

SPECIFICATION Spec

SYMMETRY Symmetry

INVARIANTS
    DisablingIsEarned
    SentWasAccepted
    CountsTheStreak
    LogMissesOnlyDeaths

PROPERTIES
    UsersDecide

CHECK_DEADLOCK FALSE
