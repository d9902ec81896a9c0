CONSTANTS
    t1 = t1
    t2 = t2
    h1 = h1
    None = None
    Thread = {t1, t2}
    Hook = {h1}
    MaxFailures = 2
    MaxDeliveries = 1
    MaxSends = 1
    MaxDeaths = 0

SPECIFICATION Spec

PROPERTY DeletedStaysDeleted

CHECK_DEADLOCK FALSE
