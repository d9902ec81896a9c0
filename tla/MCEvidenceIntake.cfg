CONSTANTS
    tenantA = tenantA
    tenantB = tenantB
    Tenant = {tenantA, tenantB}
    Audit = {"audit"}
    Doc = {"doc"}
    Category = {"policy"}
    MaxSessions = 2
    MaxEvidence = 2
    MaxDeaths = 1

SPECIFICATION Spec

SYMMETRY TenantSymmetry

INVARIANTS
    CompletedIsBacked
    DoneJobsAreReady
    OneLiveCopy
    PassIsKept
    StrandedByDeath
