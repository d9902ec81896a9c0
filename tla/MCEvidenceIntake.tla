-------------------------- MODULE MCEvidenceIntake --------------------------
(* A small intake for TLC: two tenants upload the same file to one audit.   *)
EXTENDS EvidenceIntake, TLC

CONSTANTS tenantA, tenantB

\* Nothing orders tenants or tells them apart.
TenantSymmetry == Permutations(Tenant)
=============================================================================
