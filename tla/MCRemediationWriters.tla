----------------------- MODULE MCRemediationWriters -------------------------
(* A small workspace for TLC: one tenant with an administrator and an       *)
(* analyst, two items of which one blocks releases.                         *)
EXTENDS RemediationWriters

CONSTANTS ia, ib, admin, analyst, tenant, p1, p2

MCTenantOf == [i \in Item |-> tenant]

MCUserTenant == [u \in User |-> tenant]

MCRoleOf == [u \in User |-> IF u = admin THEN "ADMIN" ELSE "ANALYST"]
=============================================================================
