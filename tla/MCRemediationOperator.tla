----------------------- MODULE MCRemediationOperator ------------------------
(* A small workspace for TLC: two tenants with one item each; the first has *)
(* an administrator and an analyst, the second its own owner.               *)
EXTENDS RemediationOperator

CONSTANTS ia, ib, admin, analyst, owner, tenantA, tenantB

MCTenantOf == [i \in Item |-> IF i = ia THEN tenantA ELSE tenantB]

MCUserTenant == [u \in User |-> IF u = owner THEN tenantB ELSE tenantA]

MCRoleOf == [u \in User |-> CASE u = admin   -> "ADMIN"
                              [] u = analyst -> "ANALYST"
                              [] u = owner   -> "OWNER"]
=============================================================================
