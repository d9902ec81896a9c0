CONSTANTS
    ia = ia
    ib = ib
    admin = admin
    analyst = analyst
    owner = owner
    tenantA = tenantA
    tenantB = tenantB
    None = None
    Item = {ia, ib}
    User = {admin, analyst, owner}
    Tenant = {tenantA, tenantB}
    File = {"file1"}
    DueDate = {0}
    Blocking = {ia}
    DayLength = 1
    TenantOf <- MCTenantOf
    UserTenant <- MCUserTenant
    RoleOf <- MCRoleOf
    MaxSeq = 12
    MaxTime = 1

SPECIFICATION Spec

INVARIANTS
    LedgerTellsStatus
    ClosedIsVerified
    TenantIsolation
    OneReminderADay

CHECK_DEADLOCK FALSE
