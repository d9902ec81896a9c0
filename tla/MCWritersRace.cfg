CONSTANTS
    ia = ia
    ib = ib
    admin = admin
    analyst = analyst
    tenant = tenant
    None = None
    Torn = Torn
    p1 = p1
    p2 = p2
    Proc = {p1, p2}
    Item = {ia}
    User = {admin}
    Tenant = {tenant}
    File = {"file1"}
    DueDate = {0}
    Blocking = {ia}
    DayLength = 1
    TenantOf <- MCTenantOf
    UserTenant <- MCUserTenant
    RoleOf <- MCRoleOf
    MaxSeq = 6
    MaxTime = 0
    MaxCrashes = 0

SPECIFICATION WritersSpec

PROPERTY LedgerOnlyGrows

CHECK_DEADLOCK FALSE
