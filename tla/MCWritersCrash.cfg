CONSTANTS
    ia = ia
    ib = ib
    admin = admin
    analyst = analyst
    tenant = tenant
    None = None
    Torn = Torn
    p1 = p1
    p2 = p2
    Proc = {p1}
    Item = {ia, ib}
    User = {admin, analyst}
    Tenant = {tenant}
    File = {"file1"}
    DueDate = {0}
    Blocking = {ia}
    DayLength = 1
    TenantOf <- MCTenantOf
    UserTenant <- MCUserTenant
    RoleOf <- MCRoleOf
    MaxSeq = 8
    MaxTime = 1
    MaxCrashes = 2

SPECIFICATION WritersSpec

INVARIANTS
    SettledWorkspace
    TrailInOrder
    OneItemPerCrash

PROPERTY OneProcessIsAtomic

CHECK_DEADLOCK FALSE
