SPECIFICATION FairSpec
CONSTANTS
    t1 = t1
    t2 = t2
    t3 = t3
    t4 = t4
    a = a
    b = b
    Tasks = {t1, t2, t3, t4}
    Tenants = {a, b}
    TenantOf <- TwoTenants
    Permits = 2
    MaxTimeouts = 2
INVARIANTS IndexingBounded NoPermitIdle CallbackOnce
PROPERTIES EveryTaskDone
