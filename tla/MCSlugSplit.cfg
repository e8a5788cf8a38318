\* One tenant, one delivery, one lost response: the cron registers it again.
CONSTANTS
    t1 = t1
    t2 = t2
    x = x
    w1 = w1
    w2 = w2
    a1 = a1
    r1 = r1
    Tenants = {t1}
    Profiled = {t1}
    Kv <- KvOwn
    NoTenant = NoTenant
    BatchSize = 1
    Deliveries = {w1}
    Retries = {}
    Rotations = {}
    For <- ForOne
    From <- FromX
    MaxFaults = 1
SPECIFICATION Spec
INVARIANTS SyncedTenantAuthenticates
CHECK_DEADLOCK FALSE
