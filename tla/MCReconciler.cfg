\* Two tenants, the domain of one on file for slug x, a delivery for each, two faults,
\* and the cron.
CONSTANTS
    t1 = t1
    t2 = t2
    x = x
    w1 = w1
    w2 = w2
    a1 = a1
    r1 = r1
    Tenants = {t1, t2, x}
    Profiled = {t1, t2}
    Kv <- KvSplit
    NoTenant = NoTenant
    BatchSize = 2
    Deliveries = {w1, w2}
    Retries = {}
    Rotations = {}
    For <- ForTwo
    From <- FromX
    MaxFaults = 2
SPECIFICATION Spec
INVARIANTS OwnKey
PROPERTIES PaidIsReconciled
CHECK_DEADLOCK FALSE
