\* One tenant, its domain on file for slug x: two webhook deliveries, a retry, a
\* rotation of x into its row, one fault.
CONSTANTS
    t1 = t1
    t2 = t2
    x = x
    w1 = w1
    w2 = w2
    a1 = a1
    r1 = r1
    Tenants = {t1, x}
    Profiled = {t1}
    Kv <- KvLost
    NoTenant = NoTenant
    BatchSize = 1
    Deliveries = {w1, w2}
    Retries = {a1}
    Rotations = {r1}
    For <- ForOne
    From <- FromX
    MaxFaults = 1
SPECIFICATION Spec
INVARIANTS OwnKey SyncedHasKey DeadKeyOnlyByRotation
CHECK_DEADLOCK FALSE
