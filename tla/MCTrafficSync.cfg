\* Two properties, two requests, another consent, one fault, two days.
CONSTANTS
    old = old
    young = young
    q1 = q1
    q2 = q2
    Props = {old, young}
    k1 = k1
    k2 = k2
    Keys = {k1, k2}
    Has <- MCHas
    Latency <- MCLatency
    Requests = {q1, q2}
    Cron = cron
    Absent = absent
    None = none
    FirstToday = 3
    MaxDay = 4
    MaxConsents = 1
    MaxFaults = 1
    CronDays <- MCCronDays
    ResyncDays = 2
    Healthy = 2
SPECIFICATION Spec
CONSTRAINT InOrder
INVARIANTS StampedDaysShown BackfillShown
PROPERTIES OnlyConsentConnects DueIsSynced
CHECK_DEADLOCK FALSE
