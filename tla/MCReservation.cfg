\* Three calls over two keys, six units of time.
CONSTANTS
    q1 = q1
    q2 = q2
    q3 = q3
    s1 = s1
    s2 = s2
    k1 = k1
    k2 = k2
    ag1 = ag1
    ag2 = ag2
    Calls = {q1, q2, q3}
    Req <- SharedKey
    Slugs = {s1, s2}
    Keys = {k1, k2}
    Agents = {ag1, ag2}
    NoAgent = anonymous
    NoCall = nocall
    Businesses = {s1}
    HoldTime = 1
    TokenTTL = 2
    HeldKeep = 3
    ExpiredKeep = 4
    ConfirmedKeep = 3
    MaxTime = 6
SPECIFICATION Spec
INVARIANTS OneReservationPerKey LateConfirmBounded ConfirmedContactKept SingleCredit
PROPERTIES HoldImplemented
CHECK_DEADLOCK FALSE
