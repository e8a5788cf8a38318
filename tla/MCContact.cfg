\* Three callback requests with one key, a handoff, a change of routing, one fault.
CONSTANTS
    c1 = c1
    c2 = c2
    c3 = c3
    h1 = h1
    k1 = k1
    Callbacks = {c1, c2, c3}
    Handoffs = {h1}
    Keys = {k1}
    Identified = {c1, c2, h1}
    NoKey = nokey
    NoTicket = noticket
    MaxReroutes = 1
    MaxFaults = 1
SPECIFICATION Spec
INVARIANTS OneAnswerPerKey RepeatHasCause FiledAsDelivered
PROPERTIES EveryLeadIsFiled
CHECK_DEADLOCK FALSE
