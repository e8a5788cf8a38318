\* Five requests of three clients, a map of two, two requests per window of two.
CONSTANTS
    c1 = c1
    c2 = c2
    c3 = c3
    i1 = i1
    do = do
    Ips = {c1, c2, c3}
    Global = do
    Isolates = {i1}
    Limit = 2
    Window = 2
    MaxIps = 2
    MaxCalls = 5
    MaxTime = 3
    MaxOutages = 2
SPECIFICATION GateSpec
SYMMETRY Symmetry
INVARIANTS GateTypeOK WindowBound RefusalEarned RetryAfterSuffices
PROPERTIES ForgottenOnlyInCrowd
CHECK_DEADLOCK FALSE
