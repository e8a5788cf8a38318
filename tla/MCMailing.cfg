\* A digest and two reviews; two batches overlap retry runs; one fault.
CONSTANTS
    d1 = d1
    m2 = m2
    m1 = m1
    b1 = b1
    r1 = r1
    Digests = {d1}
    Reviews = {m1, m2}
    None = none
    Batches = {b1}
    Retries = {r1}
    MaxAttempts = 2
    PerRun = 1
    MaxBatches = 2
    MaxFaults = 1
SPECIFICATION Spec
INVARIANTS DuplicateHasCause NoSilentDrop
PROPERTIES SentIsFinal EveryMailSettles
CHECK_DEADLOCK FALSE
