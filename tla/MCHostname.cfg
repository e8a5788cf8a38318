\* Two tenants and one domain: three handlers, two at a time, one fault.
CONSTANTS
    apex = apex
    www = www
    s1 = s1
    s2 = s2
    o1 = o1
    o2 = o2
    Hosts = {apex, www}
    Slugs = {s1, s2}
    None = none
    Ops = {o1, o2}
    MaxOps = 3
    MaxFaults = 1
SPECIFICATION Spec
SYMMETRY Symmetry
INVARIANTS ActiveIsRouted
PROPERTIES NoTakeover StatusKept
CHECK_DEADLOCK FALSE
