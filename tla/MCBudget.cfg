\* Three requests of any kind, one tenant, one midnight.
CONSTANTS
    Calls = {c1, c2, c3}
    Slugs = {s1}
    Fleet = fleet
    FleetCap = 6
    TenantCap = 4
    Kinds <- AllThreeKinds
    Stake <- MCStake
    Costs <- MCCosts
    LastDay = 1
SYMMETRY Symmetry
SPECIFICATION Spec
INVARIANTS TypeOK CapBound ReservedIsOwned AttributedWithinFleet
CHECK_DEADLOCK FALSE
