\* Owners: an invitation, a removal and two role changes by owners and an admin.
CONSTANTS
    Users = {olga, uma, vera}
    Founder = olga
    Strangers = {uma}
    Admin = admin
    Invites = {i1}
    Removals = {d1}
    RoleChanges = {r1, r2}
    Accepts = {}
    Cap = 2
    Nobody = nobody
SYMMETRY Symmetry
SPECIFICATION HistorySpec
INVARIANT OwnershipHandedOn
PROPERTY OwnersStay
CHECK_DEADLOCK FALSE
