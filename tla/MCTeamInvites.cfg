\* New users: two invitations, a removal, two clicks on the link.
CONSTANTS
    Users = {olga, uma, vera}
    Founder = olga
    Strangers = {}
    Admin = admin
    Invites = {i1, i2}
    Removals = {d1}
    RoleChanges = {}
    Accepts = {p1, p2}
    Cap = 2
    Nobody = nobody
SYMMETRY Symmetry
SPECIFICATION HistorySpec
INVARIANTS OneWinner SeatsKept LinkSent
PROPERTY InvitationsOnlyAdd
CHECK_DEADLOCK FALSE
