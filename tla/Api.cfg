CONSTANTS
    a1 = a1
    a2 = a2
    admin = admin
    owner = owner
    keeper = keeper
    operator = operator
    App = {a1, a2}
    Request = {q1, q2}
    User = {admin, owner, keeper, operator}
    Admins = {admin}
    Grants <- MCGrants
    Global = Global
    Viewer = admin
    Old = Old
    NoRow = NoRow
    OldRun <- MCOldRun
    MaxRun = 4
    Limit = 2
    Budget = 1
SPECIFICATION Spec
SYMMETRY Interchangeable
INVARIANTS ApiInv RowsAreGranted PagesCoverHistory
PROPERTIES AppKeepsIdentity
CHECK_DEADLOCK FALSE
