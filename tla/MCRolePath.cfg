SPECIFICATION OperatedSpec
CONSTANTS
    Absent = Absent
    Empty = Empty
    id1 = id1
    id2 = id2
    Descriptions = {Empty, d1}
    StorageFaults = TRUE
    RoleRequests = {r1, r2, r3}
    Names = {n1, n2}
    RoleIDs = {id1, id2}
    RoleWrites <- MCRoleWrites
    MaxTime = 2
SYMMETRY Symmetry
INVARIANTS
    RoleTypeOK
    RoleWellFormed
PROPERTIES
    GrantsOnlyFromRequests
    FreshRoleSaveIsAtomic
    RoleIsAtMostOnce
    NoRoleUpdateLost
CHECK_DEADLOCK FALSE
