SPECIFICATION OperatedSpec
CONSTANTS
    Absent = Absent
    Empty = Empty
    id1 = id1
    id2 = id2
    Descriptions = {Empty, d1}
    StorageFaults = FALSE
    RoleRequests = {r1, r2, r3}
    Names = {n1}
    RoleIDs = {id1, id2}
    RoleWrites <- MCRoleWrites
    MaxTime = 0
SYMMETRY Symmetry
PROPERTY RoleRemovalIrreversible
CHECK_DEADLOCK FALSE
