SPECIFICATION BackendSpec
CONSTANTS
    Absent = Absent
    Empty = Empty
    f1 = f1
    j1 = j1
    id1 = id1
    id2 = id2
    FilePaths = {f1}
    JSONBlobs = {j1}
    WellFormedJSON = {j1}
    Descriptions = {Empty}
    ConfigWrites <- MCConfigWrites
    RoleWrites <- MCRoleWrites
    Names = {n1}
    RoleIDs = {id1, id2}
    MaxTime = 0
    StorageFaults = FALSE
    ConfigRequests = {c1, c2}
    RoleRequests = {r1}
    TokenRequests = {t1}
    HealthRequests = {}
PROPERTY CutOffIsImmediate
CHECK_DEADLOCK FALSE
