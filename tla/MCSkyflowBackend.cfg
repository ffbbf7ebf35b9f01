SPECIFICATION BackendSpec
CONSTANTS
    Absent = Absent
    Empty = Empty
    f1 = f1
    j1 = j1
    id1 = id1
    id2 = id2
    FilePaths = {f1}
    JSONBlobs = {j1}
    WellFormedJSON = {j1}
    Descriptions = {Empty}
    ConfigWrites <- MCConfigWrites
    RoleWrites <- MCRoleWrites
    Names = {n1}
    RoleIDs = {id1, id2}
    MaxTime = 0
    StorageFaults = TRUE
    ConfigRequests = {c1, c2}
    RoleRequests = {r1, r2}
    TokenRequests = {t1}
    HealthRequests = {}
SYMMETRY Symmetry
INVARIANTS
    TokenTypeOK
    TokensScoped
    QuietCutOff
    TokensVetted
PROPERTIES
    TokensAreAuthorised
CHECK_DEADLOCK FALSE
