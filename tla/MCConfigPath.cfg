SPECIFICATION OperatedSpec
CONSTANTS
    Absent = Absent
    Empty = Empty
    FilePaths = {f1}
    JSONBlobs = {j1, malformed}
    WellFormedJSON = {j1}
    Descriptions = {Empty, d1}
    ConfigWrites <- MCConfigWrites
    StorageFaults = TRUE
    ConfigRequests = {c1, c2, c3}
SYMMETRY Symmetry
INVARIANTS
    ConfigTypeOK
    StoredConfigValid
    StoredCredentialVetted
    HistoryComplete
    HistoryFaithful
PROPERTIES
    CredentialsOnlyFromRequests
    FreshSaveIsAtomic
    ConfigIsAtMostOnce
    NoUpdateLost
    HistoryKept
CHECK_DEADLOCK FALSE
