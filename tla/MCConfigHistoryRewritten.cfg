SPECIFICATION OperatedSpec
CONSTANTS
    Absent = Absent
    Empty = Empty
    FilePaths = {f1}
    JSONBlobs = {j1, malformed}
    WellFormedJSON = {j1}
    Descriptions = {Empty, d1}
    ConfigWrites <- MCConfigWrites
    StorageFaults = FALSE
    ConfigRequests = {c1, c2, c3}
SYMMETRY Symmetry
PROPERTY HistoryNeverRewritten
CHECK_DEADLOCK FALSE
