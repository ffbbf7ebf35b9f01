SPECIFICATION TelemetrySpec
CONSTANTS
    Unset = Unset
    Unparsable = Unparsable
    NaN = NaN
    Nobody = Nobody
    Forwarding = Forwarding
    Backends = {b1, b2}
    Requests = {r1}
    Environments <- MCEnvironments
SYMMETRY Symmetry
INVARIANTS
    TelemetryTypeOK
    OffMeansOff
    ProductionObserved
    ClearOnlyIfAsked
    SampledAsAsked
    NoOrphanTracers
    TracesWhole
    FiguresNest
    AnsweredCallsAudited
    RecordsAgree
PROPERTIES
    FirstKeepsItsSpans
    TokenCallsObserved
CHECK_DEADLOCK FALSE
