SPECIFICATION TelemetrySpec
CONSTANTS
    Unset = Unset
    Unparsable = Unparsable
    NaN = NaN
    Nobody = Nobody
    Forwarding = Forwarding
    Backends = {b1}
    Requests = {r1}
    Environments <- RateEnvironments
INVARIANT SampleRateInRange
CHECK_DEADLOCK FALSE
