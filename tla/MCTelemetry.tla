----------------------------- MODULE MCTelemetry -----------------------------
(***************************************************************************)
(* Telemetry on a small instance: two backends in one process, and a set   *)
(* of environments that sets one or two variables at a time.               *)
(***************************************************************************)
EXTENDS Telemetry, TLC

Bare == [ENV |-> "prod", RUNTIME_LOCAL |-> "unset", TELEMETRY_ENABLED |-> "unset",
         TELEMETRY_TRACES_ENABLED |-> "unset", TELEMETRY_METRICS_ENABLED |-> "unset",
         OTEL_EXPORTER_OTLP_TRACES_ENDPOINT |-> "none",
         OTEL_EXPORTER_OTLP_METRICS_ENDPOINT |-> "none",
         OTEL_EXPORTER_OTLP_INSECURE |-> "unset",
         OTEL_EXPORTER_OTLP_METRICS_INSECURE |-> "unset",
         TELEMETRY_SAMPLE_RATE |-> Unset]

\* Three environment names with and without RUNTIME_LOCAL; the main switch on and
\* misspelt; each signal switched off, each in another spelling; an endpoint without a
\* scheme and one with a scheme in capitals; rates below, in and above the range and
\* misspelt.
MCEnvironments ==
    {[Bare EXCEPT !.ENV = name, !.RUNTIME_LOCAL = local] :
        name \in {"unset", "dev", "prod"}, local \in {"unset", "true"}}
    \cup {[Bare EXCEPT !.RUNTIME_LOCAL = "true", !.TELEMETRY_ENABLED = flag] :
        flag \in {"1", "other"}}
    \cup {[Bare EXCEPT !.TELEMETRY_TRACES_ENABLED = "0"],
          [Bare EXCEPT !.TELEMETRY_METRICS_ENABLED = "false"]}
    \cup {[Bare EXCEPT !.ENV = "unset", !.OTEL_EXPORTER_OTLP_TRACES_ENDPOINT = endpoint,
                       !.OTEL_EXPORTER_OTLP_METRICS_INSECURE = "true"] :
        endpoint \in {"bare", "HTTP"}}
    \cup {[Bare EXCEPT !.TELEMETRY_SAMPLE_RATE = rate] : rate \in {-1, 50, 101, Unparsable}}

\* ... and every text a rate may be read from.
RateEnvironments ==
    {[Bare EXCEPT !.TELEMETRY_SAMPLE_RATE = rate] :
        rate \in {Unset, Unparsable, -1, 0, 50, 100, 101, NaN}}

Symmetry == Permutations(Backends) \cup Permutations(Requests)

\* The comment of clampSampleRate, config.go:349: "ensures sample rate is between
\* 0.0 and 1.0".
SampleRateInRange ==
    \A b \in Backends : backend[b].traces = "running" => Config.sampleRate \in 0..100
=============================================================================
