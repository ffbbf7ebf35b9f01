--------------------------- MODULE TelemetryConfig ---------------------------
(***************************************************************************)
(* The telemetry configuration that backend/telemetry/config.go resolves   *)
(* from the environment of the plugin process, and what init.go makes of   *)
(* it.  An environment is a record with one field per variable that the    *)
(* code reads.  Texts are abstracted to what the code tells apart:         *)
(*                                                                         *)
(*   flags       "unset", "true" and "false" in any case, "1", "0", "other" *)
(*   endpoints   "none", or by what comes before "://":                    *)
(*      "bare"     no "://" at all          "https"     https://...        *)
(*      "http"     http://...               "HTTP"      HTTP://...         *)
(*      "badhttp"  http://..., unparsable   "badhttps"  https://..., same  *)
(*   rates       a percentage, or the NaN that ParseFloat reads in "NaN"   *)
(*                                                                         *)
(* The service names, headers, timeout and export interval are passed on   *)
(* to OpenTelemetry and decide nothing here; they are left out.            *)
(***************************************************************************)
EXTENDS Integers

CONSTANTS
    Unset,       \* TELEMETRY_SAMPLE_RATE is not set
    Unparsable,  \* ... or ParseFloat refuses it
    NaN          \* ... or it is not a number

ASSUME RateAssumption ==
    /\ {Unset, Unparsable, NaN} \cap Int = {}
    /\ NaN \notin {Unset, Unparsable}

Flags == {"unset", "true", "1", "false", "0", "other"}

Endpoints == {"none", "bare", "http", "HTTP", "https", "badhttp", "badhttps"}

Rates == Int \cup {NaN}

Environment ==
    [ENV: {"unset", "dev", "uat", "cug", "prod", "other"},
     RUNTIME_LOCAL: Flags,
     TELEMETRY_ENABLED: Flags,
     TELEMETRY_TRACES_ENABLED: Flags,
     TELEMETRY_METRICS_ENABLED: Flags,
     OTEL_EXPORTER_OTLP_TRACES_ENDPOINT: Endpoints,
     OTEL_EXPORTER_OTLP_METRICS_ENDPOINT: Endpoints,
     OTEL_EXPORTER_OTLP_INSECURE: Flags,
     OTEL_EXPORTER_OTLP_METRICS_INSECURE: Flags,
     TELEMETRY_SAMPLE_RATE: Rates \cup {Unset, Unparsable}]

ResolvedConfig ==
    [enabled: BOOLEAN, useNoOp: BOOLEAN,
     tracesEndpoint: Endpoints, tracesInsecure: BOOLEAN,
     metricsEndpoint: Endpoints, metricsInsecure: BOOLEAN,
     sampleRate: Rates]
-----------------------------------------------------------------------------
(* config.go: resolution of one setting *)

\* Mutant of resolveBoolFlag: whatever is not "false" is true.
LenientBoolFlag(flag, default) ==
    IF flag = "unset" THEN default ELSE flag # "false"

resolveBoolFlag(flag, default) ==
    IF flag = "unset" THEN default ELSE flag \in {"true", "1"}

resolveStringValue(value, default) == IF value = "none" THEN default ELSE value

\* The environments that have endpoints of their own, all of them https URLs.
otelEndpoints == {"dev", "uat", "cug", "prod"}

\* getDefaultTracesEndpoint and getDefaultMetricsEndpoint.
defaultEndpoint(env) == IF env \in otelEndpoints THEN "https" ELSE "none"

\* Go's < on float64, for which a NaN is neither below nor above anything.
Less(x, y) == x # NaN /\ y # NaN /\ x < y

clampSampleRate(rate) ==
    IF Less(rate, 0) THEN 0 ELSE IF Less(100, rate) THEN 100 ELSE rate

\* Mutant of resolveSampleRate: what does not parse is handed on.
UnparsedSampleRate(text) ==
    IF text = Unset THEN 100
    ELSE IF text = Unparsable THEN text ELSE clampSampleRate(text)

\* Mutant of resolveSampleRate: the zero of BuildConfigInput is a rate.
ZeroSampleRate(text) ==
    IF text \in {Unset, Unparsable} THEN 0 ELSE clampSampleRate(text)

\* Factory leaves SampleRate at 0, so the environment decides, and 1.0 otherwise.
resolveSampleRate(text) ==
    IF text \in {Unset, Unparsable} THEN 100 ELSE clampSampleRate(text)

\* An endpoint and the flag that may switch its signal off.
switchable(endpoint, flag) == IF flag \in {"false", "0"} THEN "none" ELSE endpoint

\* Mutant of NoOp: every environment honours RUNTIME_LOCAL.
NoOpEverywhere(e) == e.RUNTIME_LOCAL = "true"

\* RUNTIME_LOCAL: only "true" counts, and cug and prod ignore it.
NoOp(e) == e.RUNTIME_LOCAL = "true" /\ e.ENV \notin {"cug", "prod"}

\* strings.HasPrefix(endpoint, "http://"), case-sensitive.
hasHTTPPrefix(endpoint) == endpoint \in {"http", "badhttp"}

BuildConfig(e) ==
    LET traces == switchable(resolveStringValue(e.OTEL_EXPORTER_OTLP_TRACES_ENDPOINT,
                                 defaultEndpoint(e.ENV)), e.TELEMETRY_TRACES_ENABLED)
        metrics == switchable(resolveStringValue(e.OTEL_EXPORTER_OTLP_METRICS_ENDPOINT,
                                 defaultEndpoint(e.ENV)), e.TELEMETRY_METRICS_ENABLED)
    IN  [enabled |-> resolveBoolFlag(e.TELEMETRY_ENABLED, TRUE),
         useNoOp |-> NoOp(e),
         tracesEndpoint |-> traces,
         tracesInsecure |-> resolveBoolFlag(e.OTEL_EXPORTER_OTLP_INSECURE, hasHTTPPrefix(traces)),
         metricsEndpoint |-> metrics,
         metricsInsecure |-> resolveBoolFlag(e.OTEL_EXPORTER_OTLP_METRICS_INSECURE,
                                             hasHTTPPrefix(metrics)),
         sampleRate |-> resolveSampleRate(e.TELEMETRY_SAMPLE_RATE)]

IsTracesEnabled(cfg) == cfg.enabled /\ ~cfg.useNoOp /\ cfg.tracesEndpoint # "none"

IsMetricsEnabled(cfg) == cfg.enabled /\ ~cfg.useNoOp /\ cfg.metricsEndpoint # "none"
-----------------------------------------------------------------------------
(* init.go: what the exporters and the sampler are given *)

\* Mutant of parseEndpointURL: whatever is not https is sent in the clear.
NotHTTPS(endpoint) == endpoint \notin {"https", "badhttps"}

\* useInsecure of parseEndpointURL: url.Parse lowers the scheme; an endpoint that
\* it refuses, or that has no scheme, is not insecure by itself.
parseEndpointURL(endpoint) == endpoint \in {"http", "HTTP"}

\* buildTracerExporterOptions and buildMetricsExporterOptions.
tracesInTheClear(cfg) == parseEndpointURL(cfg.tracesEndpoint) \/ cfg.tracesInsecure

metricsInTheClear(cfg) == parseEndpointURL(cfg.metricsEndpoint) \/ cfg.metricsInsecure

\* Whether a span may be sampled (TRUE), not be sampled (FALSE), or either.  What
\* TraceIDRatioBased makes of a NaN depends on the processor's conversion.
buildSampler(rate) ==
    IF rate = NaN THEN BOOLEAN
    ELSE {sampled \in BOOLEAN : IF sampled THEN rate > 0 ELSE rate < 100}
-----------------------------------------------------------------------------
(* What the operator asked for, said without the code's priorities *)

\* docs/architecture.md:114, "Environment variables allow operators to disable
\* telemetry entirely": the two switches ...
SwitchedOff(e) ==
    \/ e.TELEMETRY_ENABLED \notin {"unset", "true", "1"}
    \/ e.RUNTIME_LOCAL = "true" /\ e.ENV \notin {"cug", "prod"}

\* ... the switches of one signal ...
TracesSwitchedOff(e) == SwitchedOff(e) \/ e.TELEMETRY_TRACES_ENABLED \in {"false", "0"}

MetricsSwitchedOff(e) == SwitchedOff(e) \/ e.TELEMETRY_METRICS_ENABLED \in {"false", "0"}

\* ... and the ways of asking for a connection without TLS.
TracesClearAsked(e) ==
    \/ e.OTEL_EXPORTER_OTLP_INSECURE \in {"true", "1"}
    \/ e.OTEL_EXPORTER_OTLP_TRACES_ENDPOINT \in {"http", "HTTP", "badhttp"}

MetricsClearAsked(e) ==
    \/ e.OTEL_EXPORTER_OTLP_METRICS_INSECURE \in {"true", "1"}
    \/ e.OTEL_EXPORTER_OTLP_METRICS_ENDPOINT \in {"http", "HTTP", "badhttp"}
=============================================================================
