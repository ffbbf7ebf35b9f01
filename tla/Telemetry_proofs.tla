-------------------------- MODULE Telemetry_proofs --------------------------
(***************************************************************************)
(* Proofs about Telemetry, for every set of backends, requests and         *)
(* environments.                                                           *)
(***************************************************************************)
EXTENDS Telemetry, TLAPS

-----------------------------------------------------------------------------
(* Facts about the configuration *)

\* A resolved flag is a Boolean.
LEMMA BoolFlagType ==
    ASSUME NEW flag, NEW default \in BOOLEAN
    PROVE  resolveBoolFlag(flag, default) \in BOOLEAN
<1>1. CASE flag = "unset"
    BY <1>1, Zenon DEF resolveBoolFlag
<1>2. CASE flag # "unset"
  <2>1. resolveBoolFlag(flag, default) = (flag \in {"true", "1"})
      BY <1>2, Zenon DEF resolveBoolFlag
  <2>2. (flag \in {"true", "1"}) \in BOOLEAN
      BY SMT
  <2> QED
      BY <2>1, <2>2
<1> QED
    BY <1>1, <1>2

\* An insecure signal has its flag set, or an endpoint that says so.
LEMMA InsecureFlag ==
    ASSUME NEW flag, NEW endpoint, resolveBoolFlag(flag, hasHTTPPrefix(endpoint))
    PROVE  flag \in {"true", "1"} \/ hasHTTPPrefix(endpoint)
BY Zenon DEF resolveBoolFlag

\* BuildConfig is a configuration, whatever the environment says.
LEMMA BuildConfigType ==
    ASSUME NEW e \in Environment
    PROVE  BuildConfig(e) \in ResolvedConfig
<1> DEFINE cfg == BuildConfig(e)
<1>1. cfg.sampleRate \in Rates
    BY RateAssumption
    DEF Environment, BuildConfig, resolveSampleRate, clampSampleRate, Less, Rates
<1>2. cfg.tracesEndpoint \in Endpoints
    BY DEF Environment, BuildConfig, switchable, resolveStringValue, defaultEndpoint, otelEndpoints, Endpoints
<1>3. cfg.metricsEndpoint \in Endpoints
    BY DEF Environment, BuildConfig, switchable, resolveStringValue, defaultEndpoint, otelEndpoints, Endpoints
<1>4. cfg.enabled \in BOOLEAN /\ cfg.useNoOp \in BOOLEAN
  <2>1. cfg.enabled = resolveBoolFlag(e.TELEMETRY_ENABLED, TRUE) /\ cfg.useNoOp = NoOp(e)
      BY DEF BuildConfig
  <2> QED
      BY <2>1, BoolFlagType, Zenon DEF NoOp
<1>5. cfg.tracesInsecure \in BOOLEAN
  <2>1. cfg.tracesInsecure = resolveBoolFlag(e.OTEL_EXPORTER_OTLP_INSECURE,
                                             hasHTTPPrefix(cfg.tracesEndpoint))
      BY DEF BuildConfig
  <2>2. hasHTTPPrefix(cfg.tracesEndpoint) \in BOOLEAN
      BY DEF hasHTTPPrefix
  <2> QED
      BY <2>1, <2>2, BoolFlagType, Zenon
<1>6. cfg.metricsInsecure \in BOOLEAN
  <2>1. cfg.metricsInsecure = resolveBoolFlag(e.OTEL_EXPORTER_OTLP_METRICS_INSECURE,
                                              hasHTTPPrefix(cfg.metricsEndpoint))
      BY DEF BuildConfig
  <2>2. hasHTTPPrefix(cfg.metricsEndpoint) \in BOOLEAN
      BY DEF hasHTTPPrefix
  <2> QED
      BY <2>1, <2>2, BoolFlagType, Zenon
<1>7. cfg = [enabled |-> cfg.enabled, useNoOp |-> cfg.useNoOp,
             tracesEndpoint |-> cfg.tracesEndpoint, tracesInsecure |-> cfg.tracesInsecure,
             metricsEndpoint |-> cfg.metricsEndpoint, metricsInsecure |-> cfg.metricsInsecure,
             sampleRate |-> cfg.sampleRate]
    BY DEF BuildConfig
<1> HIDE DEF cfg
<1>8. cfg \in ResolvedConfig
    BY <1>1, <1>2, <1>3, <1>4, <1>5, <1>6, <1>7 DEF ResolvedConfig
<1> QED
    BY <1>8 DEF cfg

\* A signal that is switched off is not enabled.
LEMMA OffIsDisabled ==
    ASSUME NEW e \in Environment
    PROVE  /\ TracesSwitchedOff(e) => ~IsTracesEnabled(BuildConfig(e))
           /\ MetricsSwitchedOff(e) => ~IsMetricsEnabled(BuildConfig(e))
<1>1. SwitchedOff(e) => ~BuildConfig(e).enabled \/ BuildConfig(e).useNoOp
    BY DEF SwitchedOff, BuildConfig, resolveBoolFlag, NoOp
<1>2. e.TELEMETRY_TRACES_ENABLED \in {"false", "0"} => BuildConfig(e).tracesEndpoint = "none"
    BY DEF BuildConfig, switchable
<1>3. e.TELEMETRY_METRICS_ENABLED \in {"false", "0"} => BuildConfig(e).metricsEndpoint = "none"
    BY DEF BuildConfig, switchable
<1> QED
    BY <1>1, <1>2, <1>3 DEF TracesSwitchedOff, MetricsSwitchedOff, IsTracesEnabled, IsMetricsEnabled

\* In cug and prod a signal that is not switched off is enabled.
LEMMA ProductionIsEnabled ==
    ASSUME NEW e \in Environment, e.ENV \in {"cug", "prod"}
    PROVE  /\ ~TracesSwitchedOff(e) => IsTracesEnabled(BuildConfig(e))
           /\ ~MetricsSwitchedOff(e) => IsMetricsEnabled(BuildConfig(e))
<1>1. ~SwitchedOff(e) => BuildConfig(e).enabled /\ ~BuildConfig(e).useNoOp
    BY DEF SwitchedOff, BuildConfig, resolveBoolFlag, NoOp
<1>2. e.TELEMETRY_TRACES_ENABLED \notin {"false", "0"} => BuildConfig(e).tracesEndpoint # "none"
    BY DEF BuildConfig, switchable, resolveStringValue, defaultEndpoint, otelEndpoints
<1>3. e.TELEMETRY_METRICS_ENABLED \notin {"false", "0"} => BuildConfig(e).metricsEndpoint # "none"
    BY DEF BuildConfig, switchable, resolveStringValue, defaultEndpoint, otelEndpoints
<1> QED
    BY <1>1, <1>2, <1>3 DEF TracesSwitchedOff, MetricsSwitchedOff, IsTracesEnabled, IsMetricsEnabled

\* A signal goes without TLS only if the operator asked for it.
LEMMA ClearIsAsked ==
    ASSUME NEW e \in Environment
    PROVE  /\ tracesInTheClear(BuildConfig(e)) => TracesClearAsked(e)
           /\ metricsInTheClear(BuildConfig(e)) => MetricsClearAsked(e)
<1>1. \A env, flag, endpoint : LET resolved == switchable(resolveStringValue(endpoint,
                                                    defaultEndpoint(env)), flag)
          IN  resolved \in {"http", "HTTP", "badhttp"} => endpoint = resolved
    BY DEF switchable, resolveStringValue, defaultEndpoint, otelEndpoints
<1>2. ASSUME tracesInTheClear(BuildConfig(e))
      PROVE  TracesClearAsked(e)
  <2> DEFINE endpoint == BuildConfig(e).tracesEndpoint
  <2>1. endpoint \in {"http", "HTTP", "badhttp"} => e.OTEL_EXPORTER_OTLP_TRACES_ENDPOINT = endpoint
      BY <1>1 DEF BuildConfig
  <2>2. BuildConfig(e).tracesInsecure =>
            resolveBoolFlag(e.OTEL_EXPORTER_OTLP_INSECURE, hasHTTPPrefix(endpoint))
      BY DEF BuildConfig
  <2>3. parseEndpointURL(endpoint) \/ BuildConfig(e).tracesInsecure
      BY <1>2, Zenon DEF tracesInTheClear
  <2> HIDE DEF endpoint
  <2>4. BuildConfig(e).tracesInsecure =>
            e.OTEL_EXPORTER_OTLP_INSECURE \in {"true", "1"} \/ hasHTTPPrefix(endpoint)
      BY <2>2, InsecureFlag, Zenon
  <2> QED
      BY <2>1, <2>3, <2>4 DEF TracesClearAsked, hasHTTPPrefix, parseEndpointURL
<1>3. ASSUME metricsInTheClear(BuildConfig(e))
      PROVE  MetricsClearAsked(e)
  <2> DEFINE endpoint == BuildConfig(e).metricsEndpoint
  <2>1. endpoint \in {"http", "HTTP", "badhttp"} => e.OTEL_EXPORTER_OTLP_METRICS_ENDPOINT = endpoint
      BY <1>1 DEF BuildConfig
  <2>2. BuildConfig(e).metricsInsecure =>
            resolveBoolFlag(e.OTEL_EXPORTER_OTLP_METRICS_INSECURE, hasHTTPPrefix(endpoint))
      BY DEF BuildConfig
  <2>3. parseEndpointURL(endpoint) \/ BuildConfig(e).metricsInsecure
      BY <1>3, Zenon DEF metricsInTheClear
  <2> HIDE DEF endpoint
  <2>4. BuildConfig(e).metricsInsecure =>
            e.OTEL_EXPORTER_OTLP_METRICS_INSECURE \in {"true", "1"} \/ hasHTTPPrefix(endpoint)
      BY <2>2, InsecureFlag, Zenon
  <2> QED
      BY <2>1, <2>3, <2>4 DEF MetricsClearAsked, hasHTTPPrefix, parseEndpointURL
<1> QED
    BY <1>2, <1>3

\* What the sampler may do is what the rate asked for allows.
LEMMA SamplerAsAsked ==
    ASSUME NEW e \in Environment
    PROVE  /\ FALSE \in buildSampler(BuildConfig(e).sampleRate) =>
                 \/ e.TELEMETRY_SAMPLE_RATE = NaN
                 \/ e.TELEMETRY_SAMPLE_RATE \in Int /\ e.TELEMETRY_SAMPLE_RATE < 100
           /\ TRUE \in buildSampler(BuildConfig(e).sampleRate) /\ e.TELEMETRY_SAMPLE_RATE \in Int =>
                 e.TELEMETRY_SAMPLE_RATE > 0
<1>1. PICK asked \in Int \cup {NaN, Unset, Unparsable} : asked = e.TELEMETRY_SAMPLE_RATE
    BY DEF Environment, Rates
<1>2. PICK rate : rate = resolveSampleRate(asked)
    OBVIOUS
<1>3. BuildConfig(e).sampleRate = rate
    BY <1>1, <1>2 DEF BuildConfig
<1>4. rate \in Int =>
          /\ FALSE \in buildSampler(rate) => rate < 100
          /\ TRUE \in buildSampler(rate) => rate > 0
    BY RateAssumption DEF buildSampler
<1>5. CASE asked \in {Unset, Unparsable}
  <2>1. rate = 100 /\ asked \notin Int
      BY <1>2, <1>5, RateAssumption DEF resolveSampleRate
  <2>2. rate \in Int /\ ~(rate < 100)
      BY <2>1
  <2> QED
      BY <1>1, <1>3, <1>4, <2>1, <2>2, Zenon
<1>6. CASE asked = NaN
    BY <1>1, <1>6, RateAssumption
<1>7. CASE asked \in Int
  <2>1. rate = IF asked < 0 THEN 0 ELSE IF 100 < asked THEN 100 ELSE asked
      BY <1>2, <1>7, RateAssumption DEF resolveSampleRate, clampSampleRate, Less
  <2>2. rate \in Int /\ (rate < 100 => asked < 100) /\ (rate > 0 => asked > 0)
      BY <1>7, <2>1
  <2> QED
      BY <1>1, <1>3, <1>4, <1>7, <2>2, Zenon
<1> QED
    BY <1>5, <1>6, <1>7
-----------------------------------------------------------------------------
(* The inductive invariant: the start, and the two kinds of steps *)

\* No backend has been created and no request received.
LEMMA TelemetryInitInv == TelemetryInit => TelemetryInv
<1> SUFFICES ASSUME TelemetryInit PROVE TelemetryInv
    OBVIOUS
<1>1. environment \in Environment /\ Config \in ResolvedConfig
    BY TelemetryAssumption, BuildConfigType DEF TelemetryInit, Config
<1>2. NewBackend \in Backend /\ NewRequest \in Request
    BY DEF NewBackend, Backend, Provider, NewRequest, Request, Counters, Span, Results
<1>3. TelemetryTypeOK
    BY <1>1, <1>2 DEF TelemetryInit, TelemetryTypeOK
<1>4. \A b \in Backends : ProvidersInPhase(backend[b], Config)
    BY DEF TelemetryInit, ProvidersInPhase, NewBackend
<1>5. TracersResolve
    BY TelemetryAssumption DEF TelemetryInit, TracersResolve, NewBackend
<1>6. ASSUME NEW r \in Requests
      PROVE  /\ SpansInPhase(requests[r]) /\ RecordsInPhase(requests[r])
             /\ RequestObserved(requests[r])
  <2>1. requests[r] = NewRequest
      BY DEF TelemetryInit
  <2>2. SpansInPhase(NewRequest)
      BY DEF SpansInPhase, NewRequest, InFlight
  <2>3. RecordsInPhase(NewRequest)
      BY DEF RecordsInPhase, NewRequest
  <2>4. RequestObserved(NewRequest)
      BY DEF RequestObserved, NewRequest, InFlight
  <2> QED
      BY <2>1, <2>2, <2>3, <2>4
<1>7. FiguresNest /\ TracesWhole
    BY DEF TelemetryInit, FiguresNest, TracesWhole, NewRequest
<1> QED
    BY <1>3, <1>4, <1>5, <1>6, <1>7 DEF TelemetryInv

\* Factory has returned, and with it the tracer is settled.
Late == {"up", "cleaning", "cleaned"}

\* A sink that does not run any more never runs again while its backend is up: no
\* provider comes back, and the tracer of a backend that is up is settled.
LEMMA SinkStaysDown ==
    ASSUME TelemetryInv, NEW b \in Backends, NEW c \in Backend,
           backend' = [backend EXCEPT ![b] = c],
           first # Nobody => first' = first,
           backend[b].pc \in Late => c.pc \in Late /\ c.tracer = backend[b].tracer,
           backend[b].traces # "none" => c.traces \in {backend[b].traces, "shutdown"},
           NEW p \in Backends, backend[p].pc \in Late, ~SinkRuns(p)
    PROVE  ~SinkRuns(p)'
<1>1. /\ backend \in [Backends -> Backend] /\ TracersResolve
      /\ first \in Backends \cup {Nobody} /\ backend[p] \in Backend
    BY DEF TelemetryInv, TelemetryTypeOK
<1>2. backend'[p].tracer = backend[p].tracer
    BY <1>1
<1>3. \A s \in Backends : backend[s].traces \notin {"none", "running"} => backend'[s].traces # "running"
    BY <1>1
<1>4. backend[p].tracer # Nobody => first \in Backends /\ first' = first
    BY <1>1 DEF TracersResolve, Late
<1>5. backend[p].tracer \in Backends => backend[backend[p].tracer].traces # "none"
    BY <1>1 DEF TracersResolve
<1>6. first \in Backends => backend[first].traces # "none"
    BY <1>1, TelemetryAssumption DEF TracersResolve
<1>7. backend[p].tracer \in Backends \cup {Nobody, Forwarding}
    BY <1>1 DEF Backend
<1>8. CASE backend[p].tracer = Nobody
    BY <1>2, <1>8, TelemetryAssumption DEF SinkRuns, Sink
<1>9. CASE backend[p].tracer = Forwarding
    BY <1>2, <1>3, <1>4, <1>6, <1>9, TelemetryAssumption DEF SinkRuns, Sink
<1>10. CASE backend[p].tracer \in Backends
    BY <1>2, <1>3, <1>5, <1>10, TelemetryAssumption DEF SinkRuns, Sink
<1> QED
    BY <1>7, <1>8, <1>9, <1>10

\* A step of Factory or cleanup on backend b that leaves it with telemetry c.
LEMMA BackendStepPreservesInv ==
    ASSUME TelemetryInv, NEW b \in Backends, NEW c \in Backend,
           backend' = [backend EXCEPT ![b] = c], UNCHANGED <<environment, requests>>,
           ProvidersInPhase(c, Config),
           first' \in Backends \cup {Nobody}, installed' \in Backends \cup {Nobody},
           TracersResolve',
           first # Nobody => first' = first,
           backend[b].pc \in Late => c.pc \in Late /\ c.tracer = backend[b].tracer,
           backend[b].pc \in Late /\ c.metrics = "running" => backend[b].metrics = "running",
           backend[b].traces # "none" => c.traces \in {backend[b].traces, "shutdown"}
    PROVE  TelemetryInv'
<1>1. backend \in [Backends -> Backend] /\ Config' = Config /\ requests' = requests
    BY DEF TelemetryInv, TelemetryTypeOK, Config
<1>2. TelemetryTypeOK'
    BY <1>1 DEF TelemetryInv, TelemetryTypeOK
<1>3. \A s \in Backends : ProvidersInPhase(backend'[s], Config')
  <2>1. \A s \in Backends : backend'[s] = IF s = b THEN c ELSE backend[s]
      BY <1>1
  <2>2. \A s \in Backends : ProvidersInPhase(backend[s], Config)
      BY DEF TelemetryInv
  <2> QED
      BY <1>1, <2>1, <2>2
<1>4. ASSUME NEW r \in Requests
      PROVE  RequestObserved(requests[r])'
  <2> DEFINE q == requests[r]
  <2>1. SpansInPhase(q) /\ RequestObserved(q) /\ q' = q
      BY <1>1 DEF TelemetryInv
  <2>2. CASE ~InFlight(q)
      BY <1>1, <2>1, <2>2 DEF RequestObserved, InFlight
  <2>3. CASE InFlight(q)
    <3>1. q.b \in Backends /\ backend[q.b].pc \in Late
        BY <2>1, <2>3 DEF SpansInPhase, RequestObserved, Late
    <3>2. backend'[q.b].pc \in Late /\ backend'[q.b].tracer = backend[q.b].tracer
        BY <1>1, <3>1
    <3>3. Metering(q.b)' => Metering(q.b)
        BY <1>1, <3>1 DEF Metering
    <3>4. ~SinkRuns(q.b) => ~SinkRuns(q.b)'
        BY <1>1, <3>1, SinkStaysDown
    <3> HIDE DEF q
    <3> QED
        BY <1>1, <2>1, <3>2, <3>3, <3>4 DEF RequestObserved, InFlight, Late, q
  <2> QED
      BY <2>2, <2>3
<1>5. \A r \in Requests : SpansInPhase(requests'[r]) /\ RecordsInPhase(requests'[r])
    BY <1>1 DEF TelemetryInv
<1>6. FiguresNest' /\ TracesWhole'
    BY <1>1 DEF TelemetryInv, FiguresNest, TracesWhole
<1> QED
    BY <1>2, <1>3, <1>4, <1>5, <1>6 DEF TelemetryInv

\* A step of request r that leaves it as q.
LEMMA RequestStepPreservesInv ==
    ASSUME TelemetryInv, NEW r \in Requests, NEW q \in Request, Step(r, q),
           SpansInPhase(q), RecordsInPhase(q), RequestObserved(q),
           q.counted \cap {"sdkCall", "error"} # {} => "generate" \in q.counted,
           q.pc = "done" /\ q.span = "kept" /\ q.asked => q.sdk = "kept",
           q.pc = "done" => "open" \notin {q.span, q.sdk}
    PROVE  TelemetryInv'
<1>1. /\ requests \in [Requests -> Request] /\ requests' = [requests EXCEPT ![r] = q]
      /\ UNCHANGED <<environment, backend, first, installed>> /\ Config' = Config
    BY DEF TelemetryInv, TelemetryTypeOK, Step, Config
<1>2. TelemetryTypeOK'
    BY <1>1 DEF TelemetryInv, TelemetryTypeOK
<1>3. (\A b \in Backends : ProvidersInPhase(backend[b], Config))' /\ TracersResolve'
    BY <1>1 DEF TelemetryInv, TracersResolve
<1>4. ASSUME NEW x \in Requests
      PROVE  /\ SpansInPhase(requests'[x]) /\ RecordsInPhase(requests'[x])
             /\ RequestObserved(requests[x])'
  <2>1. requests'[x] = IF x = r THEN q ELSE requests[x]
      BY <1>1
  <2>2. RequestObserved(requests[x])' <=> RequestObserved(requests'[x])
      BY <1>1 DEF RequestObserved, Metering, SinkRuns, Sink, InFlight
  <2>3. SpansInPhase(requests[x]) /\ RecordsInPhase(requests[x]) /\ RequestObserved(requests[x])
      BY DEF TelemetryInv
  <2> QED
      BY <2>1, <2>2, <2>3
<1>5. FiguresNest'
    BY <1>1 DEF TelemetryInv, FiguresNest
<1>6. TracesWhole'
    BY <1>1 DEF TelemetryInv, TracesWhole
<1> QED
    BY <1>2, <1>3, <1>4, <1>5, <1>6 DEF TelemetryInv
-----------------------------------------------------------------------------
(* Factory and cleanup preserve the invariant *)

\* A step that leaves first and installed alone and does not touch a tracer, except to
\* drop it, keeps the tracers resolved.
LEMMA TracersStayResolved ==
    ASSUME TelemetryInv, NEW b \in Backends, NEW c \in Backend,
           backend' = [backend EXCEPT ![b] = c], UNCHANGED <<first, installed>>,
           backend[b].pc # "tracer", backend[b].pc # "new" => c.pc # "new",
           c.pc # "tracer", c.tracer \in {Nobody, backend[b].tracer},
           backend[b].traces # "none" => c.traces # "none"
    PROVE  TracersResolve'
<1>1. /\ backend \in [Backends -> Backend] /\ TracersResolve
      /\ first \in Backends \cup {Nobody} /\ installed \in Backends \cup {Nobody}
    BY DEF TelemetryInv, TelemetryTypeOK
<1>2. \A s \in Backends : /\ backend'[s] = IF s = b THEN c ELSE backend[s]
                          /\ backend'[s].tracer \in {Nobody, backend[s].tracer}
                          /\ backend[s].traces # "none" => backend'[s].traces # "none"
    BY <1>1
<1>3. ASSUME NEW s \in {first, installed} \ {Nobody}
      PROVE  backend'[s].pc \notin {"new", "tracer"} /\ backend'[s].traces # "none"
    BY <1>1, <1>2 DEF TracersResolve
<1>4. ASSUME NEW s \in Backends
      PROVE  /\ first \in {Nobody, s} => backend'[s].tracer \in {Nobody, Forwarding}
             /\ backend'[s].tracer \in Backends => backend'[backend'[s].tracer].traces # "none"
             /\ backend'[s].tracer # Nobody /\ backend'[s].pc # "tracer" => first # Nobody
    BY <1>1, <1>2, TelemetryAssumption DEF TracersResolve
<1> QED
    BY <1>1, <1>3, <1>4 DEF TracersResolve

\* A backend without telemetry has no provider that a shutdown could miss.
LEMMA InitDisabledPreservesInv ==
    ASSUME TelemetryInv, NEW b \in Backends, InitDisabled(b)
    PROVE  TelemetryInv'
<1>1. /\ backend \in [Backends -> Backend] /\ backend[b] \in Backend
      /\ ProvidersInPhase(backend[b], Config)
      /\ first \in Backends \cup {Nobody} /\ installed \in Backends \cup {Nobody}
    BY DEF TelemetryInv, TelemetryTypeOK
<1> DEFINE c == [backend[b] EXCEPT !.pc = "up", !.shutdown = TRUE]
<1>2. /\ backend' = [backend EXCEPT ![b] = c]
      /\ UNCHANGED <<environment, requests, first, installed>>
    BY <1>1 DEF InitDisabled
<1>3. /\ c \in Backend
      /\ c.pc = "up"
      /\ c.tracer = backend[b].tracer
      /\ c.traces = backend[b].traces
      /\ c.metrics = backend[b].metrics
      /\ c.shutdown = TRUE
    BY <1>1 DEF Backend, Provider
<1> HIDE DEF c
<1>4. ProvidersInPhase(c, Config)
    BY <1>1, <1>3, TelemetryAssumption DEF InitDisabled, ProvidersInPhase, NewBackend, IsTracesEnabled, IsMetricsEnabled
<1>5. TracersResolve'
    BY <1>1, <1>2, <1>3, TracersStayResolved DEF InitDisabled, ProvidersInPhase, NewBackend
<1>6. /\ backend[b].pc \in Late => c.pc \in Late /\ c.tracer = backend[b].tracer
      /\ backend[b].pc \in Late /\ c.metrics = "running" => backend[b].metrics = "running"
      /\ backend[b].traces # "none" => c.traces \in {backend[b].traces, "shutdown"}
    BY <1>1, <1>3 DEF InitDisabled, Late
<1> QED
    BY <1>1, <1>2, <1>3, <1>4, <1>5, <1>6, BackendStepPreservesInv

\* A backend whose first exporter failed has no provider at all.
LEMMA SetupTracerFailsPreservesInv ==
    ASSUME TelemetryInv, NEW b \in Backends, SetupTracerFails(b)
    PROVE  TelemetryInv'
<1>1. /\ backend \in [Backends -> Backend] /\ backend[b] \in Backend
      /\ ProvidersInPhase(backend[b], Config)
      /\ first \in Backends \cup {Nobody} /\ installed \in Backends \cup {Nobody}
    BY DEF TelemetryInv, TelemetryTypeOK
<1> DEFINE c == [backend[b] EXCEPT !.pc = "up"]
<1>2. /\ backend' = [backend EXCEPT ![b] = c]
      /\ UNCHANGED <<environment, requests, first, installed>>
    BY <1>1 DEF SetupTracerFails
<1>3. /\ c \in Backend
      /\ c.pc = "up"
      /\ c.tracer = backend[b].tracer
      /\ c.traces = backend[b].traces
      /\ c.metrics = backend[b].metrics
      /\ c.shutdown = backend[b].shutdown
    BY <1>1 DEF Backend, Provider
<1> HIDE DEF c
<1>4. ProvidersInPhase(c, Config)
    BY <1>1, <1>3, TelemetryAssumption DEF SetupTracerFails, ProvidersInPhase, NewBackend
<1>5. TracersResolve'
    BY <1>1, <1>2, <1>3, TracersStayResolved DEF SetupTracerFails, ProvidersInPhase, NewBackend
<1>6. /\ backend[b].pc \in Late => c.pc \in Late /\ c.tracer = backend[b].tracer
      /\ backend[b].pc \in Late /\ c.metrics = "running" => backend[b].metrics = "running"
      /\ backend[b].traces # "none" => c.traces \in {backend[b].traces, "shutdown"}
    BY <1>1, <1>3 DEF SetupTracerFails, Late
<1> QED
    BY <1>1, <1>2, <1>3, <1>4, <1>5, <1>6, BackendStepPreservesInv

\* Without traces there is no tracer to resolve.
LEMMA SkipTracerPreservesInv ==
    ASSUME TelemetryInv, NEW b \in Backends, SkipTracer(b)
    PROVE  TelemetryInv'
<1>1. /\ backend \in [Backends -> Backend] /\ backend[b] \in Backend
      /\ ProvidersInPhase(backend[b], Config)
      /\ first \in Backends \cup {Nobody} /\ installed \in Backends \cup {Nobody}
    BY DEF TelemetryInv, TelemetryTypeOK
<1> DEFINE c == [backend[b] EXCEPT !.pc = "metrics"]
<1>2. /\ backend' = [backend EXCEPT ![b] = c]
      /\ UNCHANGED <<environment, requests, first, installed>>
    BY <1>1 DEF SkipTracer
<1>3. /\ c \in Backend
      /\ c.pc = "metrics"
      /\ c.tracer = backend[b].tracer
      /\ c.traces = backend[b].traces
      /\ c.metrics = backend[b].metrics
      /\ c.shutdown = backend[b].shutdown
    BY <1>1 DEF Backend, Provider
<1> HIDE DEF c
<1>4. ProvidersInPhase(c, Config)
    BY <1>1, <1>3, TelemetryAssumption DEF SkipTracer, ProvidersInPhase, NewBackend
<1>5. TracersResolve'
    BY <1>1, <1>2, <1>3, TracersStayResolved DEF SkipTracer, ProvidersInPhase, NewBackend
<1>6. /\ backend[b].pc \in Late => c.pc \in Late /\ c.tracer = backend[b].tracer
      /\ backend[b].pc \in Late /\ c.metrics = "running" => backend[b].metrics = "running"
      /\ backend[b].traces # "none" => c.traces \in {backend[b].traces, "shutdown"}
    BY <1>1, <1>3 DEF SkipTracer, Late
<1> QED
    BY <1>1, <1>2, <1>3, <1>4, <1>5, <1>6, BackendStepPreservesInv

\* A backend comes up with what its configuration enables running.
LEMMA SetupMetricsPreservesInv ==
    ASSUME TelemetryInv, NEW b \in Backends, SetupMetrics(b)
    PROVE  TelemetryInv'
<1>1. /\ backend \in [Backends -> Backend] /\ backend[b] \in Backend
      /\ ProvidersInPhase(backend[b], Config)
      /\ first \in Backends \cup {Nobody} /\ installed \in Backends \cup {Nobody}
    BY DEF TelemetryInv, TelemetryTypeOK
<1> DEFINE c == [backend[b] EXCEPT !.pc = "up", !.metrics = "running", !.shutdown = TRUE]
<1>2. /\ backend' = [backend EXCEPT ![b] = c]
      /\ UNCHANGED <<environment, requests, first, installed>>
    BY <1>1 DEF SetupMetrics
<1>3. /\ c \in Backend
      /\ c.pc = "up"
      /\ c.tracer = backend[b].tracer
      /\ c.traces = backend[b].traces
      /\ c.metrics = "running"
      /\ c.shutdown = TRUE
    BY <1>1 DEF Backend, Provider
<1> HIDE DEF c
<1>4. ProvidersInPhase(c, Config)
    BY <1>1, <1>3, TelemetryAssumption DEF SetupMetrics, ProvidersInPhase, NewBackend
<1>5. TracersResolve'
    BY <1>1, <1>2, <1>3, TracersStayResolved DEF SetupMetrics, ProvidersInPhase, NewBackend
<1>6. /\ backend[b].pc \in Late => c.pc \in Late /\ c.tracer = backend[b].tracer
      /\ backend[b].pc \in Late /\ c.metrics = "running" => backend[b].metrics = "running"
      /\ backend[b].traces # "none" => c.traces \in {backend[b].traces, "shutdown"}
    BY <1>1, <1>3 DEF SetupMetrics, Late
<1> QED
    BY <1>1, <1>2, <1>3, <1>4, <1>5, <1>6, BackendStepPreservesInv

\* The tracer provider goes down with the metrics, and its backend forgets its tracer.
LEMMA SetupMetricsFailsPreservesInv ==
    ASSUME TelemetryInv, NEW b \in Backends, SetupMetricsFails(b)
    PROVE  TelemetryInv'
<1>1. /\ backend \in [Backends -> Backend] /\ backend[b] \in Backend
      /\ ProvidersInPhase(backend[b], Config)
      /\ first \in Backends \cup {Nobody} /\ installed \in Backends \cup {Nobody}
    BY DEF TelemetryInv, TelemetryTypeOK
<1>0. PICK metrics \in LeftOfMetrics :
          backend' = [backend EXCEPT ![b].pc = "up", ![b].tracer = Nobody,
                            ![b].traces = IF @ = "running" THEN "shutdown" ELSE @,
                            ![b].metrics = metrics]
    BY DEF SetupMetricsFails
<1> DEFINE c == [backend[b] EXCEPT !.pc = "up", !.tracer = Nobody,
                    !.traces = IF @ = "running" THEN "shutdown" ELSE @,
                    !.metrics = metrics]
<1>2. /\ backend' = [backend EXCEPT ![b] = c]
      /\ UNCHANGED <<environment, requests, first, installed>>
    BY <1>0, <1>1 DEF SetupMetricsFails
<1>3. /\ c \in Backend
      /\ c.pc = "up"
      /\ c.tracer = Nobody
      /\ c.traces = IF backend[b].traces = "running" THEN "shutdown" ELSE backend[b].traces
      /\ c.metrics \in {"none", "dropped"}
      /\ c.shutdown = backend[b].shutdown
    BY <1>1 DEF Backend, Provider, LeftOfMetrics
<1> HIDE DEF c
<1>4. ProvidersInPhase(c, Config)
    BY <1>1, <1>3, TelemetryAssumption DEF SetupMetricsFails, ProvidersInPhase, NewBackend
<1>5. TracersResolve'
    BY <1>1, <1>2, <1>3, TracersStayResolved DEF SetupMetricsFails, ProvidersInPhase, NewBackend
<1>6. /\ backend[b].pc \in Late => c.pc \in Late /\ c.tracer = backend[b].tracer
      /\ backend[b].pc \in Late /\ c.metrics = "running" => backend[b].metrics = "running"
      /\ backend[b].traces # "none" => c.traces \in {backend[b].traces, "shutdown"}
    BY <1>1, <1>3 DEF SetupMetricsFails, Late
<1> QED
    BY <1>1, <1>2, <1>3, <1>4, <1>5, <1>6, BackendStepPreservesInv

\* Without metrics a backend comes up with its traces as they are.
LEMMA SkipMetricsPreservesInv ==
    ASSUME TelemetryInv, NEW b \in Backends, SkipMetrics(b)
    PROVE  TelemetryInv'
<1>1. /\ backend \in [Backends -> Backend] /\ backend[b] \in Backend
      /\ ProvidersInPhase(backend[b], Config)
      /\ first \in Backends \cup {Nobody} /\ installed \in Backends \cup {Nobody}
    BY DEF TelemetryInv, TelemetryTypeOK
<1> DEFINE c == [backend[b] EXCEPT !.pc = "up", !.shutdown = TRUE]
<1>2. /\ backend' = [backend EXCEPT ![b] = c]
      /\ UNCHANGED <<environment, requests, first, installed>>
    BY <1>1 DEF SkipMetrics
<1>3. /\ c \in Backend
      /\ c.pc = "up"
      /\ c.tracer = backend[b].tracer
      /\ c.traces = backend[b].traces
      /\ c.metrics = backend[b].metrics
      /\ c.shutdown = TRUE
    BY <1>1 DEF Backend, Provider
<1> HIDE DEF c
<1>4. ProvidersInPhase(c, Config)
    BY <1>1, <1>3, TelemetryAssumption DEF SkipMetrics, ProvidersInPhase, NewBackend
<1>5. TracersResolve'
    BY <1>1, <1>2, <1>3, TracersStayResolved DEF SkipMetrics, ProvidersInPhase, NewBackend
<1>6. /\ backend[b].pc \in Late => c.pc \in Late /\ c.tracer = backend[b].tracer
      /\ backend[b].pc \in Late /\ c.metrics = "running" => backend[b].metrics = "running"
      /\ backend[b].traces # "none" => c.traces \in {backend[b].traces, "shutdown"}
    BY <1>1, <1>3 DEF SkipMetrics, Late
<1> QED
    BY <1>1, <1>2, <1>3, <1>4, <1>5, <1>6, BackendStepPreservesInv

\* No provider comes back, so no span that was lost could have been kept.
LEMMA ShutdownTracesPreservesInv ==
    ASSUME TelemetryInv, NEW b \in Backends, ShutdownTraces(b)
    PROVE  TelemetryInv'
<1>1. /\ backend \in [Backends -> Backend] /\ backend[b] \in Backend
      /\ ProvidersInPhase(backend[b], Config)
      /\ first \in Backends \cup {Nobody} /\ installed \in Backends \cup {Nobody}
    BY DEF TelemetryInv, TelemetryTypeOK
<1> DEFINE c == [backend[b] EXCEPT !.pc = "cleaning", !.traces = IF backend[b].shutdown /\ @ = "running" THEN "shutdown" ELSE @]
<1>2. /\ backend' = [backend EXCEPT ![b] = c]
      /\ UNCHANGED <<environment, requests, first, installed>>
    BY <1>1 DEF ShutdownTraces
<1>3. /\ c \in Backend
      /\ c.pc = "cleaning"
      /\ c.tracer = backend[b].tracer
      /\ c.traces = IF backend[b].shutdown /\ backend[b].traces = "running" THEN "shutdown" ELSE backend[b].traces
      /\ c.metrics = backend[b].metrics
      /\ c.shutdown = backend[b].shutdown
    BY <1>1 DEF Backend, Provider
<1> HIDE DEF c
<1>4. ProvidersInPhase(c, Config)
    BY <1>1, <1>3, TelemetryAssumption DEF ShutdownTraces, ProvidersInPhase, NewBackend
<1>5. TracersResolve'
    BY <1>1, <1>2, <1>3, TracersStayResolved DEF ShutdownTraces, ProvidersInPhase, NewBackend
<1>6. /\ backend[b].pc \in Late => c.pc \in Late /\ c.tracer = backend[b].tracer
      /\ backend[b].pc \in Late /\ c.metrics = "running" => backend[b].metrics = "running"
      /\ backend[b].traces # "none" => c.traces \in {backend[b].traces, "shutdown"}
    BY <1>1, <1>3 DEF ShutdownTraces, Late
<1> QED
    BY <1>1, <1>2, <1>3, <1>4, <1>5, <1>6, BackendStepPreservesInv

\* After its meter provider is down a backend counts nothing more.
LEMMA ShutdownMetricsPreservesInv ==
    ASSUME TelemetryInv, NEW b \in Backends, ShutdownMetrics(b)
    PROVE  TelemetryInv'
<1>1. /\ backend \in [Backends -> Backend] /\ backend[b] \in Backend
      /\ ProvidersInPhase(backend[b], Config)
      /\ first \in Backends \cup {Nobody} /\ installed \in Backends \cup {Nobody}
    BY DEF TelemetryInv, TelemetryTypeOK
<1> DEFINE c == [backend[b] EXCEPT !.pc = "cleaned", !.metrics = IF backend[b].shutdown /\ @ = "running" THEN "shutdown" ELSE @]
<1>2. /\ backend' = [backend EXCEPT ![b] = c]
      /\ UNCHANGED <<environment, requests, first, installed>>
    BY <1>1 DEF ShutdownMetrics
<1>3. /\ c \in Backend
      /\ c.pc = "cleaned"
      /\ c.tracer = backend[b].tracer
      /\ c.traces = backend[b].traces
      /\ c.metrics = IF backend[b].shutdown /\ backend[b].metrics = "running" THEN "shutdown" ELSE backend[b].metrics
      /\ c.shutdown = backend[b].shutdown
    BY <1>1 DEF Backend, Provider
<1> HIDE DEF c
<1>4. ProvidersInPhase(c, Config)
    BY <1>1, <1>3, TelemetryAssumption DEF ShutdownMetrics, ProvidersInPhase, NewBackend
<1>5. TracersResolve'
    BY <1>1, <1>2, <1>3, TracersStayResolved DEF ShutdownMetrics, ProvidersInPhase, NewBackend
<1>6. /\ backend[b].pc \in Late => c.pc \in Late /\ c.tracer = backend[b].tracer
      /\ backend[b].pc \in Late /\ c.metrics = "running" => backend[b].metrics = "running"
      /\ backend[b].traces # "none" => c.traces \in {backend[b].traces, "shutdown"}
    BY <1>1, <1>3 DEF ShutdownMetrics, Late
<1> QED
    BY <1>1, <1>2, <1>3, <1>4, <1>5, <1>6, BackendStepPreservesInv

\* The tracer asked for forwards if nothing is installed, and is an installed
\* provider's otherwise.
LEMMA SetupTracerPreservesInv ==
    ASSUME TelemetryInv, NEW b \in Backends, SetupTracer(b)
    PROVE  TelemetryInv'
<1>1. /\ backend \in [Backends -> Backend] /\ backend[b] \in Backend
      /\ ProvidersInPhase(backend[b], Config) /\ TracersResolve
      /\ first \in Backends \cup {Nobody} /\ installed \in Backends \cup {Nobody}
    BY DEF TelemetryInv, TelemetryTypeOK
<1> DEFINE c == [backend[b] EXCEPT !.pc = "tracer", !.traces = "running",
                    !.tracer = IF installed = Nobody THEN Forwarding ELSE installed]
<1>2. /\ backend' = [backend EXCEPT ![b] = c]
      /\ UNCHANGED <<environment, requests, first, installed>>
    BY <1>1 DEF SetupTracer, newTracesProvider
<1>3. /\ c \in Backend
      /\ c.pc = "tracer" /\ c.traces = "running"
      /\ c.tracer = IF installed = Nobody THEN Forwarding ELSE installed
      /\ c.metrics = backend[b].metrics /\ c.shutdown = backend[b].shutdown
    BY <1>1 DEF Backend, Provider
<1> HIDE DEF c
<1>4. backend[b].pc = "new" /\ backend[b] = NewBackend /\ IsTracesEnabled(Config)
    BY <1>1 DEF SetupTracer, ProvidersInPhase
<1>5. ProvidersInPhase(c, Config)
    BY <1>1, <1>3, <1>4, TelemetryAssumption DEF ProvidersInPhase, NewBackend
<1>6. first # b /\ installed # b
    BY <1>1, <1>4, TelemetryAssumption DEF TracersResolve
<1>7. \A s \in Backends : backend'[s] = IF s = b THEN c ELSE backend[s]
    BY <1>1, <1>2
<1>8. ASSUME NEW s \in Backends
      PROVE  /\ first \in {Nobody, s} => backend'[s].tracer \in {Nobody, Forwarding}
             /\ backend'[s].tracer \in Backends => backend'[backend'[s].tracer].traces # "none"
             /\ backend'[s].tracer # Nobody /\ backend'[s].pc # "tracer" => first # Nobody
  <2>1. CASE s = b
      BY <1>1, <1>3, <1>6, <1>7, <2>1, TelemetryAssumption DEF TracersResolve
  <2>2. CASE s # b
      BY <1>1, <1>3, <1>7, <2>2 DEF TracersResolve
  <2> QED
      BY <2>1, <2>2
<1>9. TracersResolve'
    BY <1>1, <1>2, <1>6, <1>7, <1>8 DEF TracersResolve
<1>10. /\ backend[b].pc \notin Late
       /\ backend[b].traces # "none" => c.traces \in {backend[b].traces, "shutdown"}
    BY <1>4 DEF Late, NewBackend
<1> QED
    BY <1>1, <1>2, <1>3, <1>5, <1>9, <1>10, BackendStepPreservesInv

\* Whoever forwards does so to the provider installed first, and that never changes.
LEMMA InstallTracerPreservesInv ==
    ASSUME TelemetryInv, NEW b \in Backends, InstallTracer(b)
    PROVE  TelemetryInv'
<1>1. /\ backend \in [Backends -> Backend] /\ backend[b] \in Backend
      /\ ProvidersInPhase(backend[b], Config) /\ TracersResolve
      /\ first \in Backends \cup {Nobody} /\ installed \in Backends \cup {Nobody}
    BY DEF TelemetryInv, TelemetryTypeOK
<1> DEFINE c == [backend[b] EXCEPT !.pc = "metrics"]
<1>2. /\ backend' = [backend EXCEPT ![b] = c]
      /\ UNCHANGED <<environment, requests>>
      /\ installed' = b /\ first' = IF first = Nobody THEN b ELSE first
    BY <1>1 DEF InstallTracer
<1>3. /\ c \in Backend /\ c.pc = "metrics"
      /\ c.tracer = backend[b].tracer /\ c.traces = backend[b].traces
      /\ c.metrics = backend[b].metrics /\ c.shutdown = backend[b].shutdown
    BY <1>1 DEF Backend
<1> HIDE DEF c
<1>4. backend[b].pc = "tracer" /\ backend[b].traces = "running"
    BY <1>1 DEF InstallTracer, ProvidersInPhase
<1>5. ProvidersInPhase(c, Config)
    BY <1>1, <1>3, <1>4 DEF ProvidersInPhase
<1>6. \A s \in Backends : /\ backend'[s].tracer = backend[s].tracer
                          /\ backend'[s].traces = backend[s].traces
                          /\ s # b => backend'[s].pc = backend[s].pc
                          /\ s = b => backend'[s].pc = "metrics"
    BY <1>1, <1>2, <1>3
<1>7. first' # Nobody /\ installed' # Nobody /\ first' \in Backends
    BY <1>1, <1>2, TelemetryAssumption
<1>8. \A s \in {first', installed'} : backend'[s].pc \notin {"new", "tracer"}
                                      /\ backend'[s].traces # "none"
    BY <1>1, <1>2, <1>4, <1>6 DEF TracersResolve
<1>9. ASSUME NEW s \in Backends
      PROVE  /\ first' \in {Nobody, s} => backend'[s].tracer \in {Nobody, Forwarding}
             /\ backend'[s].tracer \in Backends => backend'[backend'[s].tracer].traces # "none"
  <2>1. first' \in {Nobody, s} => first \in {Nobody, s}
      BY <1>1, <1>2, <1>7
  <2> QED
      BY <1>1, <1>6, <2>1 DEF TracersResolve
<1>10. TracersResolve'
    BY <1>7, <1>8, <1>9 DEF TracersResolve
<1>11. /\ backend[b].pc \notin Late
       /\ first # Nobody => first' = first
       /\ backend[b].traces # "none" => c.traces \in {backend[b].traces, "shutdown"}
    BY <1>2, <1>3, <1>4 DEF Late
<1>12. first' \in Backends \cup {Nobody} /\ installed' \in Backends \cup {Nobody}
    BY <1>1, <1>2
<1> QED
    BY <1>1, <1>2, <1>3, <1>5, <1>10, <1>11, <1>12, BackendStepPreservesInv

\* A process that dies takes its providers along; what its requests have left behind
\* is kept.
LEMMA ProcessExitsPreservesInv ==
    ASSUME TelemetryInv, ProcessExits
    PROVE  TelemetryInv'
<1>1. /\ requests \in [Requests -> Request] /\ Config' = Config
      /\ backend' = [b \in Backends |-> NewBackend] /\ first' = Nobody /\ installed' = Nobody
      /\ environment' = environment
    BY DEF TelemetryInv, TelemetryTypeOK, ProcessExits, Config
<1>2. NewBackend \in Backend
    BY DEF NewBackend, Backend, Provider
<1>3. (\A b \in Backends : ProvidersInPhase(backend[b], Config))'
    BY <1>1 DEF ProvidersInPhase, NewBackend
<1>4. TracersResolve'
    BY <1>1, TelemetryAssumption DEF TracersResolve, NewBackend
<1>5. ASSUME NEW r \in Requests
      PROVE  /\ requests'[r] \in Request
             /\ SpansInPhase(requests'[r]) /\ RecordsInPhase(requests'[r])
             /\ RequestObserved(requests[r])'
             /\ requests'[r].counted \cap {"sdkCall", "error"} # {} =>
                   "generate" \in requests'[r].counted
             /\ requests'[r].pc = "done" =>
                   /\ "open" \notin {requests'[r].span, requests'[r].sdk}
                   /\ requests'[r].span = "kept" /\ requests'[r].asked =>
                         requests'[r].sdk = "kept"
  <2> DEFINE q == requests[r]
             p == requests'[r]
  <2>1. /\ q \in Request /\ SpansInPhase(q) /\ RecordsInPhase(q) /\ RequestObserved(q)
        /\ q.counted \cap {"sdkCall", "error"} # {} => "generate" \in q.counted
        /\ q.pc = "done" => /\ "open" \notin {q.span, q.sdk}
                            /\ q.span = "kept" /\ q.asked => q.sdk = "kept"
      BY <1>1 DEF TelemetryInv, FiguresNest, TracesWhole
  <2>2. CASE ~InFlight(q)
    <3>1. p = q
        BY <2>2 DEF ProcessExits
    <3> QED
        BY <1>1, <2>1, <2>2, <3>1 DEF RequestObserved, InFlight
  <2>3. CASE InFlight(q)
    <3>1. p = [q EXCEPT !.pc = "done", !.answer = "failed",
                  !.span = IF @ = "open" THEN "gone" ELSE @,
                  !.sdk = IF @ = "open" THEN "gone" ELSE @]
        BY <2>3 DEF ProcessExits
    <3> HIDE DEF p, q
    <3>2. /\ p.pc = "done" /\ p.answer = "failed"
          /\ p.span = IF q.span = "open" THEN "gone" ELSE q.span
          /\ p.sdk = IF q.sdk = "open" THEN "gone" ELSE q.sdk
          /\ p.b = q.b /\ p.kind = q.kind /\ p.result = q.result /\ p.status = q.status
          /\ p.counted = q.counted /\ p.audit = q.audit /\ p.asked = q.asked
        BY <2>1, <3>1 DEF Request, Counters
    <3>3. p \in Request
      <4>1. PICK span \in Span, sdk \in Span :
                p = [q EXCEPT !.pc = "done", !.answer = "failed", !.span = span, !.sdk = sdk]
          BY <2>1, <3>1 DEF Request, Counters, Span
      <4> QED
          BY <2>1, <4>1 DEF Request, Counters, Results
    <3>4. SpansInPhase(p)
        BY <2>1, <2>3, <3>2 DEF SpansInPhase, InFlight
    <3>5. RecordsInPhase(p)
        BY <2>1, <2>3, <3>2 DEF RecordsInPhase, InFlight
    <3>6. /\ p.span # "off" \/ p.sdk # "off" => IsTracesEnabled(Config)
          /\ p.span = "unsampled" => FALSE \in buildSampler(Config.sampleRate)
          /\ p.span \in {"open", "kept", "lost", "gone"} =>
                TRUE \in buildSampler(Config.sampleRate)
          /\ p.counted # {} => IsMetricsEnabled(Config)
        BY <2>1, <3>2 DEF RequestObserved
    <3>7. RequestObserved(requests[r])'
        BY <1>1, <3>2, <3>6 DEF RequestObserved, InFlight, p
    <3>8. /\ p.counted \cap {"sdkCall", "error"} # {} => "generate" \in p.counted
          /\ "open" \notin {p.span, p.sdk} /\ p.span # "kept"
        BY <2>1, <2>3, <3>2 DEF SpansInPhase, InFlight
    <3> QED
        BY <3>2, <3>3, <3>4, <3>5, <3>7, <3>8 DEF p
  <2> QED
      BY <2>2, <2>3
<1>6. requests' \in [Requests -> Request]
    BY <1>5 DEF ProcessExits
<1>7. TelemetryTypeOK'
    BY <1>1, <1>2, <1>6 DEF TelemetryInv, TelemetryTypeOK
<1>8. FiguresNest' /\ TracesWhole'
    BY <1>5 DEF FiguresNest, TracesWhole
<1> QED
    BY <1>3, <1>4, <1>5, <1>7, <1>8 DEF TelemetryInv
-----------------------------------------------------------------------------
(* The handlers preserve the invariant *)

\* What the invariant says of one request.
LEMMA RequestFacts ==
    ASSUME TelemetryInv, NEW r \in Requests
    PROVE  /\ requests[r] \in Request
           /\ SpansInPhase(requests[r]) /\ RecordsInPhase(requests[r])
           /\ RequestObserved(requests[r])
           /\ requests[r].counted \cap {"sdkCall", "error"} # {} =>
                 "generate" \in requests[r].counted
BY DEF TelemetryInv, TelemetryTypeOK, FiguresNest

\* A span that is ended is no longer open; it is kept if the provider behind the
\* tracer of its backend runs, and lost otherwise.
LEMMA EndedFacts ==
    ASSUME NEW span \in Span, NEW b
    PROVE  /\ Ended(span, b) \in Span \ {"open"}
           /\ span # "open" => Ended(span, b) = span
           /\ span = "open" => Ended(span, b) \in {"kept", "lost"}
           /\ span = "open" /\ SinkRuns(b) => Ended(span, b) = "kept"
           /\ span = "open" /\ ~SinkRuns(b) => Ended(span, b) = "lost"
BY DEF Ended, Span

\* The span SDK.Auth starts as the span of the request was started.
LEMMA TokenAsksSkyflowPreservesInv ==
    ASSUME TelemetryInv, NEW r \in Requests, TokenAsksSkyflow(r)
    PROVE  TelemetryInv'
<1> DEFINE o == requests[r]
           q == [o EXCEPT !.pc = "sdk", !.sdk = o.span, !.asked = TRUE]
<1>1. /\ o \in Request /\ SpansInPhase(o) /\ RecordsInPhase(o) /\ RequestObserved(o)
      /\ o.counted \cap {"sdkCall", "error"} # {} => "generate" \in o.counted
    BY RequestFacts
<1>2. Step(r, q)
    BY DEF TokenAsksSkyflow
<1> HIDE DEF o
<1>3. o.pc = "serving" /\ o.kind = "token"
    BY DEF TokenAsksSkyflow, o
<1>4. q \in Request
    BY <1>1 DEF Request, Counters
<1>5. /\ q.pc = "sdk" /\ q.b = o.b /\ q.kind = o.kind /\ q.result = o.result
      /\ q.answer = o.answer /\ q.span = o.span /\ q.sdk = o.span /\ q.status = o.status
      /\ q.counted = o.counted /\ q.audit = o.audit /\ q.asked = TRUE
    BY <1>1 DEF Request, Counters
<1> HIDE DEF q
<1>6. SpansInPhase(q)
    BY <1>1, <1>3, <1>5 DEF SpansInPhase, InFlight
<1>7. RecordsInPhase(q)
    BY <1>1, <1>3, <1>5 DEF RecordsInPhase, SpansInPhase, Status
<1>8. RequestObserved(q)
    BY <1>1, <1>3, <1>5 DEF RequestObserved, SpansInPhase, InFlight, Metering
<1>9. /\ q.counted \cap {"sdkCall", "error"} # {} => "generate" \in q.counted
      /\ q.pc # "done"
    BY <1>1, <1>3, <1>5 DEF RequestObserved
<1> QED
    BY <1>2, <1>4, <1>6, <1>7, <1>8, <1>9, RequestStepPreservesInv

\* A request that ends before Skyflow is asked leaves no figure and no record.
LEMMA TokenFailsEarlyPreservesInv ==
    ASSUME TelemetryInv, NEW r \in Requests, NEW outcome \in Results, TokenFailsEarly(r, outcome)
    PROVE  TelemetryInv'
<1> DEFINE o == requests[r]
           q == [o EXCEPT !.pc = "closing", !.result = outcome, !.status = "error"]
<1>1. /\ o \in Request /\ SpansInPhase(o) /\ RecordsInPhase(o) /\ RequestObserved(o)
      /\ o.counted \cap {"sdkCall", "error"} # {} => "generate" \in o.counted
    BY RequestFacts
<1>2. Step(r, q)
    BY DEF TokenFailsEarly
<1> HIDE DEF o
<1>3. o.pc = "serving" /\ o.kind = "token" /\ outcome \in {"rejected", "failed"}
    BY DEF TokenFailsEarly, o
<1>4. q \in Request
    BY <1>1 DEF Request, Counters, Results
<1>5. /\ q.pc = "closing" /\ q.b = o.b /\ q.kind = o.kind /\ q.result = outcome
      /\ q.answer = o.answer /\ q.span = o.span /\ q.sdk = o.sdk /\ q.status = "error"
      /\ q.counted = o.counted /\ q.audit = o.audit /\ q.asked = o.asked
    BY <1>1 DEF Request, Counters
<1> HIDE DEF q
<1>6. SpansInPhase(q)
    BY <1>1, <1>3, <1>5 DEF SpansInPhase, InFlight
<1>7. RecordsInPhase(q)
    BY <1>1, <1>3, <1>5 DEF RecordsInPhase, SpansInPhase, Status
<1>8. RequestObserved(q)
    BY <1>1, <1>3, <1>5 DEF RequestObserved, SpansInPhase, InFlight, Metering
<1>9. /\ q.counted \cap {"sdkCall", "error"} # {} => "generate" \in q.counted
      /\ q.pc # "done"
    BY <1>1, <1>3, <1>5 DEF RequestObserved
<1> QED
    BY <1>2, <1>4, <1>6, <1>7, <1>8, <1>9, RequestStepPreservesInv

\* The figure that the later ones nest in is counted first.
LEMMA RecordTokenGeneratePreservesInv ==
    ASSUME TelemetryInv, NEW r \in Requests, RecordTokenGenerate(r)
    PROVE  TelemetryInv'
<1> DEFINE o == requests[r]
           q == [o EXCEPT !.pc = "outcome", !.counted = @ \cup Count(o.b, {"generate"})]
<1>1. /\ o \in Request /\ SpansInPhase(o) /\ RecordsInPhase(o) /\ RequestObserved(o)
      /\ o.counted \cap {"sdkCall", "error"} # {} => "generate" \in o.counted
    BY RequestFacts
<1>2. Step(r, q)
    BY DEF RecordTokenGenerate
<1> HIDE DEF o
<1>3. /\ o.pc = "generate"
      /\ Count(o.b, {"generate"}) = IF Metering(o.b) THEN {"generate"} ELSE {}
      /\ Metering(o.b) => IsMetricsEnabled(Config)
  <2>1. o.pc = "generate" /\ o.b \in Backends
      BY <1>1 DEF RecordTokenGenerate, SpansInPhase, InFlight, o
  <2> QED
      BY <2>1 DEF Count, Metering, TelemetryInv, ProvidersInPhase
<1>4. q \in Request
    BY <1>1, <1>3 DEF Request, Counters
<1>5. /\ q.pc = "outcome" /\ q.b = o.b /\ q.kind = o.kind /\ q.result = o.result
      /\ q.answer = o.answer /\ q.span = o.span /\ q.sdk = o.sdk /\ q.status = o.status
      /\ q.counted = o.counted \cup Count(o.b, {"generate"}) /\ q.audit = o.audit
      /\ q.asked = o.asked
    BY <1>1 DEF Request, Counters
<1> HIDE DEF q
<1>6. SpansInPhase(q)
    BY <1>1, <1>3, <1>5 DEF SpansInPhase, InFlight
<1>7. RecordsInPhase(q)
    BY <1>1, <1>3, <1>5 DEF RecordsInPhase, SpansInPhase, Status
<1>8. RequestObserved(q)
    BY <1>1, <1>3, <1>5 DEF RequestObserved, SpansInPhase, InFlight, Metering
<1>9. /\ q.counted \cap {"sdkCall", "error"} # {} => "generate" \in q.counted
      /\ q.pc # "done"
    BY <1>1, <1>3, <1>5 DEF RequestObserved
<1> QED
    BY <1>2, <1>4, <1>6, <1>7, <1>8, <1>9, RequestStepPreservesInv

\* If the meter provider still runs then it did when the request was counted.
LEMMA RecordTokenOutcomePreservesInv ==
    ASSUME TelemetryInv, NEW r \in Requests, RecordTokenError(r) \/ RecordSkyflowSDKCall(r)
    PROVE  TelemetryInv'
<1> DEFINE o == requests[r]
           q == [o EXCEPT !.pc = "audit", !.counted = @ \cup Count(o.b, {IF o.result = "ok" THEN "sdkCall" ELSE "error"})]
<1>1. /\ o \in Request /\ SpansInPhase(o) /\ RecordsInPhase(o) /\ RequestObserved(o)
      /\ o.counted \cap {"sdkCall", "error"} # {} => "generate" \in o.counted
    BY RequestFacts
<1>2. Step(r, q)
    BY DEF RecordTokenError, RecordSkyflowSDKCall
<1> HIDE DEF o
<1>3. /\ o.pc = "outcome"
      /\ Count(o.b, {IF o.result = "ok" THEN "sdkCall" ELSE "error"}) =
            IF Metering(o.b) THEN {IF o.result = "ok" THEN "sdkCall" ELSE "error"} ELSE {}
      /\ Metering(o.b) => IsMetricsEnabled(Config)
  <2>1. o.pc = "outcome" /\ o.b \in Backends
      BY <1>1 DEF RecordTokenError, RecordSkyflowSDKCall, SpansInPhase, InFlight, o
  <2> QED
      BY <2>1 DEF Count, Metering, TelemetryInv, ProvidersInPhase
<1>4. q \in Request
    BY <1>1, <1>3 DEF Request, Counters
<1>5. /\ q.pc = "audit" /\ q.b = o.b /\ q.kind = o.kind /\ q.result = o.result
      /\ q.answer = o.answer /\ q.span = o.span /\ q.sdk = o.sdk /\ q.status = o.status
      /\ q.counted = o.counted \cup Count(o.b, {IF o.result = "ok" THEN "sdkCall" ELSE "error"})
      /\ q.audit = o.audit /\ q.asked = o.asked
    BY <1>1 DEF Request, Counters
<1> HIDE DEF q
<1>6. SpansInPhase(q)
    BY <1>1, <1>3, <1>5 DEF SpansInPhase, InFlight
<1>7. RecordsInPhase(q)
    BY <1>1, <1>3, <1>5 DEF RecordsInPhase, SpansInPhase, Status
<1>8. RequestObserved(q)
    BY <1>1, <1>3, <1>5 DEF RequestObserved, SpansInPhase, InFlight, Metering
<1>9. /\ q.counted \cap {"sdkCall", "error"} # {} => "generate" \in q.counted
      /\ q.pc # "done"
    BY <1>1, <1>3, <1>5 DEF RequestObserved
<1> QED
    BY <1>2, <1>4, <1>6, <1>7, <1>8, <1>9, RequestStepPreservesInv

\* The record says what the handler will answer.
LEMMA auditLogPreservesInv ==
    ASSUME TelemetryInv, NEW r \in Requests, auditLog(r)
    PROVE  TelemetryInv'
<1> DEFINE o == requests[r]
           q == [o EXCEPT !.pc = "closing", !.audit = IF o.result = "ok" THEN "success" ELSE "failure"]
<1>1. /\ o \in Request /\ SpansInPhase(o) /\ RecordsInPhase(o) /\ RequestObserved(o)
      /\ o.counted \cap {"sdkCall", "error"} # {} => "generate" \in o.counted
    BY RequestFacts
<1>2. Step(r, q)
    BY DEF auditLog
<1> HIDE DEF o
<1>3. o.pc = "audit"
    BY DEF auditLog, o
<1>4. q \in Request
    BY <1>1 DEF Request, Counters
<1>5. /\ q.pc = "closing" /\ q.b = o.b /\ q.kind = o.kind /\ q.result = o.result
      /\ q.answer = o.answer /\ q.span = o.span /\ q.sdk = o.sdk /\ q.status = o.status
      /\ q.counted = o.counted /\ q.audit = IF o.result = "ok" THEN "success" ELSE "failure"
      /\ q.asked = o.asked
    BY <1>1 DEF Request, Counters
<1> HIDE DEF q
<1>6. SpansInPhase(q)
    BY <1>1, <1>3, <1>5 DEF SpansInPhase, InFlight
<1>7. RecordsInPhase(q)
    BY <1>1, <1>3, <1>5 DEF RecordsInPhase, SpansInPhase, Status
<1>8. RequestObserved(q)
    BY <1>1, <1>3, <1>5 DEF RequestObserved, SpansInPhase, InFlight, Metering
<1>9. /\ q.counted \cap {"sdkCall", "error"} # {} => "generate" \in q.counted
      /\ q.pc # "done"
    BY <1>1, <1>3, <1>5 DEF RequestObserved
<1> QED
    BY <1>2, <1>4, <1>6, <1>7, <1>8, <1>9, RequestStepPreservesInv

\* SDK.Auth is lost only to a provider that is down, and stays down.
LEMMA TokenSkyflowRepliesPreservesInv ==
    ASSUME TelemetryInv, NEW r \in Requests, NEW outcome \in Results, TokenSkyflowReplies(r, outcome)
    PROVE  TelemetryInv'
<1> DEFINE o == requests[r]
           q == [o EXCEPT !.pc = "generate", !.result = outcome, !.status = Status(outcome), !.sdk = Ended(@, o.b)]
<1>1. /\ o \in Request /\ SpansInPhase(o) /\ RecordsInPhase(o) /\ RequestObserved(o)
      /\ o.counted \cap {"sdkCall", "error"} # {} => "generate" \in o.counted
    BY RequestFacts
<1>2. Step(r, q)
    BY DEF TokenSkyflowReplies
<1> HIDE DEF o
<1>3. /\ o.pc = "sdk" /\ outcome \in {"ok", "rejected"}
      /\ Ended(o.sdk, o.b) \in Span \ {"open"}
      /\ o.sdk # "open" => Ended(o.sdk, o.b) = o.sdk
      /\ o.sdk = "open" => Ended(o.sdk, o.b) = IF SinkRuns(o.b) THEN "kept" ELSE "lost"
  <2>1. o.sdk \in Span
      BY <1>1 DEF Request, Counters
  <2> QED
      BY <2>1, EndedFacts DEF TokenSkyflowReplies, o
<1>4. q \in Request
    BY <1>1, <1>3 DEF Request, Counters, Status
<1>5. /\ q.pc = "generate" /\ q.b = o.b /\ q.kind = o.kind /\ q.result = outcome
      /\ q.answer = o.answer /\ q.span = o.span /\ q.sdk = Ended(o.sdk, o.b)
      /\ q.status = Status(outcome) /\ q.counted = o.counted /\ q.audit = o.audit
      /\ q.asked = o.asked
    BY <1>1 DEF Request, Counters
<1> HIDE DEF q
<1>6. SpansInPhase(q)
    BY <1>1, <1>3, <1>5 DEF SpansInPhase, InFlight
<1>7. RecordsInPhase(q)
    BY <1>1, <1>3, <1>5 DEF RecordsInPhase, SpansInPhase, Status
<1>8. RequestObserved(q)
    BY <1>1, <1>3, <1>5 DEF RequestObserved, SpansInPhase, InFlight, Metering
<1>9. /\ q.counted \cap {"sdkCall", "error"} # {} => "generate" \in q.counted
      /\ q.pc # "done"
    BY <1>1, <1>3, <1>5 DEF RequestObserved
<1> QED
    BY <1>2, <1>4, <1>6, <1>7, <1>8, <1>9, RequestStepPreservesInv

\* The other handlers set one status and move one counter at most.
LEMMA ServePreservesInv ==
    ASSUME TelemetryInv, NEW r \in Requests, NEW outcome \in Results, Serve(r, outcome)
    PROVE  TelemetryInv'
<1> DEFINE o == requests[r]
           q == [o EXCEPT !.pc = "closing", !.result = outcome, !.status = Status(outcome), !.counted = IF CountedAtEnd(o.kind, outcome)
                               THEN @ \cup Count(o.b, {"request"}) ELSE @]
<1>1. /\ o \in Request /\ SpansInPhase(o) /\ RecordsInPhase(o) /\ RequestObserved(o)
      /\ o.counted \cap {"sdkCall", "error"} # {} => "generate" \in o.counted
    BY RequestFacts
<1>2. Step(r, q)
    BY DEF Serve
<1> HIDE DEF o
<1>3. /\ o.pc = "serving" /\ o.kind # "token" /\ outcome \in Results \ {"none"}
      /\ Count(o.b, {"request"}) = IF Metering(o.b) THEN {"request"} ELSE {}
      /\ Metering(o.b) => IsMetricsEnabled(Config)
  <2>1. o.pc = "serving" /\ o.kind # "token" /\ o.b \in Backends /\ outcome # "none"
      BY <1>1 DEF Serve, SpansInPhase, InFlight, Outcomes, o
  <2> QED
      BY <2>1 DEF Count, Metering, TelemetryInv, ProvidersInPhase
<1>4. q \in Request
    BY <1>1, <1>3 DEF Request, Counters, Status
<1>5. /\ q.pc = "closing" /\ q.b = o.b /\ q.kind = o.kind /\ q.result = outcome
      /\ q.answer = o.answer /\ q.span = o.span /\ q.sdk = o.sdk /\ q.status = Status(outcome)
      /\ q.counted = IF CountedAtEnd(o.kind, outcome)
                      THEN o.counted \cup Count(o.b, {"request"}) ELSE o.counted
      /\ q.audit = o.audit /\ q.asked = o.asked
    BY <1>1 DEF Request, Counters
<1> HIDE DEF q
<1>6. SpansInPhase(q)
    BY <1>1, <1>3, <1>5 DEF SpansInPhase, InFlight
<1>7. RecordsInPhase(q)
    BY <1>1, <1>3, <1>5 DEF RecordsInPhase, SpansInPhase, Status
<1>8. RequestObserved(q)
    BY <1>1, <1>3, <1>5 DEF RequestObserved, SpansInPhase, InFlight, Metering
<1>9. /\ q.counted \cap {"sdkCall", "error"} # {} => "generate" \in q.counted
      /\ q.pc # "done"
    BY <1>1, <1>3, <1>5 DEF RequestObserved
<1> QED
    BY <1>2, <1>4, <1>6, <1>7, <1>8, <1>9, RequestStepPreservesInv

\* The span of the request is ended after SDK.Auth, so it is kept only if that was.
LEMMA ReturnPreservesInv ==
    ASSUME TelemetryInv, NEW r \in Requests, Return(r)
    PROVE  TelemetryInv'
<1> DEFINE o == requests[r]
           q == [o EXCEPT !.pc = "done", !.answer = o.result, !.span = Ended(@, o.b)]
<1>1. /\ o \in Request /\ SpansInPhase(o) /\ RecordsInPhase(o) /\ RequestObserved(o)
      /\ o.counted \cap {"sdkCall", "error"} # {} => "generate" \in o.counted
    BY RequestFacts
<1>2. Step(r, q)
    BY DEF Return
<1> HIDE DEF o
<1>3. /\ o.pc = "closing"
      /\ Ended(o.span, o.b) \in Span \ {"open"}
      /\ o.span # "open" => Ended(o.span, o.b) = o.span
      /\ o.span = "open" => Ended(o.span, o.b) = IF SinkRuns(o.b) THEN "kept" ELSE "lost"
  <2>1. o.span \in Span
      BY <1>1 DEF Request, Counters
  <2> QED
      BY <2>1, EndedFacts DEF Return, o
<1>4. q \in Request
    BY <1>1, <1>3 DEF Request, Counters
<1>5. /\ q.pc = "done" /\ q.b = o.b /\ q.kind = o.kind /\ q.result = o.result
      /\ q.answer = o.result /\ q.span = Ended(o.span, o.b) /\ q.sdk = o.sdk
      /\ q.status = o.status /\ q.counted = o.counted /\ q.audit = o.audit /\ q.asked = o.asked
    BY <1>1 DEF Request, Counters
<1> HIDE DEF q
<1>6. SpansInPhase(q)
    BY <1>1, <1>3, <1>5 DEF SpansInPhase, InFlight
<1>7. RecordsInPhase(q)
    BY <1>1, <1>3, <1>5 DEF RecordsInPhase, SpansInPhase, Status
<1>8. RequestObserved(q)
    BY <1>1, <1>3, <1>5 DEF RequestObserved, SpansInPhase, InFlight, Metering
<1>9. /\ q.counted \cap {"sdkCall", "error"} # {} => "generate" \in q.counted
      /\ "open" \notin {q.span, q.sdk}
    BY <1>1, <1>3, <1>5 DEF SpansInPhase
<1>10. q.span = "kept" /\ q.asked => q.sdk = "kept"
    BY <1>1, <1>3, <1>5 DEF SpansInPhase, RequestObserved, InFlight
<1> QED
    BY <1>2, <1>4, <1>6, <1>7, <1>8, <1>9, <1>10, RequestStepPreservesInv

\* A backend that serves has settled whether its spans and figures are observed.
LEMMA ReceivePreservesInv ==
    ASSUME TelemetryInv, NEW r \in Requests, NEW b \in Backends, NEW kind \in Kinds, Receive(r, b, kind)
    PROVE  TelemetryInv'
<1> DEFINE o == requests[r]
           counted == IF kind \in {"configRead", "roleRead"} THEN Count(b, {"request"}) ELSE {}
<1>0. PICK span \in Started(b) :
          Step(r, [o EXCEPT !.pc = "serving", !.b = b, !.kind = kind, !.span = span,
                      !.counted = counted])
    BY DEF Receive
<1> DEFINE q == [o EXCEPT !.pc = "serving", !.b = b, !.kind = kind, !.span = span,
                    !.counted = counted]
<1>1. /\ o \in Request /\ SpansInPhase(o) /\ RecordsInPhase(o) /\ RequestObserved(o)
    BY RequestFacts
<1>2. Step(r, q)
    BY <1>0
<1>3. /\ o.pc = "new" /\ backend[b].pc = "up"
      /\ counted \subseteq {"request"} /\ (counted # {} => IsMetricsEnabled(Config))
      /\ span \in {"off", "open", "unsampled"}
      /\ span # "off" => IsTracesEnabled(Config) /\ backend[b].tracer # Nobody
      /\ span = "unsampled" => FALSE \in buildSampler(Config.sampleRate)
      /\ span = "open" => TRUE \in buildSampler(Config.sampleRate)
  <2>1. o.pc = "new" /\ backend[b].pc = "up"
      BY DEF Receive
  <2>2. counted \subseteq {"request"} /\ (counted # {} => IsMetricsEnabled(Config))
      BY DEF Count, Metering, TelemetryInv, ProvidersInPhase
  <2>3. CASE backend[b].tracer = Nobody
      BY <2>1, <2>2, <2>3 DEF Started
  <2>4. CASE backend[b].tracer # Nobody
    <3>1. IsTracesEnabled(Config)
        BY <2>4 DEF TelemetryInv, ProvidersInPhase
    <3>2. PICK sampled \in buildSampler(Config.sampleRate) :
              span = IF sampled THEN "open" ELSE "unsampled"
        BY <1>0, <2>4 DEF Started
    <3>3. sampled \in BOOLEAN
        BY <3>2 DEF buildSampler
    <3>4. CASE sampled = TRUE
        BY <2>1, <2>2, <2>4, <3>1, <3>2, <3>4
    <3>5. CASE sampled = FALSE
        BY <2>1, <2>2, <2>4, <3>1, <3>2, <3>5
    <3> QED
        BY <3>3, <3>4, <3>5
  <2> QED
      BY <2>3, <2>4
<1> HIDE DEF o, counted
<1>4. q \in Request
    BY <1>1, <1>3 DEF Request, Counters, Span
<1>5. /\ q.pc = "serving" /\ q.b = b /\ q.kind = kind /\ q.result = o.result
      /\ q.answer = o.answer /\ q.span = span /\ q.sdk = o.sdk /\ q.status = o.status
      /\ q.counted = counted /\ q.audit = o.audit /\ q.asked = o.asked
    BY <1>1 DEF Request, Counters
<1> HIDE DEF q
<1>6. SpansInPhase(q)
    BY <1>1, <1>3, <1>5 DEF SpansInPhase, InFlight
<1>7. RecordsInPhase(q)
    BY <1>1, <1>3, <1>5 DEF RecordsInPhase, SpansInPhase, Status
<1>8. RequestObserved(q)
    BY <1>1, <1>3, <1>5 DEF RequestObserved, SpansInPhase, InFlight, Metering
<1>9. /\ q.counted \cap {"sdkCall", "error"} # {} => "generate" \in q.counted
      /\ q.pc # "done"
    BY <1>1, <1>3, <1>5 DEF RequestObserved
<1> QED
    BY <1>2, <1>4, <1>6, <1>7, <1>8, <1>9, RequestStepPreservesInv
-----------------------------------------------------------------------------
(* Invariance *)

\* One case per action.
LEMMA TelemetryNextPreservesInv ==
    TelemetryInv /\ [TelemetryNext]_telemetryVars => TelemetryInv'
<1> SUFFICES ASSUME TelemetryInv, [TelemetryNext]_telemetryVars
             PROVE  TelemetryInv'
    OBVIOUS
<1>1. ASSUME NEW b \in Backends, FactoryStep(b)
      PROVE  TelemetryInv'
    BY <1>1, InitDisabledPreservesInv, SetupTracerPreservesInv, SetupTracerFailsPreservesInv,
       SkipTracerPreservesInv, InstallTracerPreservesInv, SetupMetricsPreservesInv,
       SetupMetricsFailsPreservesInv, SkipMetricsPreservesInv DEF FactoryStep
<1>2. ASSUME NEW b \in Backends, CleanupStep(b)
      PROVE  TelemetryInv'
    BY <1>2, ShutdownTracesPreservesInv, ShutdownMetricsPreservesInv DEF CleanupStep
<1>3. ASSUME NEW r \in Requests, NEW b \in Backends, NEW kind \in Kinds, Receive(r, b, kind)
      PROVE  TelemetryInv'
    BY <1>3, ReceivePreservesInv
<1>4. ASSUME NEW r \in Requests, HandlerStep(r)
      PROVE  TelemetryInv'
    BY <1>4, ServePreservesInv, TokenFailsEarlyPreservesInv, TokenSkyflowRepliesPreservesInv,
       TokenAsksSkyflowPreservesInv, RecordTokenGeneratePreservesInv,
       RecordTokenOutcomePreservesInv, auditLogPreservesInv, ReturnPreservesInv DEF HandlerStep
<1>5. CASE ProcessExits
    BY <1>5, ProcessExitsPreservesInv
<1>6. CASE UNCHANGED telemetryVars
  <2>1. UNCHANGED <<environment, backend, first, installed, requests>>
      BY <1>6 DEF telemetryVars
  <2>2. TelemetryTypeOK' /\ (\A b \in Backends : ProvidersInPhase(backend[b], Config))'
      BY <2>1 DEF TelemetryInv, TelemetryTypeOK, Config
  <2>3. TracersResolve' /\ FiguresNest' /\ TracesWhole'
      BY <2>1 DEF TelemetryInv, TracersResolve, FiguresNest, TracesWhole
  <2>4. ASSUME NEW r \in Requests
        PROVE  (SpansInPhase(requests[r]) /\ RecordsInPhase(requests[r]) /\ RequestObserved(requests[r]))'
      BY <2>1 DEF TelemetryInv, RequestObserved, Config, Metering, SinkRuns, Sink, InFlight
  <2> QED
      BY <2>2, <2>3, <2>4 DEF TelemetryInv
<1> QED
    BY <1>1, <1>2, <1>3, <1>4, <1>5, <1>6 DEF TelemetryNext

\* The invariant holds in every reachable state.
THEOREM TelemetryInvariance == TelemetrySpec => []TelemetryInv
<1>1. TelemetryInit => TelemetryInv
    BY TelemetryInitInv
<1>2. TelemetryInv /\ [TelemetryNext]_telemetryVars => TelemetryInv'
    BY TelemetryNextPreservesInv
<1> QED
    BY <1>1, <1>2, PTL DEF TelemetrySpec

\* Every variable keeps its type, the resolved configuration included.
THEOREM TelemetryTypeCorrect == TelemetrySpec => []TelemetryTypeOK
<1>1. TelemetryInv => TelemetryTypeOK
    BY DEF TelemetryInv
<1> QED
    BY <1>1, TelemetryInvariance, PTL

\* A signal that the environment switches off has no provider, and no request leaves
\* anything of it behind.
THEOREM OffAlwaysMeansOff == TelemetrySpec => []OffMeansOff
<1>1. TelemetryInv => OffMeansOff
  <2> SUFFICES ASSUME TelemetryInv PROVE OffMeansOff
      OBVIOUS
  <2>1. /\ TracesSwitchedOff(environment) => ~IsTracesEnabled(Config)
        /\ MetricsSwitchedOff(environment) => ~IsMetricsEnabled(Config)
      BY OffIsDisabled DEF TelemetryInv, TelemetryTypeOK, Config
  <2> QED
      BY <2>1 DEF TelemetryInv, ProvidersInPhase, RequestObserved, OffMeansOff
<1> QED
    BY <1>1, TelemetryInvariance, PTL

\* In cug and prod, a backend that is up with telemetry has both signals running,
\* unless their own switches say otherwise.
THEOREM ProductionAlwaysObserved == TelemetrySpec => []ProductionObserved
<1>1. TelemetryInv => ProductionObserved
  <2> SUFFICES ASSUME TelemetryInv, environment.ENV \in {"cug", "prod"}
               PROVE  ProductionObserved
      BY DEF ProductionObserved
  <2>1. /\ ~TracesSwitchedOff(environment) => IsTracesEnabled(Config)
        /\ ~MetricsSwitchedOff(environment) => IsMetricsEnabled(Config)
      BY ProductionIsEnabled DEF TelemetryInv, TelemetryTypeOK, Config
  <2> QED
      BY <2>1 DEF TelemetryInv, ProvidersInPhase, ProductionObserved
<1> QED
    BY <1>1, TelemetryInvariance, PTL

\* A connection without TLS was asked for by the operator.
THEOREM ClearAlwaysAsked == TelemetrySpec => []ClearOnlyIfAsked
<1>1. TelemetryInv => ClearOnlyIfAsked
    BY ClearIsAsked DEF TelemetryInv, TelemetryTypeOK, Config, ClearOnlyIfAsked
<1> QED
    BY <1>1, TelemetryInvariance, PTL

\* What is sampled is what the operator asked for.
THEOREM AlwaysSampledAsAsked == TelemetrySpec => []SampledAsAsked
<1>1. TelemetryInv => SampledAsAsked
  <2> SUFFICES ASSUME TelemetryInv, NEW r \in Requests
               PROVE  /\ requests[r].span = "unsampled" =>
                            \/ environment.TELEMETRY_SAMPLE_RATE = NaN
                            \/ /\ environment.TELEMETRY_SAMPLE_RATE \in Int
                               /\ environment.TELEMETRY_SAMPLE_RATE < 100
                      /\ /\ requests[r].span \in {"open", "kept", "lost", "gone"}
                         /\ environment.TELEMETRY_SAMPLE_RATE \in Int
                         => environment.TELEMETRY_SAMPLE_RATE > 0
      BY DEF SampledAsAsked
  <2>1. environment \in Environment /\ Config = BuildConfig(environment)
      BY DEF TelemetryInv, TelemetryTypeOK, Config
  <2>2. RequestObserved(requests[r])
      BY DEF TelemetryInv
  <2> QED
      BY <2>1, <2>2, SamplerAsAsked DEF RequestObserved
<1> QED
    BY <1>1, TelemetryInvariance, PTL

\* A tracer provider that runs, and a meter provider that Init has returned, has somebody
\* who will shut it down.
THEOREM NeverOrphanTracers == TelemetrySpec => []NoOrphanTracers
<1>1. TelemetryInv => NoOrphanTracers
    BY DEF TelemetryInv, TelemetryTypeOK, ProvidersInPhase, NewBackend, Backend, NoOrphanTracers
<1> QED
    BY <1>1, TelemetryInvariance, PTL

\* The trace of a request is whole.
THEOREM TracesAlwaysWhole == TelemetrySpec => []TracesWhole
<1>1. TelemetryInv => TracesWhole
    BY DEF TelemetryInv
<1> QED
    BY <1>1, TelemetryInvariance, PTL

\* The figures of token requests nest.
THEOREM FiguresAlwaysNest == TelemetrySpec => []FiguresNest
<1>1. TelemetryInv => FiguresNest
    BY DEF TelemetryInv
<1> QED
    BY <1>1, TelemetryInvariance, PTL

\* No call to Skyflow is answered for without an audit record.
THEOREM AnsweredCallsAlwaysAudited == TelemetrySpec => []AnsweredCallsAudited
<1>1. TelemetryInv => AnsweredCallsAudited
  <2> SUFFICES ASSUME TelemetryInv, NEW r \in Requests
               PROVE  LET q == requests[r]
                      IN  /\ q.kind = "token" /\ q.answer = "ok" => q.asked
                          /\ q.asked /\ q.answer = "ok" => q.audit = "success"
                          /\ q.asked /\ q.answer = "rejected" => q.audit = "failure"
      BY DEF AnsweredCallsAudited
  <2>1. RecordsInPhase(requests[r])
      BY DEF TelemetryInv
  <2> QED
      BY <2>1 DEF RecordsInPhase
<1> QED
    BY <1>1, TelemetryInvariance, PTL

\* Span status, counters, audit record and answer of a request agree.
THEOREM RecordsAlwaysAgree == TelemetrySpec => []RecordsAgree
<1>1. TelemetryInv => RecordsAgree
  <2> SUFFICES ASSUME TelemetryInv, NEW r \in Requests
               PROVE  LET q == requests[r]
                      IN  /\ "sdkCall" \in q.counted \/ q.audit = "success" =>
                                /\ q.status = "ok" /\ "error" \notin q.counted
                                /\ q.answer \in {"none", "ok", "failed"}
                          /\ "error" \in q.counted \/ q.audit = "failure" =>
                                /\ q.status = "error" /\ q.audit # "success"
                                /\ q.answer \in {"none", "rejected", "failed"}
      BY DEF RecordsAgree
  <2>1. RecordsInPhase(requests[r])
      BY DEF TelemetryInv
  <2> QED
      BY <2>1 DEF RecordsInPhase, Status
<1> QED
    BY <1>1, TelemetryInvariance, PTL
-----------------------------------------------------------------------------
(* The spans of the backend whose provider was installed first *)

\* As long as that backend is up, the provider behind its tracer is its own, and runs.
LEMMA FirstSinkRuns ==
    ASSUME TelemetryInv, NEW r \in Requests, InFlight(requests[r]),
           requests[r].span = "open", requests[r].b = first,
           backend[requests[r].b].pc \notin {"cleaning", "cleaned"}
    PROVE  SinkRuns(requests[r].b)
<1> DEFINE b == requests[r].b
<1>1. b \in Backends /\ backend[b].pc = "up" /\ backend[b].tracer # Nobody
    BY DEF TelemetryInv, SpansInPhase, RequestObserved
<1>2. ProvidersInPhase(backend[b], Config) /\ backend[b] \in Backend
    BY <1>1 DEF TelemetryInv, TelemetryTypeOK
<1>3. backend[b].traces = "running"
    BY <1>1, <1>2 DEF ProvidersInPhase, Backend
<1>4. backend[b].tracer = Forwarding
    BY <1>1 DEF TelemetryInv, TracersResolve
<1> QED
    BY <1>1, <1>3, <1>4 DEF SinkRuns, Sink

\* A step of a request that ends no span, or ends one that is kept, loses none.
LEMMA StepLosesNothing ==
    ASSUME TelemetryInv, NEW r \in Requests,
           \A x \in Requests \ {r} : requests'[x] = requests[x],
           \/ ~LosesSpan(requests[r], requests'[r])
           \/ requests[r].b = first => backend[first].pc \in {"cleaning", "cleaned"}
    PROVE  FirstLosesNothingEarly
<1>1. ASSUME NEW x \in Requests, x # r
      PROVE  ~LosesSpan(requests[x], requests'[x])
    BY <1>1 DEF LosesSpan
<1> QED
    BY <1>1 DEF FirstLosesNothingEarly

\* One case for each kind of step.
LEMMA FirstLosesNothing ==
    ASSUME TelemetryInv, TelemetryNext
    PROVE  FirstLosesNothingEarly
<1>1. CASE UNCHANGED requests
    BY <1>1 DEF FirstLosesNothingEarly, LosesSpan
<1>2. ASSUME NEW r \in Requests, NEW outcome \in Results,
             \/ Serve(r, outcome) \/ TokenFailsEarly(r, outcome) \/ RecordTokenGenerate(r)
             \/ RecordTokenError(r) \/ RecordSkyflowSDKCall(r) \/ auditLog(r)
      PROVE  FirstLosesNothingEarly
  <2>1. requests \in [Requests -> Request] /\ requests[r] \in Request
      BY DEF TelemetryInv, TelemetryTypeOK
  <2>2. /\ \A x \in Requests \ {r} : requests'[x] = requests[x]
        /\ requests'[r].span = requests[r].span /\ requests'[r].sdk = requests[r].sdk
    <3>1. CASE Serve(r, outcome)
        BY <2>1, <3>1 DEF Serve, Step, Request, Counters
    <3>2. CASE TokenFailsEarly(r, outcome)
        BY <2>1, <3>2 DEF TokenFailsEarly, Step, Request, Counters
    <3>3. CASE RecordTokenGenerate(r)
        BY <2>1, <3>3 DEF RecordTokenGenerate, Step, Request, Counters
    <3>4. CASE RecordTokenError(r)
        BY <2>1, <3>4 DEF RecordTokenError, Step, Request, Counters
    <3>5. CASE RecordSkyflowSDKCall(r)
        BY <2>1, <3>5 DEF RecordSkyflowSDKCall, Step, Request, Counters
    <3>6. CASE auditLog(r)
        BY <2>1, <3>6 DEF auditLog, Step, Request, Counters
    <3> QED
        BY <1>2, <3>1, <3>2, <3>3, <3>4, <3>5, <3>6
  <2> QED
      BY <2>2, StepLosesNothing DEF LosesSpan
<1>3. ASSUME NEW r \in Requests, TokenAsksSkyflow(r)
      PROVE  FirstLosesNothingEarly
  <2>1. /\ requests \in [Requests -> Request] /\ requests[r] \in Request
        /\ requests[r].span # "lost"
      BY <1>3 DEF TelemetryInv, TelemetryTypeOK, SpansInPhase, InFlight, TokenAsksSkyflow
  <2>2. /\ \A x \in Requests \ {r} : requests'[x] = requests[x]
        /\ requests'[r].span = requests[r].span /\ requests'[r].sdk = requests[r].span
      BY <1>3, <2>1 DEF TokenAsksSkyflow, Step, Request, Counters
  <2> QED
      BY <2>1, <2>2, StepLosesNothing DEF LosesSpan
<1>4. ASSUME NEW r \in Requests, NEW b \in Backends, NEW kind \in Kinds, Receive(r, b, kind)
      PROVE  FirstLosesNothingEarly
  <2>1. requests \in [Requests -> Request] /\ requests[r] \in Request
      BY DEF TelemetryInv, TelemetryTypeOK
  <2>2. /\ \A x \in Requests \ {r} : requests'[x] = requests[x]
        /\ requests'[r].span \in Started(b) /\ requests'[r].sdk = requests[r].sdk
      BY <1>4, <2>1 DEF Receive, Step, Request, Counters
  <2>3. requests'[r].span # "lost"
      BY <2>2 DEF Started
  <2> QED
      BY <2>2, <2>3, StepLosesNothing DEF LosesSpan
<1>5. ASSUME NEW r \in Requests, NEW outcome \in Results, TokenSkyflowReplies(r, outcome)
      PROVE  FirstLosesNothingEarly
  <2>1. /\ requests \in [Requests -> Request] /\ requests[r] \in Request
        /\ InFlight(requests[r])
        /\ requests[r].sdk = requests[r].span
      BY <1>5 DEF TelemetryInv, TelemetryTypeOK, SpansInPhase, InFlight, TokenSkyflowReplies
  <2>2. /\ \A x \in Requests \ {r} : requests'[x] = requests[x]
        /\ requests'[r].span = requests[r].span
        /\ requests'[r].sdk = Ended(requests[r].sdk, requests[r].b)
      BY <1>5, <2>1 DEF TokenSkyflowReplies, Step, Request, Counters
  <2>3. LosesSpan(requests[r], requests'[r]) => requests[r].span = "open" /\ ~SinkRuns(requests[r].b)
      BY <2>1, <2>2 DEF LosesSpan, Ended
  <2> QED
      BY <2>1, <2>2, <2>3, FirstSinkRuns, StepLosesNothing
<1>6. ASSUME NEW r \in Requests, Return(r)
      PROVE  FirstLosesNothingEarly
  <2>1. /\ requests \in [Requests -> Request] /\ requests[r] \in Request
        /\ InFlight(requests[r])
      BY <1>6 DEF TelemetryInv, TelemetryTypeOK, InFlight, Return
  <2>2. /\ \A x \in Requests \ {r} : requests'[x] = requests[x]
        /\ requests'[r].sdk = requests[r].sdk
        /\ requests'[r].span = Ended(requests[r].span, requests[r].b)
      BY <1>6, <2>1 DEF Return, Step, Request, Counters
  <2>3. LosesSpan(requests[r], requests'[r]) => requests[r].span = "open" /\ ~SinkRuns(requests[r].b)
      BY <2>1, <2>2 DEF LosesSpan, Ended
  <2> QED
      BY <2>1, <2>2, <2>3, FirstSinkRuns, StepLosesNothing
<1>7. CASE ProcessExits
  <2>1. ASSUME NEW r \in Requests
        PROVE  ~LosesSpan(requests[r], requests'[r])
    <3>1. requests[r] \in Request
        BY DEF TelemetryInv, TelemetryTypeOK
    <3>2. /\ requests'[r].span \in {requests[r].span, "gone"}
          /\ requests'[r].sdk \in {requests[r].sdk, "gone"}
        BY <1>7, <3>1 DEF ProcessExits, Request, Counters
    <3> QED
        BY <3>2 DEF LosesSpan
  <2> QED
      BY <2>1 DEF FirstLosesNothingEarly
<1>8. ASSUME NEW b \in Backends, FactoryStep(b) \/ CleanupStep(b)
      PROVE  UNCHANGED requests
    BY <1>8 DEF FactoryStep, InitDisabled, SetupTracer, SetupTracerFails, SkipTracer, InstallTracer,
                SetupMetrics, SetupMetricsFails, SkipMetrics,
                CleanupStep, ShutdownTraces, ShutdownMetrics
<1> QED
    BY <1>1, <1>2, <1>3, <1>4, <1>5, <1>6, <1>7, <1>8 DEF TelemetryNext, HandlerStep, Results

\* Whose provider was installed first keeps its spans until its own cleanup.
THEOREM FirstAlwaysKeepsItsSpans == TelemetrySpec => FirstKeepsItsSpans
<1>1. TelemetryInv /\ [TelemetryNext]_telemetryVars => [FirstLosesNothingEarly]_telemetryVars
    BY FirstLosesNothing
<1> QED
    BY <1>1, TelemetryInvariance, PTL DEF TelemetrySpec, FirstKeepsItsSpans
-----------------------------------------------------------------------------
(* What a token call answered by a backend that is up leaves behind *)

\* A step of Factory or cleanup: the backends that serve are not Factory's any more,
\* and cleanup takes its backend out of those that are up.
LEMMA BackendStepKeepsObserved ==
    ASSUME TelemetryInv, ObservedInv, NEW b \in Backends,
           UNCHANGED <<environment, requests>>,
           \A s \in Backends \ {b} : backend'[s] = backend[s],
           backend[b].pc \in Late => backend'[b].pc \in {"cleaning", "cleaned"},
           backend'[b].traces = "running" => backend'[b].tracer # Nobody
    PROVE  ObservedInv'
<1>1. \A s \in Backends : backend'[s].traces = "running" => backend'[s].tracer # Nobody
    BY DEF ObservedInv
<1>2. ASSUME NEW r \in Requests
      PROVE  ObservedSoFar(requests[r])'
  <2>1. ObservedSoFar(requests[r]) /\ requests'[r] = requests[r] /\ Config' = Config
      BY DEF ObservedInv, Config
  <2>2. InFlight(requests[r]) => requests[r].b \in Backends /\ backend[requests[r].b].pc \in Late
      BY DEF TelemetryInv, SpansInPhase, RequestObserved, Late
  <2>3. InFlight(requests[r]) /\ backend'[requests[r].b].pc = "up" =>
            backend'[requests[r].b] = backend[requests[r].b]
      BY <2>2
  <2> QED
      BY <2>1, <2>3 DEF ObservedSoFar, InFlight
<1> QED
    BY <1>1, <1>2 DEF ObservedInv

LEMMA FactoryKeepsObserved ==
    ASSUME TelemetryInv, ObservedInv, NEW b \in Backends, FactoryStep(b) \/ CleanupStep(b)
    PROVE  ObservedInv'
<1>1. /\ backend \in [Backends -> Backend] /\ backend[b] \in Backend
      /\ installed \in Backends \cup {Nobody} /\ ProvidersInPhase(backend[b], Config)
      /\ backend[b].traces = "running" => backend[b].tracer # Nobody
    BY DEF TelemetryInv, TelemetryTypeOK, ObservedInv
<1>2. /\ UNCHANGED <<environment, requests>>
      /\ \A s \in Backends \ {b} : backend'[s] = backend[s]
    BY <1>1
    DEF FactoryStep, InitDisabled, SetupTracer, SetupTracerFails, SkipTracer, InstallTracer,
        SetupMetrics, SetupMetricsFails, SkipMetrics, CleanupStep, ShutdownTraces, ShutdownMetrics
<1>3. CASE SetupTracer(b)
  <2>1. newTracesProvider # Nobody
      BY TelemetryAssumption DEF newTracesProvider
  <2>2. backend'[b].tracer = newTracesProvider /\ backend[b].pc \notin Late
      BY <1>1, <1>3 DEF SetupTracer, Backend, Late
  <2> QED
      BY <1>2, <2>1, <2>2, BackendStepKeepsObserved
<1>4. CASE InitDisabled(b) \/ SetupTracerFails(b) \/ SkipTracer(b)
  <2>1. backend[b] = NewBackend /\ backend[b].pc \notin Late
      BY <1>1, <1>4 DEF InitDisabled, SetupTracerFails, SkipTracer, ProvidersInPhase, Late
  <2>2. backend'[b].traces # "running"
      BY <1>1, <1>4, <2>1 DEF InitDisabled, SetupTracerFails, SkipTracer, Backend, NewBackend
  <2> QED
      BY <1>2, <2>1, <2>2, BackendStepKeepsObserved
<1>5. CASE InstallTracer(b) \/ SetupMetrics(b) \/ SkipMetrics(b)
  <2>1. /\ backend[b].pc \notin Late
        /\ backend'[b].traces = backend[b].traces /\ backend'[b].tracer = backend[b].tracer
      BY <1>1, <1>5 DEF InstallTracer, SetupMetrics, SkipMetrics, Backend, Late
  <2> QED
      BY <1>1, <1>2, <2>1, BackendStepKeepsObserved
<1>6. CASE SetupMetricsFails(b)
  <2>1. backend[b].pc \notin Late /\ backend'[b].traces # "running"
      BY <1>1, <1>6 DEF SetupMetricsFails, Backend, Late
  <2> QED
      BY <1>2, <2>1, BackendStepKeepsObserved
<1>7. CASE ShutdownTraces(b)
  <2>1. /\ backend'[b].pc = "cleaning" /\ backend'[b].tracer = backend[b].tracer
        /\ backend'[b].traces \in {"shutdown", backend[b].traces}
      BY <1>1, <1>7 DEF ShutdownTraces, Backend
  <2> QED
      BY <1>1, <1>2, <2>1, BackendStepKeepsObserved
<1>8. CASE ShutdownMetrics(b)
  <2>1. /\ backend'[b].pc = "cleaned" /\ backend'[b].tracer = backend[b].tracer
        /\ backend'[b].traces = backend[b].traces
      BY <1>1, <1>8 DEF ShutdownMetrics, Backend
  <2> QED
      BY <1>1, <1>2, <2>1, BackendStepKeepsObserved
<1> QED
    BY <1>3, <1>4, <1>5, <1>6, <1>7, <1>8 DEF FactoryStep, CleanupStep

\* A meter provider runs as long as its backend is up.
LEMMA UpCounts ==
    ASSUME TelemetryInv, NEW b \in Backends, NEW counters,
           backend[b].pc = "up", backend[b].shutdown, IsMetricsEnabled(Config)
    PROVE  Count(b, counters) = counters
BY DEF TelemetryInv, ProvidersInPhase, Count, Metering

\* ... and its tracer is there.
LEMMA UpStartsSpans ==
    ASSUME TelemetryInv, ObservedInv, NEW b \in Backends, NEW span \in Started(b),
           backend[b].pc = "up", backend[b].shutdown, IsTracesEnabled(Config)
    PROVE  span # "off"
<1>1. backend[b].tracer # Nobody
    BY DEF TelemetryInv, ProvidersInPhase, ObservedInv
<1> QED
    BY <1>1 DEF Started

\* A step of a request.
LEMMA RequestStepKeepsObserved ==
    ASSUME TelemetryInv, ObservedInv, NEW r \in Requests, NEW q, Step(r, q), ObservedSoFar(q)
    PROVE  ObservedInv'
<1>1. /\ requests \in [Requests -> Request] /\ requests' = [requests EXCEPT ![r] = q]
      /\ backend' = backend /\ Config' = Config
    BY DEF TelemetryInv, TelemetryTypeOK, Step, Config
<1>2. ASSUME NEW x \in Requests
      PROVE  ObservedSoFar(requests[x])'
  <2>1. ObservedSoFar(requests'[x])
      BY <1>1 DEF ObservedInv
  <2> QED
      BY <1>1, <2>1 DEF ObservedSoFar, InFlight
<1> QED
    BY <1>1, <1>2 DEF ObservedInv

\* The steps of the handlers before the last one: each moves the figures that it is to
\* move, and the SDK.Auth span ends as the request's own span goes.
LEMMA HandlersKeepObserved ==
    ASSUME TelemetryInv, ObservedInv, NEW r \in Requests, HandlerStep(r), ~Return(r)
    PROVE  ObservedInv'
<1> DEFINE o == requests[r]
<1>1. /\ o \in Request /\ SpansInPhase(o) /\ RecordsInPhase(o) /\ ObservedSoFar(o)
    BY RequestFacts DEF ObservedInv
<1>2. ASSUME NEW counters, o.b \in Backends, backend[o.b].pc = "up", backend[o.b].shutdown,
             IsMetricsEnabled(Config)
      PROVE  Count(o.b, counters) = counters
    BY <1>2, UpCounts
<1>3. ASSUME NEW outcome \in Results, Serve(r, outcome)
      PROVE  ObservedInv'
  <2> DEFINE q == [o EXCEPT !.pc = "closing", !.result = outcome, !.status = Status(outcome),
                       !.counted = IF CountedAtEnd(o.kind, outcome)
                                   THEN @ \cup Count(o.b, {"request"}) ELSE @]
  <2>1. Step(r, q) /\ o.pc = "serving" /\ o.kind # "token"
      BY <1>3 DEF Serve
  <2>2. /\ q.pc = "closing" /\ q.result = outcome /\ q.kind = o.kind /\ q.b = o.b
        /\ q.asked = o.asked /\ q.span = o.span /\ q.sdk = o.sdk
        /\ q.counted = IF CountedAtEnd(o.kind, outcome)
                       THEN o.counted \cup Count(o.b, {"request"}) ELSE o.counted
      BY <1>1 DEF Request, Counters
  <2> HIDE DEF q, o
  <2>3. ObservedSoFar(q)
      BY <1>1, <1>2, <2>1, <2>2 DEF ObservedSoFar, FiguresSoFar, Counters, SpansInPhase, InFlight
  <2> QED
      BY <2>1, <2>3, RequestStepKeepsObserved DEF o
<1>4. ASSUME NEW outcome \in Results, TokenFailsEarly(r, outcome)
      PROVE  ObservedInv'
  <2> DEFINE q == [o EXCEPT !.pc = "closing", !.result = outcome, !.status = "error"]
  <2>1. Step(r, q) /\ o.pc = "serving" /\ o.kind = "token"
      BY <1>4 DEF TokenFailsEarly
  <2>2. /\ q.pc = "closing" /\ q.result = outcome /\ q.kind = o.kind /\ q.b = o.b
        /\ q.asked = o.asked /\ q.span = o.span /\ q.sdk = o.sdk /\ q.counted = o.counted
      BY <1>1 DEF Request, Counters
  <2> HIDE DEF q, o
  <2>3. ObservedSoFar(q)
      BY <1>1, <2>1, <2>2 DEF ObservedSoFar, FiguresSoFar, Counters, SpansInPhase, InFlight
  <2> QED
      BY <2>1, <2>3, RequestStepKeepsObserved DEF o
<1>5. CASE TokenAsksSkyflow(r)
  <2> DEFINE q == [o EXCEPT !.pc = "sdk", !.sdk = o.span, !.asked = TRUE]
  <2>1. Step(r, q) /\ o.pc = "serving" /\ o.kind = "token"
      BY <1>5 DEF TokenAsksSkyflow
  <2>2. /\ q.pc = "sdk" /\ q.result = o.result /\ q.kind = o.kind /\ q.b = o.b
        /\ q.asked = TRUE /\ q.span = o.span /\ q.sdk = o.span /\ q.counted = o.counted
      BY <1>1 DEF Request, Counters
  <2> HIDE DEF q, o
  <2>3. ObservedSoFar(q)
      BY <1>1, <2>1, <2>2 DEF ObservedSoFar, FiguresSoFar, Counters, SpansInPhase, InFlight
  <2> QED
      BY <2>1, <2>3, RequestStepKeepsObserved DEF o
<1>6. ASSUME NEW outcome \in Results, TokenSkyflowReplies(r, outcome)
      PROVE  ObservedInv'
  <2> DEFINE q == [o EXCEPT !.pc = "generate", !.result = outcome, !.status = Status(outcome),
                       !.sdk = Ended(@, o.b)]
  <2>1. Step(r, q) /\ o.pc = "sdk"
      BY <1>6 DEF TokenSkyflowReplies
  <2>2. /\ q.pc = "generate" /\ q.result = outcome /\ q.kind = o.kind /\ q.b = o.b
        /\ q.asked = o.asked /\ q.span = o.span /\ q.sdk = Ended(o.sdk, o.b)
        /\ q.counted = o.counted
      BY <1>1 DEF Request, Counters
  <2> HIDE DEF q, o
  <2>3. q.span # "open" => q.sdk = q.span
      BY <1>1, <2>1, <2>2 DEF SpansInPhase, Ended
  <2>4. ObservedSoFar(q)
      BY <1>1, <2>1, <2>2, <2>3 DEF ObservedSoFar, FiguresSoFar, Counters, SpansInPhase, InFlight
  <2> QED
      BY <2>1, <2>4, RequestStepKeepsObserved DEF o
<1>7. CASE RecordTokenGenerate(r)
  <2> DEFINE q == [o EXCEPT !.pc = "outcome", !.counted = @ \cup Count(o.b, {"generate"})]
  <2>1. Step(r, q) /\ o.pc = "generate"
      BY <1>7 DEF RecordTokenGenerate
  <2>2. /\ q.pc = "outcome" /\ q.result = o.result /\ q.kind = o.kind /\ q.b = o.b
        /\ q.asked = o.asked /\ q.span = o.span /\ q.sdk = o.sdk
        /\ q.counted = o.counted \cup Count(o.b, {"generate"})
      BY <1>1 DEF Request, Counters
  <2> HIDE DEF q, o
  <2>3. ObservedSoFar(q)
      BY <1>1, <1>2, <2>1, <2>2 DEF ObservedSoFar, FiguresSoFar, Counters, SpansInPhase, InFlight
  <2> QED
      BY <2>1, <2>3, RequestStepKeepsObserved DEF o
<1>8. CASE RecordTokenError(r) \/ RecordSkyflowSDKCall(r)
  <2> DEFINE c == IF o.result = "ok" THEN "sdkCall" ELSE "error"
             q == [o EXCEPT !.pc = "audit", !.counted = @ \cup Count(o.b, {c})]
  <2>1. Step(r, q) /\ o.pc = "outcome" /\ c \in Counters
      BY <1>8 DEF RecordTokenError, RecordSkyflowSDKCall, Counters
  <2> HIDE DEF c
  <2>2. /\ q.pc = "audit" /\ q.result = o.result /\ q.kind = o.kind /\ q.b = o.b
        /\ q.asked = o.asked /\ q.span = o.span /\ q.sdk = o.sdk
        /\ q.counted = o.counted \cup Count(o.b, {c})
      BY <1>1 DEF Request, Counters
  <2> HIDE DEF q, o
  <2>3. ObservedSoFar(q)
      BY <1>1, <1>2, <2>1, <2>2
      DEF ObservedSoFar, FiguresSoFar, Counters, SpansInPhase, InFlight, c
  <2> QED
      BY <2>1, <2>3, RequestStepKeepsObserved DEF o
<1>9. CASE auditLog(r)
  <2> DEFINE q == [o EXCEPT !.pc = "closing",
                       !.audit = IF o.result = "ok" THEN "success" ELSE "failure"]
  <2>1. Step(r, q) /\ o.pc = "audit"
      BY <1>9 DEF auditLog
  <2>2. /\ q.pc = "closing" /\ q.result = o.result /\ q.kind = o.kind /\ q.b = o.b
        /\ q.asked = o.asked /\ q.span = o.span /\ q.sdk = o.sdk /\ q.counted = o.counted
      BY <1>1 DEF Request, Counters
  <2> HIDE DEF q, o
  <2>3. ObservedSoFar(q)
      BY <1>1, <2>1, <2>2 DEF ObservedSoFar, FiguresSoFar, Counters, SpansInPhase, InFlight
  <2> QED
      BY <2>1, <2>3, RequestStepKeepsObserved DEF o
<1> QED
    BY <1>3, <1>4, <1>5, <1>6, <1>7, <1>8, <1>9 DEF HandlerStep

\* A request that is received has its span started and, if it reads, is counted.
LEMMA ReceiveKeepsObserved ==
    ASSUME TelemetryInv, ObservedInv, NEW r \in Requests, NEW b \in Backends,
           NEW kind \in Kinds, Receive(r, b, kind)
    PROVE  ObservedInv'
<1> DEFINE o == requests[r]
           counted == IF kind \in {"configRead", "roleRead"} THEN Count(b, {"request"}) ELSE {}
<1>1. PICK span \in Started(b) :
          Step(r, [o EXCEPT !.pc = "serving", !.b = b, !.kind = kind, !.span = span,
                      !.counted = counted])
    BY DEF Receive
<1> DEFINE q == [o EXCEPT !.pc = "serving", !.b = b, !.kind = kind, !.span = span,
                    !.counted = counted]
<1>2. Step(r, q)
    BY <1>1
<1>3. o \in Request /\ SpansInPhase(o) /\ RecordsInPhase(o) /\ o.pc = "new"
    BY RequestFacts DEF Receive
<1> HIDE DEF counted, o
<1>4. /\ q.pc = "serving" /\ q.b = b /\ q.kind = kind /\ q.span = span
      /\ q.counted = counted /\ q.asked = o.asked
    BY <1>3 DEF Request, Counters
<1> HIDE DEF q
<1>5. ASSUME backend[b].pc = "up", backend[b].shutdown
      PROVE  /\ IsMetricsEnabled(Config) =>
                    counted = IF kind \in {"configRead", "roleRead"} THEN {"request"} ELSE {}
             /\ IsTracesEnabled(Config) => span # "off"
    BY <1>5, UpCounts, UpStartsSpans DEF counted
<1>6. ~q.asked
    BY <1>3, <1>4 DEF SpansInPhase
<1>7. ObservedSoFar(q)
    BY <1>4, <1>5, <1>6 DEF ObservedSoFar, FiguresSoFar, Counters, Kinds
<1> QED
    BY <1>2, <1>7, RequestStepKeepsObserved DEF o

\* One case for each kind of step.
LEMMA NextKeepsObserved ==
    TelemetryInv /\ ObservedInv /\ [TelemetryNext]_telemetryVars => ObservedInv'
<1> SUFFICES ASSUME TelemetryInv, ObservedInv, [TelemetryNext]_telemetryVars
             PROVE  ObservedInv'
    OBVIOUS
<1>1. ASSUME NEW r \in Requests, Return(r)
      PROVE  ObservedInv'
  <2> DEFINE q == [requests[r] EXCEPT !.pc = "done", !.answer = requests[r].result,
                       !.span = Ended(@, requests[r].b)]
  <2>1. requests[r] \in Request
      BY DEF TelemetryInv, TelemetryTypeOK
  <2>2. Step(r, q) /\ ~InFlight(q)
      BY <1>1, <2>1 DEF Return, InFlight, Request, Counters
  <2> HIDE DEF q
  <2> QED
      BY <2>2, RequestStepKeepsObserved DEF ObservedSoFar
<1>2. CASE ProcessExits
  <2>1. \A r \in Requests : ~InFlight(requests'[r])
      BY <1>2 DEF ProcessExits, TelemetryInv, TelemetryTypeOK, InFlight, Request, Counters
  <2>2. \A b \in Backends : backend'[b].traces # "running"
      BY <1>2 DEF ProcessExits, NewBackend
  <2> QED
      BY <2>1, <2>2 DEF ObservedInv, ObservedSoFar, InFlight
<1>3. CASE UNCHANGED telemetryVars
    BY <1>3 DEF telemetryVars, ObservedInv, ObservedSoFar, InFlight, Config
<1> QED
    BY <1>1, <1>2, <1>3, FactoryKeepsObserved, HandlersKeepObserved, ReceiveKeepsObserved
    DEF TelemetryNext

\* The invariant holds in every reachable state.
LEMMA ObservedInvariance == TelemetrySpec => []ObservedInv
<1>1. TelemetryInit => ObservedInv
    BY DEF TelemetryInit, ObservedInv, ObservedSoFar, NewBackend, NewRequest, InFlight
<1>2. TelemetryInv /\ ObservedInv /\ [TelemetryNext]_telemetryVars => ObservedInv'
    BY NextKeepsObserved
<1> QED
    BY <1>1, <1>2, TelemetryInvariance, PTL DEF TelemetrySpec

\* Return: the figures of a token call are there, and its trace goes to a provider that
\* runs.
LEMMA ReturnsObserved ==
    ASSUME TelemetryInv, ObservedInv, NEW r \in Requests, Return(r), requests[r].asked,
           backend[requests[r].b].pc = "up", backend[requests[r].b].shutdown
    PROVE  /\ requests'[r].answer = requests[r].result /\ requests'[r].b = requests[r].b
           /\ IsMetricsEnabled(Config) =>
                 {"generate", IF requests'[r].answer = "ok" THEN "sdkCall" ELSE "error"}
                     \subseteq requests'[r].counted
           /\ IsTracesEnabled(Config) /\ requests[r].b = first =>
                 /\ requests'[r].span \in {"kept", "unsampled"}
                 /\ requests'[r].sdk = requests'[r].span
<1> DEFINE o == requests[r]
<1>1. /\ o \in Request /\ SpansInPhase(o) /\ RequestObserved(o) /\ ObservedSoFar(o)
      /\ o.pc = "closing" /\ InFlight(o) /\ o.kind = "token"
    BY RequestFacts DEF ObservedInv, Return, InFlight, SpansInPhase
<1>2. /\ requests'[r].counted = o.counted /\ requests'[r].sdk = o.sdk
      /\ requests'[r].answer = o.result /\ requests'[r].b = o.b
      /\ requests'[r].span = Ended(o.span, o.b)
    BY <1>1 DEF Return, Step, Request, Counters, TelemetryInv, TelemetryTypeOK
<1>3. ASSUME IsMetricsEnabled(Config)
      PROVE  {"generate", IF o.result = "ok" THEN "sdkCall" ELSE "error"} \subseteq o.counted
  <2>1. o.counted = FiguresSoFar(o)
      BY <1>1, <1>3 DEF ObservedSoFar
  <2>2. {"generate", IF o.result = "ok" THEN "sdkCall" ELSE "error"} \subseteq FiguresSoFar(o)
      BY <1>1 DEF FiguresSoFar, Counters
  <2> QED
      BY <2>1, <2>2
<1>4. ASSUME IsTracesEnabled(Config), o.b = first
      PROVE  requests'[r].span \in {"kept", "unsampled"} /\ o.sdk = requests'[r].span
  <2>1. o.span \in {"open", "unsampled"}
      BY <1>1, <1>4 DEF ObservedSoFar, SpansInPhase
  <2>2. CASE o.span = "open"
    <3>1. SinkRuns(o.b)
        BY <1>1, <1>4, <2>2, FirstSinkRuns
    <3>2. requests'[r].span = "kept"
        BY <1>2, <2>2, <3>1 DEF Ended
    <3>3. o.sdk = "kept"
        BY <1>1, <2>2, <3>1 DEF SpansInPhase, RequestObserved
    <3> QED
        BY <3>2, <3>3
  <2>3. CASE o.span = "unsampled"
      BY <1>1, <1>2, <2>3 DEF Ended, ObservedSoFar
  <2> QED
      BY <2>1, <2>2, <2>3
<1> QED
    BY <1>2, <1>3, <1>4

\* Return is the only step that answers a request and leaves its backend up.
LEMMA AnswersAreReturns ==
    ASSUME TelemetryInv, [TelemetryNext]_telemetryVars, NEW r \in Requests,
           requests[r].answer = "none", requests'[r].answer # "none",
           backend'[requests'[r].b].pc = "up"
    PROVE  Return(r) /\ backend' = backend
<1>1. requests \in [Requests -> Request] /\ requests[r] \in Request /\ requests' # requests
    BY DEF TelemetryInv, TelemetryTypeOK
<1>2. ~ProcessExits
  <2>1. ASSUME ProcessExits PROVE InFlight(requests[r])
      BY <1>1, <2>1 DEF ProcessExits
  <2>2. ASSUME ProcessExits PROVE requests'[r].b = requests[r].b
      BY <1>1, <2>1, <2>2 DEF ProcessExits, Request, Counters
  <2>3. InFlight(requests[r]) => requests[r].b \in Backends
      BY DEF TelemetryInv, SpansInPhase
  <2>4. ASSUME ProcessExits, requests'[r].b \in Backends PROVE FALSE
      BY <2>4 DEF ProcessExits, NewBackend
  <2> QED
      BY <2>1, <2>2, <2>3, <2>4
<1>3. \A b \in Backends : ~FactoryStep(b) /\ ~CleanupStep(b)
    BY <1>1 DEF FactoryStep, InitDisabled, SetupTracer, SetupTracerFails, SkipTracer,
                InstallTracer, SetupMetrics, SetupMetricsFails, SkipMetrics,
                CleanupStep, ShutdownTraces, ShutdownMetrics
<1>4. ASSUME NEW x \in Requests, NEW b \in Backends, NEW kind \in Kinds, Receive(x, b, kind)
      PROVE  FALSE
  <2>1. requests'[x].answer = requests[x].answer
      BY <1>1, <1>4 DEF Receive, Step, Request, Counters
  <2>2. \A y \in Requests \ {x} : requests'[y] = requests[y]
      BY <1>1, <1>4 DEF Receive, Step
  <2> QED
      BY <2>1, <2>2
<1>5. ASSUME NEW x \in Requests, HandlerStep(x), ~Return(x)
      PROVE  FALSE
  <2>1. requests[x] \in Request
      BY <1>1
  <2>2. requests'[x].answer = requests[x].answer
    <3>1. ASSUME NEW outcome \in Results, Serve(x, outcome)
          PROVE  requests'[x].answer = requests[x].answer
        BY <1>1, <2>1, <3>1 DEF Serve, Step, Request, Counters
    <3>2. ASSUME NEW outcome \in Results, TokenFailsEarly(x, outcome)
          PROVE  requests'[x].answer = requests[x].answer
        BY <1>1, <2>1, <3>2 DEF TokenFailsEarly, Step, Request, Counters
    <3>3. ASSUME NEW outcome \in Results, TokenSkyflowReplies(x, outcome)
          PROVE  requests'[x].answer = requests[x].answer
        BY <1>1, <2>1, <3>3 DEF TokenSkyflowReplies, Step, Request, Counters
    <3>4. CASE TokenAsksSkyflow(x)
        BY <1>1, <2>1, <3>4 DEF TokenAsksSkyflow, Step, Request, Counters
    <3>5. CASE RecordTokenGenerate(x)
        BY <1>1, <2>1, <3>5 DEF RecordTokenGenerate, Step, Request, Counters
    <3>6. CASE RecordTokenError(x)
        BY <1>1, <2>1, <3>6 DEF RecordTokenError, Step, Request, Counters
    <3>7. CASE RecordSkyflowSDKCall(x)
        BY <1>1, <2>1, <3>7 DEF RecordSkyflowSDKCall, Step, Request, Counters
    <3>8. CASE auditLog(x)
        BY <1>1, <2>1, <3>8 DEF auditLog, Step, Request, Counters
    <3> QED
        BY <1>5, <3>1, <3>2, <3>3, <3>4, <3>5, <3>6, <3>7, <3>8 DEF HandlerStep
  <2>3. \A y \in Requests \ {x} : requests'[y] = requests[y]
      BY <1>1, <1>5
      DEF HandlerStep, Serve, TokenFailsEarly, TokenSkyflowReplies, TokenAsksSkyflow, auditLog,
          RecordTokenGenerate, RecordTokenError, RecordSkyflowSDKCall, Step
  <2> QED
      BY <2>2, <2>3
<1>6. PICK x \in Requests : Return(x)
    BY <1>1, <1>2, <1>3, <1>4, <1>5 DEF TelemetryNext, telemetryVars
<1>7. x = r /\ backend' = backend
    BY <1>1, <1>6 DEF Return, Step
<1> QED
    BY <1>6, <1>7

\* So a token call is answered with all that Return leaves behind of it.
LEMMA StepsAnswerInFull ==
    TelemetryInv /\ ObservedInv /\ [TelemetryNext]_telemetryVars => CallAnsweredInFull
<1> SUFFICES ASSUME TelemetryInv, ObservedInv, [TelemetryNext]_telemetryVars,
                    NEW r \in Requests,
                    requests[r].answer = "none", requests'[r].answer # "none",
                    requests'[r].asked,
                    backend'[requests'[r].b].pc = "up", backend'[requests'[r].b].shutdown
             PROVE  /\ IsMetricsEnabled(Config) =>
                          {"generate", IF requests'[r].answer = "ok" THEN "sdkCall" ELSE "error"}
                              \subseteq requests'[r].counted
                    /\ IsTracesEnabled(Config) /\ requests'[r].b = first =>
                          /\ requests'[r].span \in {"kept", "unsampled"}
                          /\ requests'[r].sdk = requests'[r].span
    BY DEF CallAnsweredInFull
<1>1. Return(r) /\ backend' = backend
    BY AnswersAreReturns
<1>2. /\ requests[r] \in Request
      /\ requests'[r] = [requests[r] EXCEPT !.pc = "done", !.answer = requests[r].result,
                            !.span = Ended(@, requests[r].b)]
    BY <1>1 DEF Return, Step, TelemetryInv, TelemetryTypeOK
<1>3. requests[r].asked /\ requests'[r].b = requests[r].b
    BY <1>2 DEF Request, Counters
<1> QED
    BY <1>1, <1>3, ReturnsObserved

\* No figure and no trace of a token call is missing when it is answered by a backend that
\* is up.
THEOREM TokenCallsAlwaysObserved == TelemetrySpec => TokenCallsObserved
<1>1. TelemetryInv /\ ObservedInv /\ [TelemetryNext]_telemetryVars =>
          [CallAnsweredInFull]_telemetryVars
    BY StepsAnswerInFull
<1> QED
    BY <1>1, TelemetryInvariance, ObservedInvariance, PTL DEF TelemetrySpec, TokenCallsObserved
=============================================================================
