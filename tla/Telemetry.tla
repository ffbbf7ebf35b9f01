------------------------------ MODULE Telemetry ------------------------------
(***************************************************************************)
(* The life of telemetry in a plugin process: backend.go's Factory and     *)
(* cleanup around telemetry/init.go, and what the handlers of a backend    *)
(* leave behind of each request, by way of telemetry/traces.go, metrics.go *)
(* and auditLog.  What the handlers do to storage is in the other modules; *)
(* here a request has an outcome, whichever.                               *)
(*                                                                         *)
(* OpenTelemetry keeps one tracer provider per process.  A tracer asked    *)
(* for before any provider is installed forwards to the first one that     *)
(* is; asked for later, it is the installed provider's.  newTracesProvider *)
(* asks before InitWithConfig installs the backend's own.                  *)
(* cmd/main.go serves one backend per process; the tests, and a host that  *)
(* embeds the backend, call Factory more than once.                        *)
(*                                                                         *)
(* backend[b].pc:                                                          *)
(*   "new"       Factory has not been called                               *)
(*   "tracer"    own tracer provider running, tracer asked for             *)
(*   "metrics"   traces are settled, about to set up the metrics           *)
(*   "up"        Factory has returned                                      *)
(*   "cleaning"  cleanup has shut the tracer provider down                 *)
(*   "cleaned"   cleanup has returned                                      *)
(*                                                                         *)
(* requests[r].pc:                                                         *)
(*   "new"       not received yet                                          *)
(*   "serving"   the span is started, storage and the rest to come         *)
(*   "sdk"       token: waiting for Skyflow in the span SDK.Auth           *)
(*   "generate"  token: about to call RecordTokenGenerate                  *)
(*   "outcome"   token: about to call RecordTokenError or ...SDKCall       *)
(*   "audit"     token: about to write the audit record                    *)
(*   "closing"   only the deferred span.End() and the return are left      *)
(*   "done"      answered                                                  *)
(***************************************************************************)
EXTENDS TelemetryConfig

CONSTANTS
    Backends,      \* the backends that Factory may create in the process
    Requests,      \* the requests made to them
    Environments,  \* the environments the process may be started in
    Nobody,        \* no backend
    Forwarding     \* OpenTelemetry's default tracer

ASSUME TelemetryAssumption ==
    /\ {Nobody, Forwarding} \cap Backends = {}
    /\ Nobody # Forwarding
    /\ Environments \subseteq Environment

VARIABLES
    environment,  \* the environment of the process
    backend,      \* backend[b]: the telemetry of backend b
    first,        \* whose tracer provider was installed first, or Nobody
    installed,    \* whose tracer provider is the process-wide one, or Nobody
    requests      \* requests[r]: what request r has left behind

telemetryVars == <<environment, backend, first, installed, requests>>

\* "dropped": runs, but Init has lost hold of it and nobody will shut it down.
Provider == {"none", "running", "shutdown", "dropped"}

Backend == [pc: {"new", "tracer", "metrics", "up", "cleaning", "cleaned"},
            tracer: Backends \cup {Nobody, Forwarding},  \* Providers.traces
            traces: Provider,     \* the backend's own tracer provider
            metrics: Provider,    \* ... and meter provider
            shutdown: BOOLEAN]    \* telemetryShutdown # nil

NewBackend == [pc |-> "new", tracer |-> Nobody, traces |-> "none",
               metrics |-> "none", shutdown |-> FALSE]

Kinds == {"token", "configWrite", "configRead", "configDelete",
          "roleWrite", "roleRead", "roleList", "roleDelete", "health"}

\* "off": none was started; "unsampled": not recorded; "open": started;
\* "kept": ended and handed to a running provider; "lost": ended after its
\* provider was shut down; "gone": never ended, the process has died.
Span == {"off", "unsampled", "open", "kept", "lost", "gone"}

Results == {"none", "ok", "rejected", "failed", "notFound"}

\* "request" stands for the counter of each kind of request but "token", which has
\* the other three: tokens generated, SDK calls and tokens failed.
Counters == {"request", "generate", "sdkCall", "error"}

Request == [pc: {"new", "serving", "sdk", "generate", "outcome", "audit", "closing", "done"},
            b: Backends \cup {Nobody},
            kind: Kinds \cup {"none"},
            result: Results,                    \* what the handler will answer ...
            answer: Results,                    \* ... and what its client was told
            span: Span, sdk: Span,              \* the request's span and SDK.Auth
            status: {"unset", "ok", "error"},   \* the status of the first
            counted: SUBSET Counters,
            audit: {"none", "success", "failure"},
            asked: BOOLEAN]                     \* history: Skyflow was called for a token

NewRequest == [pc |-> "new", b |-> Nobody, kind |-> "none", result |-> "none",
               answer |-> "none", span |-> "off", sdk |-> "off",
               status |-> "unset", counted |-> {}, audit |-> "none",
               asked |-> FALSE]

Config == BuildConfig(environment)

\* The backend whose provider takes the spans of backend b.
Sink(b) == IF backend[b].tracer = Forwarding THEN first ELSE backend[b].tracer

SinkRuns(b) == \E s \in Backends : s = Sink(b) /\ backend[s].traces = "running"

Metering(b) == backend[b].metrics = "running"

InFlight(q) == q.pc \notin {"new", "done"}
-----------------------------------------------------------------------------
TelemetryInit ==
    /\ environment \in Environments
    /\ backend = [b \in Backends |-> NewBackend]
    /\ first = Nobody /\ installed = Nobody
    /\ requests = [r \in Requests |-> NewRequest]

(* Factory and InitWithConfig *)

\* UseNoOp or not enabled: no providers, and a shutdown that does nothing.
InitDisabled(b) ==
    /\ backend[b].pc = "new"
    /\ Config.useNoOp \/ ~Config.enabled
    /\ backend' = [backend EXCEPT ![b].pc = "up", ![b].shutdown = TRUE]
    /\ UNCHANGED <<environment, first, installed, requests>>

\* The tracer that OpenTelemetry gives out.
newTracesProvider == IF installed = Nobody THEN Forwarding ELSE installed

\* setupTracerProvider, then newTracesProvider: the backend's own tracer provider
\* runs, but is not installed yet.
SetupTracer(b) ==
    /\ backend[b].pc = "new"
    /\ IsTracesEnabled(Config)
    /\ backend' = [backend EXCEPT ![b].pc = "tracer", ![b].traces = "running",
                      ![b].tracer = newTracesProvider]
    /\ UNCHANGED <<environment, first, installed, requests>>

\* The traces exporter cannot be created: Factory goes on without telemetry.
SetupTracerFails(b) ==
    /\ backend[b].pc = "new"
    /\ IsTracesEnabled(Config)
    /\ backend' = [backend EXCEPT ![b].pc = "up"]
    /\ UNCHANGED <<environment, first, installed, requests>>

SkipTracer(b) ==
    /\ backend[b].pc = "new"
    /\ Config.enabled /\ ~Config.useNoOp /\ ~IsTracesEnabled(Config)
    /\ backend' = [backend EXCEPT ![b].pc = "metrics"]
    /\ UNCHANGED <<environment, first, installed, requests>>

\* otel.SetTracerProvider.
InstallTracer(b) ==
    /\ backend[b].pc = "tracer"
    /\ backend' = [backend EXCEPT ![b].pc = "metrics"]
    /\ installed' = b
    /\ first' = IF first = Nobody THEN b ELSE first
    /\ UNCHANGED <<environment, requests>>

SetupMetrics(b) ==
    /\ backend[b].pc = "metrics"
    /\ IsMetricsEnabled(Config)
    /\ backend' = [backend EXCEPT ![b].pc = "up", ![b].metrics = "running",
                      ![b].shutdown = TRUE]
    /\ UNCHANGED <<environment, first, installed, requests>>

\* The meter provider of a setupMetricsProvider that fails: there is none if its exporter
\* cannot be created, but if an instrument cannot, the provider and its reader run
\* already and are not shut down.
LeftOfMetrics == {"none", "dropped"}

\* Mutant of SetupMetricsFails: the tracer provider is left running.
LeakySetupMetricsFails(b) ==
    /\ backend[b].pc = "metrics"
    /\ IsMetricsEnabled(Config)
    /\ \E metrics \in LeftOfMetrics :
          backend' = [backend EXCEPT ![b].pc = "up", ![b].tracer = Nobody,
                            ![b].metrics = metrics]
    /\ UNCHANGED <<environment, first, installed, requests>>

\* setupMetricsProvider fails: the tracer provider is shut down but stays installed,
\* and Factory goes on without telemetry.
SetupMetricsFails(b) ==
    /\ backend[b].pc = "metrics"
    /\ IsMetricsEnabled(Config)
    /\ \E metrics \in LeftOfMetrics :
          backend' = [backend EXCEPT ![b].pc = "up", ![b].tracer = Nobody,
                            ![b].traces = IF @ = "running" THEN "shutdown" ELSE @,
                            ![b].metrics = metrics]
    /\ UNCHANGED <<environment, first, installed, requests>>

SkipMetrics(b) ==
    /\ backend[b].pc = "metrics"
    /\ ~IsMetricsEnabled(Config)
    /\ backend' = [backend EXCEPT ![b].pc = "up", ![b].shutdown = TRUE]
    /\ UNCHANGED <<environment, first, installed, requests>>

(* cleanup, when Vault unmounts the backend; nothing waits for the handlers
   that are still running *)

\* Mutant of ShutdownTraces: the provider behind the backend's tracer is shut down.
SharedShutdownTraces(b) ==
    /\ backend[b].pc = "up"
    /\ backend' = [s \in Backends |->
          [backend[s] EXCEPT
              !.pc = IF s = b THEN "cleaning" ELSE @,
              !.traces = IF backend[b].shutdown /\ s \in {b, Sink(b)} /\ @ = "running"
                         THEN "shutdown" ELSE @]]
    /\ UNCHANGED <<environment, first, installed, requests>>

\* The first half of the shutdown function: an error is kept for later ...
ShutdownTraces(b) ==
    /\ backend[b].pc = "up"
    /\ backend' = [backend EXCEPT ![b].pc = "cleaning",
                      ![b].traces = IF backend[b].shutdown /\ @ = "running"
                                    THEN "shutdown" ELSE @]
    /\ UNCHANGED <<environment, first, installed, requests>>

\* ... and the second half runs all the same.
ShutdownMetrics(b) ==
    /\ backend[b].pc = "cleaning"
    /\ backend' = [backend EXCEPT ![b].pc = "cleaned",
                      ![b].metrics = IF backend[b].shutdown /\ @ = "running"
                                     THEN "shutdown" ELSE @]
    /\ UNCHANGED <<environment, first, installed, requests>>

\* The process dies, or Vault reloads the plugin: everything is to be set up
\* again, handlers vanish and their clients are told of a failure.
ProcessExits ==
    /\ \E b \in Backends : backend[b].pc # "new"
    /\ backend' = [b \in Backends |-> NewBackend]
    /\ first' = Nobody /\ installed' = Nobody
    /\ requests' = [r \in Requests |->
          IF ~InFlight(requests[r]) THEN requests[r]
          ELSE [requests[r] EXCEPT !.pc = "done", !.answer = "failed",
                   !.span = IF @ = "open" THEN "gone" ELSE @,
                   !.sdk = IF @ = "open" THEN "gone" ELSE @]]
    /\ UNCHANGED environment
-----------------------------------------------------------------------------
(* The handlers *)

\* The spans that a Start method may return for backend b.
Started(b) == IF backend[b].tracer = Nobody THEN {"off"}
              ELSE {IF sampled THEN "open" ELSE "unsampled" :
                       sampled \in buildSampler(Config.sampleRate)}

\* span.End()
Ended(span, b) == IF span # "open" THEN span
                  ELSE IF SinkRuns(b) THEN "kept" ELSE "lost"

Count(b, counters) == IF Metering(b) THEN counters ELSE {}

Step(r, q) == /\ requests' = [requests EXCEPT ![r] = q]
              /\ UNCHANGED <<environment, backend, first, installed>>

\* Every handler starts a span; reads of the configuration and of a role are
\* counted before they are attempted.
Receive(r, b, kind) ==
    /\ requests[r].pc = "new"
    /\ backend[b].pc = "up"
    /\ \E span \in Started(b) :
          Step(r, [requests[r] EXCEPT
                      !.pc = "serving", !.b = b, !.kind = kind, !.span = span,
                      !.counted = IF kind \in {"configRead", "roleRead"}
                                  THEN Count(b, {"request"}) ELSE {}])

\* How the handlers other than the token handler may end.  A failed health check
\* is "failed" here although its client gets a response.
Outcomes(kind) ==
    {"ok", "failed"}
        \cup (IF kind \in {"configWrite", "roleWrite"} THEN {"rejected"} ELSE {})
        \cup (IF kind \in {"configRead", "roleRead", "health"} THEN {"notFound"} ELSE {})

\* Writes are counted once they have succeeded, health checks always, deletes and
\* lists never.
CountedAtEnd(kind, outcome) ==
    \/ kind \in {"configWrite", "roleWrite"} /\ outcome = "ok"
    \/ kind = "health"

Status(result) == IF result \in {"ok", "notFound"} THEN "ok" ELSE "error"

\* The rest of a handler other than the token handler, up to its return.
Serve(r, outcome) ==
    /\ requests[r].pc = "serving"
    /\ requests[r].kind # "token" /\ outcome \in Outcomes(requests[r].kind)
    /\ Step(r, [requests[r] EXCEPT
                   !.pc = "closing", !.result = outcome, !.status = Status(outcome),
                   !.counted = IF CountedAtEnd(requests[r].kind, outcome)
                               THEN @ \cup Count(requests[r].b, {"request"}) ELSE @])

\* pathTokenRead: no role, no configuration ("rejected"), or a storage error.
TokenFailsEarly(r, outcome) ==
    /\ requests[r].pc = "serving" /\ requests[r].kind = "token"
    /\ outcome \in {"rejected", "failed"}
    /\ Step(r, [requests[r] EXCEPT !.pc = "closing", !.result = outcome, !.status = "error"])

\* StartSDKAuth; a trace is sampled as a whole.
TokenAsksSkyflow(r) ==
    /\ requests[r].pc = "serving" /\ requests[r].kind = "token"
    /\ Step(r, [requests[r] EXCEPT !.pc = "sdk", !.sdk = requests[r].span, !.asked = TRUE])

\* Mutant of TokenSkyflowReplies: the span SDK.Auth is ended on success only.
UnendedSkyflowReplies(r, outcome) ==
    /\ requests[r].pc = "sdk"
    /\ outcome \in {"ok", "rejected"}
    /\ Step(r, [requests[r] EXCEPT
                   !.pc = "generate", !.result = outcome, !.status = Status(outcome),
                   !.sdk = IF outcome = "ok" THEN Ended(@, requests[r].b) ELSE @])

\* generateToken has returned: SDK.Auth is ended and the outer status is set.
TokenSkyflowReplies(r, outcome) ==
    /\ requests[r].pc = "sdk"
    /\ outcome \in {"ok", "rejected"}
    /\ Step(r, [requests[r] EXCEPT
                   !.pc = "generate", !.result = outcome, !.status = Status(outcome),
                   !.sdk = Ended(@, requests[r].b)])

\* Mutant of RecordTokenGenerate: the second counter goes first.
SwappedRecordTokenGenerate(r) ==
    /\ requests[r].pc = "generate"
    /\ Step(r, [requests[r] EXCEPT
                   !.pc = "outcome",
                   !.counted = @ \cup Count(requests[r].b,
                       {IF requests[r].result = "ok" THEN "sdkCall" ELSE "error"})])

RecordTokenGenerate(r) ==
    /\ requests[r].pc = "generate"
    /\ Step(r, [requests[r] EXCEPT
                   !.pc = "outcome", !.counted = @ \cup Count(requests[r].b, {"generate"})])

\* Mutant of RecordTokenError: a refused request is not audited.
UnauditedTokenError(r) ==
    /\ requests[r].pc = "outcome" /\ requests[r].result = "rejected"
    /\ Step(r, [requests[r] EXCEPT
                   !.pc = "closing", !.counted = @ \cup Count(requests[r].b, {"error"})])

RecordTokenError(r) ==
    /\ requests[r].pc = "outcome" /\ requests[r].result = "rejected"
    /\ Step(r, [requests[r] EXCEPT
                   !.pc = "audit", !.counted = @ \cup Count(requests[r].b, {"error"})])

\* Only calls that succeeded are counted: the figure for failed ones,
\* RecordSkyflowSDKCallError, is called nowhere.
RecordSkyflowSDKCall(r) ==
    /\ requests[r].pc = "outcome" /\ requests[r].result = "ok"
    /\ Step(r, [requests[r] EXCEPT
                   !.pc = "audit", !.counted = @ \cup Count(requests[r].b, {"sdkCall"})])

\* Mutant of auditLog: the success flag is never cleared.
AlwaysSuccessAuditLog(r) ==
    /\ requests[r].pc = "audit"
    /\ Step(r, [requests[r] EXCEPT !.pc = "closing", !.audit = "success"])

auditLog(r) ==
    /\ requests[r].pc = "audit"
    /\ Step(r, [requests[r] EXCEPT
                   !.pc = "closing",
                   !.audit = IF requests[r].result = "ok" THEN "success" ELSE "failure"])

\* The deferred span.End() runs and the answer is sent.
Return(r) ==
    /\ requests[r].pc = "closing"
    /\ Step(r, [requests[r] EXCEPT
                   !.pc = "done", !.answer = requests[r].result,
                   !.span = Ended(@, requests[r].b)])

FactoryStep(b) ==
    \/ InitDisabled(b)
    \/ SetupTracer(b) \/ SetupTracerFails(b) \/ SkipTracer(b) \/ InstallTracer(b)
    \/ SetupMetrics(b) \/ SetupMetricsFails(b) \/ SkipMetrics(b)

CleanupStep(b) == ShutdownTraces(b) \/ ShutdownMetrics(b)

HandlerStep(r) ==
    \/ \E outcome \in Results : \/ Serve(r, outcome) \/ TokenFailsEarly(r, outcome)
                                \/ TokenSkyflowReplies(r, outcome)
    \/ TokenAsksSkyflow(r)
    \/ RecordTokenGenerate(r) \/ RecordTokenError(r) \/ RecordSkyflowSDKCall(r)
    \/ auditLog(r) \/ Return(r)

TelemetryNext ==
    \/ \E b \in Backends : FactoryStep(b) \/ CleanupStep(b)
    \/ \E r \in Requests, b \in Backends, kind \in Kinds : Receive(r, b, kind)
    \/ \E r \in Requests : HandlerStep(r)
    \/ ProcessExits

TelemetrySpec == TelemetryInit /\ [][TelemetryNext]_telemetryVars
-----------------------------------------------------------------------------
(* Properties *)

TelemetryTypeOK ==
    /\ environment \in Environment
    /\ Config \in ResolvedConfig
    /\ backend \in [Backends -> Backend]
    /\ first \in Backends \cup {Nobody} /\ installed \in Backends \cup {Nobody}
    /\ requests \in [Requests -> Request]

\* The guardrail of docs/architecture.md:114: a process whose environment switches
\* telemetry, or one of its signals, off starts no provider for it and no request
\* leaves a span or moves a counter, whatever else the environment says.
OffMeansOff ==
    /\ TracesSwitchedOff(environment) =>
          /\ \A b \in Backends : backend[b].traces = "none"
          /\ \A r \in Requests : requests[r].span = "off" /\ requests[r].sdk = "off"
    /\ MetricsSwitchedOff(environment) =>
          /\ \A b \in Backends : backend[b].metrics = "none"
          /\ \A r \in Requests : requests[r].counted = {}

\* config.go:105, "RUNTIME_LOCAL is ignored for safety": in cug and prod a backend
\* whose Init has succeeded observes both signals, unless a switch of their own
\* turned them off; no endpoint need be configured for it.
ProductionObserved ==
    environment.ENV \in {"cug", "prod"} =>
        \A b \in Backends : backend[b].pc = "up" /\ backend[b].shutdown =>
            /\ ~TracesSwitchedOff(environment) => backend[b].traces = "running"
            /\ ~MetricsSwitchedOff(environment) => backend[b].metrics = "running"

\* Spans and figures leave the process without TLS only if the operator has asked
\* for it, by the flag of that signal or by the scheme of its endpoint.
ClearOnlyIfAsked ==
    /\ tracesInTheClear(Config) /\ (\E b \in Backends : backend[b].traces = "running")
          => TracesClearAsked(environment)
    /\ metricsInTheClear(Config)
       /\ (\E b \in Backends : backend[b].metrics \in {"running", "dropped"})
          => MetricsClearAsked(environment)

\* A trace is left out only if the operator has asked for a rate below 100 percent
\* (or for a NaN), and recorded only if not asked for 0: an unset, misspelt or
\* out-of-range TELEMETRY_SAMPLE_RATE neither silences nor floods a backend.
SampledAsAsked ==
    LET asked == environment.TELEMETRY_SAMPLE_RATE
    IN  \A r \in Requests :
            /\ requests[r].span = "unsampled" => asked = NaN \/ (asked \in Int /\ asked < 100)
            /\ requests[r].span \in {"open", "kept", "lost", "gone"} /\ asked \in Int => asked > 0

\* A tracer provider that runs, and a meter provider that Init has returned, is still
\* known to somebody who will shut it down: Init, which is not finished, or the cleanup
\* to come.  A failed Init leaves no tracer provider running ("Cleanup tracer if metrics
\* fail", init.go:82), whatever else it leaves: a meter provider whose instruments could
\* not be created is not held by anybody ("dropped").
NoOrphanTracers ==
    \A b \in Backends :
        /\ backend[b].traces = "running" =>
              \/ backend[b].pc \in {"tracer", "metrics"}
              \/ backend[b].pc = "up" /\ backend[b].shutdown
        /\ backend[b].metrics = "running" =>
              backend[b].pc \in {"up", "cleaning"} /\ backend[b].shutdown

\* The backend whose provider OpenTelemetry saw first keeps its spans to its own
\* cleanup: no failed Init and no cleanup of another backend loses one of them.
\* (A backend that came later feeds the first one's provider and has no such
\* promise.)
LosesSpan(q, next) ==
    \/ q.span # "lost" /\ next.span = "lost"
    \/ q.sdk # "lost" /\ next.sdk = "lost"

FirstLosesNothingEarly ==
    \A r \in Requests, b \in Backends :
        requests[r].b = b /\ first = b /\ LosesSpan(requests[r], requests'[r])
            => backend[b].pc \in {"cleaning", "cleaned"}

FirstKeepsItsSpans == [][FirstLosesNothingEarly]_telemetryVars

\* The trace of a request is whole: nothing stays open once it is answered, and if
\* its span was handed over then so was the SDK.Auth span under it, also when a
\* cleanup came between the two ends.
TracesWhole ==
    \A r \in Requests : requests[r].pc = "done" =>
        /\ "open" \notin {requests[r].span, requests[r].sdk}
        /\ requests[r].span = "kept" /\ requests[r].asked => requests[r].sdk = "kept"

\* The figures of token requests nest: every refusal and every SDK call that is
\* counted is counted as a token request too, also when the meter provider is shut
\* down between the two calls.
FiguresNest ==
    \A r \in Requests :
        requests[r].counted \cap {"sdkCall", "error"} # {} => "generate" \in requests[r].counted

\* Nothing is missing of a token call.  A token request that has asked Skyflow, and is
\* answered while its backend is up, its Init having succeeded, has been counted as a
\* token request and by its outcome; and if its backend's provider was installed first,
\* both of its spans are kept, or both are left out by the sampler.  What happens to
\* other backends of the process meanwhile makes no difference.  (Token requests that
\* fail before Skyflow is asked, deletes, lists and failed writes move no counter.)
CallAnsweredInFull ==
    \A r \in Requests : LET q == requests'[r] IN
        /\ requests[r].answer = "none" /\ q.answer # "none" /\ q.asked
        /\ backend'[q.b].pc = "up" /\ backend'[q.b].shutdown
        => /\ IsMetricsEnabled(Config) =>
                 {"generate", IF q.answer = "ok" THEN "sdkCall" ELSE "error"} \subseteq q.counted
           /\ IsTracesEnabled(Config) /\ q.b = first =>
                 q.span \in {"kept", "unsampled"} /\ q.sdk = q.span

TokenCallsObserved == [][CallAnsweredInFull]_telemetryVars

\* Whatever becomes of telemetry, no token call is answered for without an audit
\* record: a token reaches its client, and the refusal of one by Skyflow too, only
\* after the record has been written.  (The calls that validate the credential of a
\* config write, path_config.go:136, are not audited.)
AnsweredCallsAudited ==
    \A r \in Requests :
        /\ requests[r].kind = "token" /\ requests[r].answer = "ok" => requests[r].asked
        /\ requests[r].asked /\ requests[r].answer = "ok" => requests[r].audit = "success"
        /\ requests[r].asked /\ requests[r].answer = "rejected" => requests[r].audit = "failure"

\* What is left behind of a token request does not contradict itself: span status,
\* counters, audit record and answer name the same outcome; only a process that
\* dies may have told its client of a failure instead.
RecordsAgree ==
    \A r \in Requests :
        /\ "sdkCall" \in requests[r].counted \/ requests[r].audit = "success" =>
              /\ requests[r].status = "ok" /\ "error" \notin requests[r].counted
              /\ requests[r].answer \in {"none", "ok", "failed"}
        /\ "error" \in requests[r].counted \/ requests[r].audit = "failure" =>
              /\ requests[r].status = "error" /\ requests[r].audit # "success"
              /\ requests[r].answer \in {"none", "rejected", "failed"}
-----------------------------------------------------------------------------
(* The inductive invariant *)

\* How far Factory and cleanup have come says which providers there are; cfg is the
\* resolved configuration.
ProvidersInPhase(c, cfg) ==
    /\ c.tracer # Nobody \/ c.traces # "none" => IsTracesEnabled(cfg)
    /\ c.metrics # "none" => IsMetricsEnabled(cfg)
    /\ c.pc = "new" => c = NewBackend
    /\ c.pc = "tracer" => c.traces = "running" /\ c.tracer # Nobody
    /\ c.pc = "metrics" /\ IsTracesEnabled(cfg) => c.traces = "running"
    /\ c.pc \in {"tracer", "metrics"} => c.metrics = "none" /\ ~c.shutdown
    /\ c.pc = "up" /\ c.shutdown =>
          /\ IsTracesEnabled(cfg) => c.traces = "running"
          /\ IsMetricsEnabled(cfg) => c.metrics = "running"
    /\ c.pc \in {"up", "cleaning", "cleaned"} /\ ~c.shutdown =>
          c.tracer = Nobody /\ c.traces # "running" /\ c.metrics \in {"none", "dropped"}
    /\ c.pc \in {"cleaning", "cleaned"} => c.traces # "running"
    /\ c.pc = "cleaned" => c.metrics # "running"

\* Nothing is installed before the first provider is; who asked for a tracer before
\* that, the first one included, forwards to it; who asked later has the tracer of a
\* provider that was installed.
TracersResolve ==
    /\ installed = Nobody <=> first = Nobody
    /\ \A s \in {first, installed} \ {Nobody} :
          backend[s].pc \notin {"new", "tracer"} /\ backend[s].traces # "none"
    /\ \A b \in Backends :
          /\ first \in {Nobody, b} => backend[b].tracer \in {Nobody, Forwarding}
          /\ backend[b].tracer \in Backends => backend[backend[b].tracer].traces # "none"
          /\ backend[b].tracer # Nobody /\ backend[b].pc # "tracer" => first # Nobody

\* What a request has left behind follows from how far it has come: spans ...
SpansInPhase(q) ==
    /\ q.pc \in {"new", "serving"} => ~q.asked
    /\ q.pc \in {"sdk", "generate", "outcome", "audit"} => q.asked
    /\ InFlight(q) => q.b \in Backends /\ q.span \in {"off", "unsampled", "open"}
    /\ ~q.asked => q.sdk = "off"
    /\ q.asked => q.kind = "token"
    /\ q.pc = "sdk" => q.sdk = q.span
    /\ q.pc # "sdk" => q.sdk # "open"
    /\ q.asked /\ q.pc # "sdk" /\ q.span = "open" => q.sdk \in {"kept", "lost"}

\* ... and the counters, the audit record and the answer.
RecordsInPhase(q) ==
    /\ q.pc # "done" => q.answer = "none"
    /\ q.pc \in {"new", "serving", "sdk"} =>
          q.result = "none" /\ q.audit = "none" /\ q.counted \subseteq {"request"}
    /\ q.pc \in {"generate", "outcome", "audit"} =>
          q.result \in {"ok", "rejected"} /\ q.audit = "none"
    /\ q.pc = "generate" => q.counted \subseteq {"request"}
    /\ q.pc = "outcome" => q.counted \subseteq {"request", "generate"}
    /\ q.pc = "closing" /\ q.asked => \/ q.result = "ok" /\ q.audit = "success"
                                      \/ q.result = "rejected" /\ q.audit = "failure"
    /\ q.kind = "token" /\ q.result = "ok" => q.asked
    /\ q.result # "none" => q.status = Status(q.result)
    /\ q.audit = "success" \/ "sdkCall" \in q.counted => q.result = "ok"
    /\ q.audit = "failure" \/ "error" \in q.counted => q.result = "rejected"
    /\ q.answer \in {"none", "failed", q.result}
    /\ q.answer \in {"ok", "rejected"} /\ q.asked =>
          q.audit = IF q.answer = "ok" THEN "success" ELSE "failure"

\* ... and they agree with the configuration, and with the providers of its backend.
RequestObserved(q) ==
    /\ q.span # "off" \/ q.sdk # "off" => IsTracesEnabled(Config)
    /\ q.span = "unsampled" => FALSE \in buildSampler(Config.sampleRate)
    /\ q.span \in {"open", "kept", "lost", "gone"} => TRUE \in buildSampler(Config.sampleRate)
    /\ q.counted # {} => IsMetricsEnabled(Config)
    /\ InFlight(q) => backend[q.b].pc \in {"up", "cleaning", "cleaned"}
    /\ InFlight(q) /\ q.span = "open" => backend[q.b].tracer # Nobody
    /\ q.pc = "outcome" /\ Metering(q.b) => "generate" \in q.counted
    /\ InFlight(q) /\ q.sdk = "lost" => ~SinkRuns(q.b)

TelemetryInv ==
    /\ TelemetryTypeOK
    /\ \A b \in Backends : ProvidersInPhase(backend[b], Config)
    /\ TracersResolve
    /\ \A r \in Requests : /\ SpansInPhase(requests[r])
                           /\ RecordsInPhase(requests[r])
                           /\ RequestObserved(requests[r])
    /\ FiguresNest /\ TracesWhole

\* The figures that a request has moved by now, if the meter provider of its backend
\* has been running all the time.
FiguresSoFar(q) ==
    {c \in Counters :
        IF q.kind = "token"
        THEN /\ q.asked
             /\ \/ c = "generate" /\ q.pc \in {"outcome", "audit", "closing"}
                \/ /\ c = IF q.result = "ok" THEN "sdkCall" ELSE "error"
                   /\ q.pc \in {"audit", "closing"}
        ELSE /\ c = "request"
             /\ \/ q.kind \in {"configRead", "roleRead"}
                \/ q.pc = "closing" /\ CountedAtEnd(q.kind, q.result)}

\* Nothing is missing of a request in flight as long as its backend is up: needed
\* for TokenCallsObserved.
ObservedSoFar(q) ==
    /\ InFlight(q) /\ q.asked /\ q.pc # "sdk" /\ q.span # "open" => q.sdk = q.span
    /\ InFlight(q) /\ backend[q.b].pc = "up" /\ backend[q.b].shutdown =>
          /\ IsMetricsEnabled(Config) => q.counted = FiguresSoFar(q)
          /\ IsTracesEnabled(Config) => q.span # "off"

ObservedInv ==
    /\ \A b \in Backends : backend[b].traces = "running" => backend[b].tracer # Nobody
    /\ \A r \in Requests : ObservedSoFar(requests[r])
=============================================================================
