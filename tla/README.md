# The Skyflow secrets engine for Vault, in TLA+

`vault-plugin-secrets-skyflow` is a Vault secrets engine. An operator mounts it,
stores one Skyflow service-account credential under `config`, defines roles, and
services read `creds/<role>` to get a short-lived Skyflow bearer token. This
directory holds a formal model of the engine, the TLC runs that check it on small
instances, and TLAPS proofs of what matters most for every size.

The plugin holds no lock and caches nothing: every request is served by its own
goroutine, straight from storage. What makes it hard is therefore what happens
*between* two storage calls of one request, and while a request waits for the
Skyflow SDK.

## 1. Inventory

| Part | Source | State | Operations |
|---|---|---|---|
| Configuration | `backend/config.go`, `backend/path_config.go` | storage entry `config`; entries `config_history/<version>` | existence check, create/update, read, delete |
| Roles | `backend/role.go`, `backend/path_roles.go` | storage entries `role/<name>` | existence check, create/update, read, list, delete |
| Tokens | `backend/path_token.go` | none | read |
| Health | `backend/path_health.go` | none | read |
| Backend | `backend/backend.go` | the telemetry providers of the mount | Factory, invalidate (logs only), cleanup |
| Telemetry configuration | `backend/telemetry/config.go`, `constants.go` | none: a function of the environment | BuildConfig |
| Telemetry life cycle | `backend/telemetry/init.go` | the process-wide OpenTelemetry providers | set up, shut down |
| Traces and metrics | `backend/telemetry/traces.go`, `metrics.go` | spans, counters, histograms | one recorder per event of a handler |
| Plugin process | `cmd/main.go`, `examples/inmemory/main.go` | none | serve the Factory |

**How they interact.** Vault's plugin framework asks a path's existence check,
then dispatches create or update by its answer; the two are separate storage
reads. Handlers call `logical.Storage` (Get, Put, Delete, List) and, in
`validateCredentials` and `generateToken`, the Skyflow SDK, with no lock held
and, for the SDK, without the request's context. The token handler reads a role
and then the configuration. All handlers call telemetry, which never decides what
they do. Storage is the only state that the paths of one mount share; the
OpenTelemetry providers are shared by all the mounts of a process.

**Which behaviours are hard.**

* Requests interleave at every storage call. An update saves the merge of its
  input into what it *loaded*, over what is *stored by then*.
* An update may wait for Skyflow between its load and its save, for as long as
  Skyflow likes. A delete or a rotation may happen in the meantime.
* Create or update is decided before the handler runs. A "create" that comes
  after another create starts again from the defaults.
* A save of the configuration is two Puts. The first may succeed alone: the second
  may fail (only a warning is logged) or the process may die between them.
* A Put that returns an error may have been applied.
* A delete restarts the version numbers, and with them the history keys.
* A request's deadline can pass while Skyflow is being asked.
* OpenTelemetry has one tracer provider per process, and a backend asks for its tracer
  before it installs its own provider. A failed start leaves a provider installed that
  has been shut down, and perhaps a meter provider running that nobody holds; and a cleanup does not wait for the handlers that are still
  running. (`cmd/main.go` serves one mount per process; the tests and a host that embeds
  the backend call `Factory` more than once.)
* A token request leaves its traces in five places (two spans, two counters, an
  audit record) one after the other; a cleanup or a crash may come between any two.

**What makes each part correct.**

* *Configuration.* At any time, the stored configuration has exactly one credential
  source, and its credential was accepted by Skyflow unless somebody waived that.
  A missing history entry can always be accounted for. A removed credential does
  not come back by itself. A save nobody overtook is an atomic update; when operators
  write one at a time, no update is lost and the history tells the truth.
* *Roles.* A stored role names itself, grants exactly one Skyflow role ID, and its
  times make sense. Only a request to a role changes what that role grants.
* *Tokens.* A token has exactly one role ID, granted by the role when the token was asked
  for, and is signed with a vetted credential. A credential that has been cut off signs
  nothing for requests that arrive later. Requests are answered, and one hung call
  to Skyflow delays nobody else.
* *Health.* A healthy verdict means that a credential of the reported type has been vetted.
* *Telemetry.* Its switches mean what they say in every combination, and production
  is never blinded by a developer's switch. A tracer provider that runs, and a meter
  provider that has been set up, has somebody to shut it down. Spans, counters, audit
  record and answer of a token request name the same outcome, and Skyflow's reply to a
  token call is not passed on before it has been audited. No figure and no span of a token
  call is missing while its backend is up.

## 2. Modules

```
Storage            the storage view: faults, values shared by the paths
  ConfigPath       config path          ConfigPath_proofs     MCConfigPath
    SerialConfig   ... and its operators      SerialConfig_proofs
  RolePath         roles paths          RolePath_proofs       MCRolePath
    SerialRoles    ... and their operators    SerialRoles_proofs
    TokenPath      creds path, over both
  HealthPath       health path
      SkyflowBackend   one mount        SkyflowBackend_proofs MCSkyflowBackend
AtMostOnce         what a path promises: instantiated by ConfigPath and RolePath
TokenService       what the mount promises about tokens: instantiated by SkyflowBackend
TelemetryConfig    BuildConfig, and what the exporters and the sampler make of it
  Telemetry        Factory, cleanup, handlers   Telemetry_proofs  MCTelemetry
```

`Storage` says what a storage call may do; it has no variable of its own, since
each entry is a variable of the path that owns it. `StorageFaults` switches
errors on. A failed Put or Delete is applied or not (`Outcome`).

`ConfigPath`. `config` and `history` are the storage entries; `creq[r]` is the
local state of the goroutine that serves request `r`. Its `pc` says where the
goroutine stands; one action is one stretch of code from one storage or SDK call
to the next, so that every interleaving the code allows is a behaviour:

| Action | Code |
|---|---|
| `ConfigExistenceCheck` | `pathConfigExistenceCheck`, then Vault's dispatch |
| `ConfigReject`, `ConfigLoad` | `pathConfigWrite` from the load to `validate()` (`Merge`, `Valid`) |
| `CredentialsAccepted`, `CredentialsRefused` | `validateCredentials` |
| `ConfigSave`, `ConfigSaveFails` | `saveConfigWithHistory` up to `saveConfig`'s Put |
| `ConfigSaveHistory`, `ConfigHistoryFails` | the history Put, then the answer |
| `ConfigRead`, `ConfigDelete`, `ConfigDeleteFails` | `pathConfigRead`, `pathConfigDelete` |
| `ConfigGetFails` | an error of `getConfig`, anywhere |
| `ConfigCrash` | the process dies; storage stays |

`RolePath` has the same shape, with a clock `now`, because roles carry creation
and update times: `UpdatedAt` is read before the Put, so a role may be stored with
a time that has passed (`RoleSave` picks any time since the load).

`TokenPath` adds `treq[t]`: the token handler reads a role (`TokenRole`,
`TokenRoleMissing`), the configuration (`TokenConfig`, `TokenUnconfigured`), and
asks Skyflow (`TokenIssued`, `TokenRefused`); `TokenExpire` is the deadline of its
context. A token is abstracted to what decides its authority: the credential that
signed it and the role IDs it is scoped to.

`HealthPath` is one read of the configuration with three outcomes; `hreq[h]` is what
request `h` was told.

`SkyflowBackend` composes the four: every step is a step of one path, or a
`Crash` of them all. It states the fairness and the liveness properties.

`SerialConfig` and `SerialRoles` are the same paths with operators who may keep to a rule
that the plugin does not enforce. The constant variable `operators` says which: "any" is
none, "serial" means that a write is sent only after the one before (to the same role) has
been answered, "keeping" that the configuration is never deleted either. Under "serial",
reads and deletes still come at any moment, in the middle of a write too, and everything
may fail. The two modules say how much of what the code's comments promise is lost to
overlapping writes alone, and how much to deletes.

`AtMostOnce` is the abstract specification of a path: entries `store[k]` and requests in a
`phase`. It says that each request changes at most one entry, at most once, between its
receipt and its answer, and to a value the path accepts; and that an answer with an
error of the request means that it has changed nothing, while a failure leaves that open.
`ConfigStore` and `RoleStore` are its instances under a refinement mapping: the
configuration is a single entry, the phase of a request follows from its `pc` and its
answer. In the config path the change is visible one step before the answer (`applied`,
between the two Puts); in the roles paths the two are one step.

`TokenService` is the abstract specification of the mount as those who get tokens see it,
and Skyflow: which credentials are `usable`, what each role has `granted`, and how far each
request (`ask`) has come. It knows nothing of storage, of two reads or of the order of
steps. A token is scoped to what its role granted when the request was received, and
signed with a credential that was usable at some moment since. Under the mapping
(`TokenStore`), usable credentials are those stored or still held by a write in flight, and
those that may sign for a request are all that are not in its `dead`.

`TelemetryConfig` has no variables. An environment is a record with a field for every
variable that `BuildConfig` reads, with texts abstracted to what the code tells apart (an
endpoint, for instance, by the scheme it begins with, since the prefix test of
`BuildConfig` is case-sensitive and `url.Parse` is not). Next to the operators of the
code it says what the operator *asked for*, without the code's priorities
(`SwitchedOff`, `TracesClearAsked`, ...); the properties relate the two.

`Telemetry` has the life of several backends in one process. `backend[b]` is what
`InitWithConfig` returned to Factory, `first` and `installed` are the state of
OpenTelemetry, `requests[r]` is what a request has left behind so far:

| Action | Code |
|---|---|
| `InitDisabled` | `InitWithConfig`, `UseNoOp` or not enabled |
| `SetupTracer`, `SetupTracerFails`, `SkipTracer` | `setupTracerProvider` and `newTracesProvider` |
| `InstallTracer` | `otel.SetTracerProvider`, a step of its own because another mount may be between the two |
| `SetupMetrics`, `SetupMetricsFails`, `SkipMetrics` | `setupMetricsProvider`, and the end of Factory; `LeftOfMetrics` is what a failure leaves of the meter provider: none, or one that runs and is dropped |
| `ShutdownTraces`, `ShutdownMetrics` | the two halves of the shutdown function, in `cleanup` |
| `ProcessExits` | the process dies or is reloaded; requests in flight are answered for it by Vault |
| `Receive`, `Serve` | every handler but the token handler |
| `TokenFailsEarly` ... `auditLog` | `pathTokenRead`, one action for each record it leaves |
| `Return` | the deferred `span.End()` and the answer |

What OpenTelemetry does is assumed, from how the code uses it: a tracer asked for before
any provider is installed forwards to the first that is; one asked for later belongs to
the installed provider; a span that is ended after its provider was shut down is lost; a
provider that was shut down does not come back; a span is sampled with its trace. That a
span handed to a running provider also reaches the collector is not modelled.
The storage modules and the telemetry modules are not composed: the handlers ignore what
telemetry does, so a request has "an outcome" in the latter, and leaves nothing to
telemetry in the former.

**Abstractions.** A credential is a model value; two names of the same file are two
values, and the contents of a file are not modelled (the plugin does not look at
them). Tags travel with the description. `LastUpdated` is written and never read
by a decision. A request that reads, deletes or lists takes one step, because it
makes one storage call. Requests are served once: the number of requests bounds a
run, and the proofs hold for any set of them.

**History variables.** `asked` in `Telemetry`, `accepted`, `waived`, `reported`, a request's `base` and a
token request's `dead` are written by the actions and read by properties only.
They record what the code does not remember: whether Skyflow was called, which credentials it accepted,
which were supplied with `validate_credentials=false`, which versions somebody was
told about, which configuration a request started from, and which credentials were
neither stored nor in flight when a token was asked for.

**Operators called "Mutant of ..."** are what a plausible bug would make of the
definition that follows them. They are not part of any specification. Putting one
in the place of its original makes TLC find the property named in `PROJECT.json`
violated, which shows that the property depends on the code.

## 3. Runs

| Run | Bounds | States | Shows |
|---|---|---|---|
| `config` | 3 requests, 1 file, 1 good and 1 malformed document, 2 descriptions, faults, crashes, the three kinds of operators | 754 k | all the properties of the configuration, and that it implements `AtMostOnce` |
| `roles` | 3 requests, 2 roles, 2 IDs, 2 descriptions, clock up to 2, faults, crashes, both kinds of operators | 401 k | all the properties of the roles, and that they implement `AtMostOnce` |
| `mount` | 2 config, 2 role and 1 token request, 2 credentials, 2 IDs, faults, crashes | 792 k | tokens are scoped, vetted and authorised as `TokenService` says; the cut-off |
| `liveness` | 1 config, 1 role, 2 token and 1 health request, faults, crashes | 76 k | a hung call holds up nobody else; every request is answered; a healthy mount has been vetted |
| `telemetry` | 2 backends in a process, 1 request of any kind, 16 environments, failing exporters and instruments, cleanups, process exits | 874 k | all the properties of telemetry |
| `history_race` | 2 requests, no faults, no crashes | | finding 1 |
| `history_rewritten` | 3 requests, one write in flight | | finding 2 |
| `role_removal` | 3 requests, 1 role, no faults | | finding 3 |
| `cut_off` | 2 config, 1 role and 1 token request | | finding 4 |
| `cancellation` | 1 config, 1 role and 1 token request, fair | | finding 5 |
| `health` | 1 request of each kind, no faults | | finding 6 |
| `sample_rate` | 1 backend, 8 texts for the rate | | finding 7 |

*Why the bounds are enough to be interesting.* Two writers can race; a third
request is what deletes or rotates while two others race, or what checks that a
removed credential comes back only when asked for. Two credentials make a
rotation; a malformed document makes `validate` fail on its parse alone. Two role
names let a save land under the wrong name; two role IDs let a list be too long
and a grant be changed. A clock up to 2 gives creation, update and a time in
between. In `mount`, a token request meets a rotation or a delete
of the configuration while a write with the other credential is in flight, a credential that is
refused and supplied again, and a role whose grant changes or goes between its reads;
three config requests in a row are `config`'s business. Each write body in `MCConfigWrites` and
`MCRoleWrites` is one that clients can send. In the former each credential source is
supplied, emptied or left out; in the latter `role_ids` names none, one or two IDs or is
left out; descriptions are supplied or left out. Bodies with an emptied description are not
among them, and of those that supply both sources only the one with well-formed values
and no description is, with and without validation; the proofs cover all bodies. The only
bounds on states are the request sets and `MaxTime` (guard of
`Tick`); versions are bounded by the number of requests.

In `telemetry`, two backends are what it takes for one to come between the other's
`newTracesProvider` and `SetTracerProvider`, to use the other's provider, or to fail
after the other is up. One request is enough: requests do not see each other, only the
providers, whose steps interleave with it in every way (and the proofs hold for any
number). `MCEnvironments` varies one or two variables at a time around production and
around an environment with no name: three names with and without
RUNTIME_LOCAL; the main switch on and misspelt; each signal switched off, each in another
spelling; an endpoint without a scheme and one with a scheme in capitals; rates below, in
and above the range and misspelt. The other names, spellings, endpoints and combinations
are not among them; the proofs cover them all.

*Symmetry* permutes requests and, for roles, names, for telemetry, backends; it is not used in `liveness`
or `cancellation`, where it would be unsound, and not needed in `cut_off` and `health`.

*Deadlock* is not checked: every request ends, and an engine with no more requests
to serve has nothing to do. That no request gets stuck on the way is what
`liveness` checks.

**The properties**

* `StoredConfigValid`, `StoredCredentialVetted`: `validate` and
  `validateCredentials` look at the request's own merge; that it is what ends up in
  storage, whatever happened to storage since, is the property. An update with no
  credential re-saves one it loaded, so vetting is inherited along any chain of
  updates.
* `HistoryComplete`: of all the versions up to the stored one, each has its history
  entry, or a request in flight is about to write it, or a client or the log heard that
  it may be missing, after any races, failures and crashes between the two Puts, and
  any number of deletes.
* `HistoryFaithful`, `NoUpdateLost`, `HistoryKept`, `NoRoleUpdateLost`: what overlapping
  writes and deletes cost, by saying what holds without them. What the first and the third
  say is promised by a comment and violated in general (findings 1 and 2). Overlapping
  writes are all that stands in the way of the first, and deletes all that stand in the way
  of the third once writes do not overlap. An update that is not lost replaces exactly the
  configuration or role it was merged into, under the next version, or with the creation
  time kept and the time of update not set back.
* `CredentialsOnlyFromRequests`: the credentials that are stored or that a request in
  flight may store only grow by a new request that supplies one. A request that was
  in flight during a delete *can* bring its credential back, and the property says
  that only such a request can.
* `FreshSaveIsAtomic`: a lost update needs a save whose base is stale; all other
  saves are atomic read-modify-writes. The same for roles in `FreshRoleSaveIsAtomic`.
* `RoleWellFormed`: `saveRole` trusts the name inside the loaded role for its storage key,
  so the next update of a role that named another would be saved over it. That the times
  are in order rests on a clock that does not go back, which `time.Now()` on several hosts
  of a cluster does not promise.
* `GrantsOnlyFromRequests`: an ID that a role does not grant, and that no request in flight
  to it holds, comes up only with a new request to that role that names it. It does *not*
  say that a withdrawn ID stays withdrawn: an update that had loaded it grants it again, and
  finding 3 shows the same of a role that was removed.
* `TokensScoped`: `generateToken` is given a role ID list that was checked when the
  role was written, by another request, perhaps in another process.
* `TokensVetted`: the vetting was done by a config request, perhaps by another process,
  and the token handler never asks for it; it holds since nothing unvetted is stored.
* `TokensAreAuthorised`: the refinement of `TokenService`. A handler that read the role
  again after the configuration would break it: its token would be scoped to
  something that was granted only after the request.
* `QuietCutOff`: what deleting or rotating really gives (compare finding 4).
* `HealthyMeansVetted`: what "healthy" does tell, although the handler asks nobody: it
  relates a verdict to the whole history of config writes (compare finding 6).
* `HungSkyflowBlocksNoOne`, `EveryRequestAnswered`: see fairness.
* `ConfigIsAtMostOnce`, `RoleIsAtMostOnce`: the refinements. What would break them is a
  path that writes an entry twice (a "repair" of the configuration when its history entry
  failed), or one that tells its client that the request was at fault after a Put that may
  have been applied.
* `OffMeansOff`, `ProductionObserved`, `ClearOnlyIfAsked`, `SampledAsAsked`: what the
  operator asked for against what runs, over the whole chain from the environment to the
  spans and counters of a request. Two of them pull in opposite directions, so that no
  reading of a switch can satisfy them by being lenient.
* `NoOrphanTracers`: a failed start returns no shutdown function, so whatever it leaves
  running runs for ever. It leaves no tracer provider; of meter providers this holds of
  those that were set up, not of one whose instruments could not be created (see below).
* `FirstKeepsItsSpans`: the part of "a mount's spans are its own" that the code does
  keep. It fails if a cleanup ends the process-wide provider instead of its own.
* `TracesWhole`, `FiguresNest`: a cleanup may come between any two steps of a
  handler; they hold because a provider that is down stays down and because of the
  order in which the handler ends its spans and moves its counters.
* `TokenCallsObserved`: `RecordsAgree` would be content with a request that left nothing.
  This one says that nothing is missing of a token call: both figures whenever the
  request's backend is up, both spans if its provider was installed first, whatever other
  backends of the process do. It is about calls to Skyflow for a token only; what other
  requests leave out is listed below.
* `AnsweredCallsAudited`, `RecordsAgree`: the audit record and everything else a token
  request leaves name one outcome, also if the process dies half-way.

**Fairness.** `HandlersRun` is weak fairness of the steps of a handler that wait only
for the Go scheduler and for storage: a runnable goroutine runs, and a storage call
returns. It is put on the successful outcomes; since a failure ends the request,
a storage call that keeps failing answers it all the same. There is no fairness for
arrivals, crashes, the clock or expiry. There is none for Skyflow either:
`HungSkyflowBlocksNoOne` holds even if it never replies. `EveryRequestAnswered`
assumes Skyflow's replies as its antecedent, `SkyflowReplies`: nothing in the code
guarantees them, as no timeout is set on the call.

## 4. Findings

1. **The history can describe another configuration** (`history_race`). The comment at
   `backend/config.go:93` says that `saveConfigWithHistory` "maintains version
   history". Two concurrent writes both become version 2; their four Puts can land so
   that `config` holds one and `config_history/2` the other's description. When writes do
   not overlap it does not happen (`HistoryAlwaysFaithful`).
2. **The history is overwritten after a delete** (`history_rewritten`). Even when no two
   writes overlap: create, delete, create. Versions restart and `config_history/2` of
   the first configuration is replaced. It takes a delete or an overlap: without
   either it does not happen (`HistoryAlwaysKept`).
3. **A removed role comes back** (`role_removal`). `docs/guidelines.md:45` calls the
   removal of a role irreversible. An update that has loaded the role saves it after the
   delete was answered, with the ID it granted; the update need not name an ID, and no
   other write need be in flight.
4. **The cut-off is not immediate** (`cut_off`). `README.md:74` of the repository says
   that deleting or rotating the configuration immediately cuts off every consumer.
   A token request that has read the configuration is signed with the old credential
   after the delete was answered; and a config write in flight can restore what was
   deleted. `QuietCutOff` is the promise that the code does keep.
5. **Cancellation is not honoured while Skyflow hangs** (`cancellation`).
   `docs/architecture.md:112` says handlers honor cancellation when Skyflow degrades.
   `generateToken` has no context: the goroutine waits for as long as the call does.
6. **Health does not look at Skyflow** (`health`). `docs/guidelines.md:83` says the
   endpoint checks "storage access + Skyflow reachability". It reads the stored
   configuration: after a write with `validate_credentials=false` the mount is healthy
   before Skyflow has ever been called.
7. **A sample rate may be no number** (`sample_rate`). The comment at
   `backend/telemetry/config.go:349` says that `clampSampleRate` "ensures sample rate is
   between 0.0 and 1.0". `ParseFloat` reads `NaN`, which passes both comparisons, and the
   sampler is built from it.

Also seen while modelling, without a run:

* Both credential sources at once are accepted, although `docs/guidelines.md:23` says that
  exactly one must be supplied: `pathConfigWrite` clears the path when it sees the document
  (`path_config.go:111`), before `validate` could refuse the two.
* `docs/architecture.md:96` says "Each significant operation emits metrics and traces".
  Deletes and lists move no counter, nor do writes that are refused or fail, nor token
  requests that end before Skyflow is asked (`CountedAtEnd`, `TokenFailsEarly`).
* If an instrument cannot be created, `setupMetricsProvider` (`init.go:182-185`) drops a
  meter provider whose reader is running, without shutting it down. The names of the
  instruments are constants that OpenTelemetry accepts, so this takes a change of theirs.
* The credential check of a config write calls Skyflow too (`path_config.go:136`): its
  outcome is passed on without an audit record, and no figure counts it as an SDK call.
* `skyflow_total_tokens_generated` ("Total number of tokens generated",
  `metrics.go:69`) moves for refused requests too (`path_token.go:151`), told apart by its
  `success` attribute only; `skyflow_total_tokens_failed` misses the failures before
  Skyflow is asked; `skyflow_sdk_call_total` ("Total number of Skyflow SDK calls",
  `metrics.go:150`) moves for successful calls only (`path_token.go:177`), and
  `RecordSkyflowSDKCallError`, `RecordConfigError` and `RecordRoleError` of the metrics
  are called nowhere.
* `config.go:123` says RUNTIME_LOCAL is honoured in dev and uat only; the code honours it
  in every environment but cug and prod, an unnamed one included.
* `config.go:98` ranks environment variables highest; for the service name and the sample
  rate the input given by Factory comes first.
* The second backend of a process sends its spans through the first one's provider and
  loses them when that one is cleaned up (`init.go:73` asks for the tracer before `init.go:74`
  installs the provider). `cmd/main.go` serves one mount per process, so this concerns
  the tests and hosts that embed the backend.

## 5. Proofs

All theorems hold for any sets of requests, credentials, role IDs, names and
descriptions, any bound on the clock, with or without faults. They assume
`StorageAssumption`, `ConfigAssumption`, `RoleAssumption` and, in the mount,
`TokenAssumption`: that the special values `Absent` and `Empty` are not mistaken for
data (nor `Absent` for a token), that a path is not a document, and that clients send
requests of the right shape. TLC evaluates these
assumptions in every run that extends the module.

*Configuration* (`ConfigPath_proofs`). `StoredConfigValid` and
`StoredCredentialVetted` are not inductive: a request about to save may hold
anything as far as they know. `ConfigInv` adds `RequestsCarryValid`: past its load,
a request holds the merge of its input into its base; the merge is valid; before it
saves, its credential has been accepted or waived; and a request with validation
off has waived what it supplies before it merges. The key lemmas are about
`Merge`: `MergeCredential` (a valid merge uses the credential supplied or else the
base's) carries vetting from the stored configuration to its successor. There is
one lemma per action (`LoadPreservesInv`, `SavePreservesInv`, ...), and
`AnswerPreservesInv` covers all the steps that only end a request.
`FreshSavesAreAtomic` and `CredentialsComeFromRequests` prove the action properties
from the same invariant; the latter by `StepsBringByRequests`, which says of every
step which credentials it makes live.

`HistoryComplete` is proved from `HistoryInv` next to `ConfigInv`: whatever a request has
loaded or is about to save, all the versions below it are accounted for
(`CarriesAccounted`). A request may hold a version that was deleted long ago; what makes
the invariant inductive is that `Accounted` never shrinks, because an entry is never
deleted and a request leaves its "history" point only by writing the entry or by somebody
being told.

*Writes that do not overlap* (`SerialConfig_proofs`). `SerialInv` adds that what the write in
flight has started from is still stored, or has been deleted (`BaseIsStored`): only a
delete can come between. That gives `UpdatesNeverLost` at once. `HistoryAlwaysFaithful`
needs it at the history Put: the entry that is written describes the configuration that
the same request has stored, if any is stored. `HistoryAlwaysKept` needs that no version
has an entry before it is stored (`EntriesBelow`), which fails after a delete.
`OperatedInv` puts the two under the rules they depend on, and `OperatorsAreClients` says
that such operators are operators: what is proved of the config path holds of them too.
`SerialRoles_proofs` has the same argument for each role, and adds that a base was updated
no later than it was loaded, so that its successor's time does not go back.

*Roles* (`RolePath_proofs`). `RoleWellFormed` needs `RequestsCarryRoles`: a request
about to save holds a role under the name it was made for, with one ID, created no
later than its load, which is no later than now.
`GrantsOnlyFromRequests` and `FreshRoleSaveIsAtomic` follow from the same invariant,
the former by a case on which request a step belongs to (`HandlerKeepsGrants`).

*The mount* (`SkyflowBackend_proofs`). `BackendInvariance` reuses the two
invariants, one per path, and adds `TokensCarryLive`: a token request's `dead`
credentials are disjoint from the live ones. It is preserved because a config step
makes live only the credentials that arriving requests supply
(`StepsBringByRequests` again), and those are taken out of `dead` in the same step.
A token is signed with a credential read from `config`, which was live then, so not
in `dead` (`CutOffHolds`). `HealthyAlwaysVetted` follows from `ConfigInv` at the step
that answers, and from `VettingIsKept` at all others. `TokensAlwaysVetted` needs that the
credential a request waits for Skyflow with has been vetted (`TokensCarryVetted`); it was
stored when it was read.

*Refinement.* `ConfigStepIsStoreStep` and `RoleStepIsStoreStep` map every step to one of
`AtMostOnce` or to a stutter; they need the invariants of the paths, for the values that a
save stores. By the way the mount is composed, each path behaves in it as it does alone
(the lemma `PathsAreUndisturbed`), which carries both refinements (`MountIsAtMostOnce`) and the action properties about
authority (`MountKeepsAuthority`) and the invariants of storage (`MountKeepsStorage`) over
to the composition. `MountIsTokenService` maps every
step of the mount to one of `TokenService`: a read of the role is the receipt, Skyflow's
reply the issue, every step of an operator a `Manage`. It rests on `BackendInv`: at
`Issue` the signer must be one that may sign, that is, not dead; and every grant is one ID.

*Telemetry* (`Telemetry_proofs`). None of the properties is inductive. `TelemetryInv`
says what each point of control implies: `ProvidersInPhase` (how far Factory and cleanup
have come says which providers there are), `TracersResolve` (whoever forwards will do so
to the first provider, everybody else has the tracer of one that was installed),
`SpansInPhase` and `RecordsInPhase` (how far a request has come says what it has left
behind), `RequestObserved` (what it has left agrees with the configuration and with the
providers of its backend). Two lemmas reduce each action to one backend
(`BackendStepPreservesInv`) or one request (`RequestStepPreservesInv`). The argument about
cleanups is `SinkStaysDown`: once the provider behind a tracer is down, no step brings it
back, so a span kept after SDK.Auth was lost cannot happen, and likewise for figures.
`TokenCallsAlwaysObserved` needs `ObservedInv` besides: while its backend is up, a request in
flight has moved exactly the figures it owes so far (`FiguresSoFar`).
The first lemmas of the module are about `TelemetryConfig` alone: `BuildConfig` is well
typed and agrees with what the operator asked for, for *every* environment
(`BuildConfigType`, `OffIsDisabled`, `ProductionIsEnabled`, `ClearIsAsked`,
`SamplerAsAsked`). They assume `RateAssumption` and `TelemetryAssumption`: special values
are not mistaken for data, and the environments are environments.

**Only model-checked.** The liveness properties (the prover has no rules for liveness
under fairness with `ENABLED`) and the findings. Every invariant and action property of
the passing runs is proved.

## 6. How it was built, and what could follow

The paths first, in the order in which they depend on each other (config, roles, tokens,
health, the mount), then the abstract specification they implement, then telemetry, then
what holds when writes do not overlap, and the abstract specification of tokens. What
could follow: an abstract specification of the audit trail for `Telemetry`, and liveness
of `cleanup` under a fair OpenTelemetry.

## 7. Not modelled

* **Of telemetry**: events, attributes, durations and histograms; the resource attributes
  and headers that are handed on to OpenTelemetry; `TracesTimeout`, which is resolved and
  never used; the batching and export of what was handed over; and the recorders that no
  handler calls.
* **`framework.Backend.Setup`** at the end of Factory: taken to succeed.
* **Plugin process and examples** (`cmd`, `examples`): start-up code with no state.
* **Tests** (`test`): used as documentation.
* **Vault and Skyflow**: external; modelled as the calls the plugin makes to them.
  Seal state, replication and storage transactions of Vault are not modelled.
* **The `ctx` claim and header extraction** of the token handler: passed on to
  Skyflow or to telemetry and never looked at. A trace context sent by a client changes
  the parent of a span, not whether it is started or ended.

## 8. Running

```
tlc -config MCConfigPath.cfg MCConfigPath.tla
tlapm ConfigPath_proofs.tla
```

`PROJECT.json` lists the runs with their properties, the mutants, the findings, the
hazards with the properties that address them, the theorems, and the source lines
that each definition models.
