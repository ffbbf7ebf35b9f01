----------------------------- MODULE ConfigPath -----------------------------
(***************************************************************************)
(* The "config" path of the secrets engine: backend/path_config.go on top  *)
(* of backend/config.go.                                                   *)
(*                                                                         *)
(* Every request is served by a goroutine of its own and the backend holds *)
(* no lock, so requests interleave at each storage call and while Skyflow  *)
(* validates credentials.  A request is served once: creq[r] is the local  *)
(* state of the handler that serves r, and its pc names what it does next: *)
(*                                                                         *)
(*   "new"      not received yet                                           *)
(*   "load"     Vault's existence check has chosen create or update        *)
(*   "validate" validateCredentials is waiting for the Skyflow SDK         *)
(*   "save"     about to Put "config"                                      *)
(*   "history"  about to Put "config_history/<version>"                    *)
(*   "done"     answered                                                   *)
(***************************************************************************)
EXTENDS Naturals, Storage

CONSTANTS
    ConfigRequests,  \* the requests made to the config path
    FilePaths,       \* non-empty values of credentials_file_path
    JSONBlobs,       \* non-empty values of credentials_json ...
    WellFormedJSON,  \* ... and those that json.Unmarshal accepts
    ConfigWrites     \* the bodies of the write requests that clients send

VARIABLES
    config,    \* the entry "config", or Absent
    history,   \* the entries "config_history/<version>": version -> description
    creq,      \* creq[r]: the handler serving request r
    \* History variables, written here and read only by the properties:
    accepted,  \* credentials for which Skyflow has issued a validation token
    waived,    \* credentials supplied with validate_credentials = false
    reported   \* versions for which a client or the log was told of a failure

configVars == <<config, history, creq, accepted, waived, reported>>

Credentials == FilePaths \cup JSONBlobs

\* type skyflowConfig (tags travel with the description, LastUpdated is not read).
SkyflowConfig == [path: FilePaths \cup {Empty}, json: JSONBlobs \cup {Empty},
                  desc: Descriptions, version: Nat]

\* The fields of a write request; Absent is "not supplied" (data.GetOk not ok).
WriteInput == [path: FilePaths \cup {Empty, Absent},
               json: JSONBlobs \cup {Empty, Absent},
               desc: Descriptions \cup {Absent},
               validate: BOOLEAN]  \* TRUE when not supplied

ASSUME ConfigAssumption ==
    /\ WellFormedJSON \subseteq JSONBlobs
    /\ FilePaths \cap JSONBlobs = {}
    /\ {Empty, Absent} \cap Credentials = {}
    /\ Absent \notin SkyflowConfig \cup WriteInput
    /\ ConfigWrites \subseteq WriteInput

ConfigRequest == [pc: {"new", "load", "validate", "save", "history", "done"},
                  op: {"none", "create", "update"},
                  in: WriteInput \cup {Absent},
                  cfg: SkyflowConfig \cup {Absent},
                  base: SkyflowConfig \cup {Absent},
                  answer: Answers]

NewConfigRequest == [pc |-> "new", op |-> "none", in |-> Absent,
                     cfg |-> Absent, base |-> Absent, answer |-> "none"]

Answered(answer) == [NewConfigRequest EXCEPT !.pc = "done", !.answer = answer]

ConfigInFlight == {r \in ConfigRequests : creq[r].pc \notin {"new", "done"}}

\* The credential a request brings, if any: credentials_json wins over the path.
Supplied(in) == {IF in.json = Absent THEN in.path ELSE in.json} \cap Credentials

\* validateCredentials and generateToken both prefer the file path.
Credential(cfg) == IF cfg.path # Empty THEN cfg.path ELSE cfg.json

-----------------------------------------------------------------------------
(* config.go: defaults, merging and validation *)

defaultConfig == [path |-> Empty, json |-> Empty, desc |-> Empty, version |-> 1]

\* Mutant of Merge: the description is assigned without looking at "ok".
UnguardedMerge(cfg, in) ==
    LET withPath == IF in.path = Absent THEN cfg
                    ELSE [cfg EXCEPT !.path = in.path, !.json = Empty]
        withJSON == IF in.json = Absent THEN withPath
                    ELSE [withPath EXCEPT !.json = in.json, !.path = Empty]
    IN  [withJSON EXCEPT !.desc = in.desc]

\* pathConfigWrite's "update fields from request": supplying one credential
\* source clears the other, and credentials_json is looked at last.
Merge(cfg, in) ==
    LET withPath == IF in.path = Absent THEN cfg
                    ELSE [cfg EXCEPT !.path = in.path, !.json = Empty]
        withJSON == IF in.json = Absent THEN withPath
                    ELSE [withPath EXCEPT !.json = in.json, !.path = Empty]
    IN  IF in.desc = Absent THEN withJSON ELSE [withJSON EXCEPT !.desc = in.desc]

\* Mutant of Valid: the inline document is not parsed.
SourcesOnlyValid(cfg) == (cfg.path = Empty) # (cfg.json = Empty)

\* func (c *skyflowConfig) validate
Valid(cfg) ==
    /\ cfg.path # Empty \/ cfg.json # Empty
    /\ cfg.path = Empty \/ cfg.json = Empty
    /\ cfg.json # Empty => cfg.json \in WellFormedJSON

\* The configuration request r would save, given what is stored now.
Base(r) == IF creq[r].op = "update" THEN config ELSE Absent

\* Mutant of Merged: an update starts from the defaults.
DefaultsMerged(r) == Merge(defaultConfig, creq[r].in)

Merged(r) == Merge(IF Base(r) = Absent THEN defaultConfig ELSE Base(r), creq[r].in)

NextVersion(cfg) == [cfg EXCEPT !.version = @ + 1]

PutHistory(cfg) == [v \in DOMAIN history \cup {cfg.version} |->
                        IF v = cfg.version THEN cfg.desc ELSE history[v]]
-----------------------------------------------------------------------------
(* path_config.go: the handlers, one action per stretch between two calls
   into storage or into the Skyflow SDK *)

ConfigInit ==
    /\ config = Absent
    /\ history = [v \in {} |-> Empty]
    /\ creq = [r \in ConfigRequests |-> NewConfigRequest]
    /\ accepted = {} /\ waived = {} /\ reported = {}

ConfigAnswer(r, answer) == creq' = [creq EXCEPT ![r] = Answered(answer)]

\* Vault asks pathConfigExistenceCheck and dispatches Create or Update by it.
ConfigExistenceCheck(r, in) ==
    /\ creq[r].pc = "new"
    /\ creq' = [creq EXCEPT ![r].pc = "load", ![r].in = in,
                   ![r].op = IF config = Absent THEN "create" ELSE "update"]
    /\ waived' = IF in.validate THEN waived ELSE waived \cup Supplied(in)
    /\ UNCHANGED <<config, history, accepted, reported>>

\* pathConfigWrite up to config.validate(): the merged configuration is invalid.
ConfigReject(r) ==
    /\ creq[r].pc = "load"
    /\ ~Valid(Merged(r))
    /\ ConfigAnswer(r, "rejected")
    /\ UNCHANGED <<config, history, accepted, waived, reported>>

\* Mutant of ConfigLoad: updates skip the validation of credentials.
UpdateUnvalidatedLoad(r) ==
    /\ creq[r].pc = "load"
    /\ Valid(Merged(r))
    /\ creq' = [creq EXCEPT ![r].cfg = Merged(r), ![r].base = Base(r),
                   ![r].pc = IF creq[r].in.validate /\ creq[r].op = "create"
                             THEN "validate" ELSE "save"]
    /\ UNCHANGED <<config, history, accepted, waived, reported>>

\* ... and the same when it is valid.
ConfigLoad(r) ==
    /\ creq[r].pc = "load"
    /\ Valid(Merged(r))
    /\ creq' = [creq EXCEPT ![r].cfg = Merged(r), ![r].base = Base(r),
                   ![r].pc = IF creq[r].in.validate THEN "validate" ELSE "save"]
    /\ UNCHANGED <<config, history, accepted, waived, reported>>

\* validateCredentials returns nil: the SDK issued a non-empty token.
CredentialsAccepted(r) ==
    /\ creq[r].pc = "validate"
    /\ creq' = [creq EXCEPT ![r].pc = "save"]
    /\ accepted' = accepted \cup {Credential(creq[r].cfg)}
    /\ UNCHANGED <<config, history, waived, reported>>

\* validateCredentials returns an error: the file is missing, the SDK returned
\* an error or no token, or it panicked and the deferred recover caught it.
CredentialsRefused(r) ==
    /\ creq[r].pc = "validate"
    /\ ConfigAnswer(r, "rejected")
    /\ UNCHANGED <<config, history, accepted, waived, reported>>

\* Mutant of ConfigSave: a copy is incremented, the history keeps the old version.
CopiedVersionSave(r) ==
    /\ creq[r].pc = "save"
    /\ config' = NextVersion(creq[r].cfg)
    /\ creq' = [creq EXCEPT ![r].pc = "history"]
    /\ UNCHANGED <<history, accepted, waived, reported>>

\* Mutant of ConfigSave: the version is not incremented.
UnincrementedSave(r) ==
    /\ creq[r].pc = "save"
    /\ config' = creq[r].cfg
    /\ creq' = [creq EXCEPT ![r].pc = "history"]
    /\ UNCHANGED <<history, accepted, waived, reported>>

\* saveConfigWithHistory up to saveConfig: the version is incremented in memory
\* and the whole configuration overwrites whatever is stored by now.
ConfigSave(r) ==
    /\ creq[r].pc = "save"
    /\ config' = NextVersion(creq[r].cfg)
    /\ creq' = [creq EXCEPT ![r].pc = "history", ![r].cfg = NextVersion(@)]
    /\ UNCHANGED <<history, accepted, waived, reported>>

\* Mutant of ConfigSaveFails: the configuration loaded earlier is put back.
RollbackSaveFails(r) ==
    /\ StorageFaults
    /\ creq[r].pc = "save"
    /\ config' = creq[r].base
    /\ ConfigAnswer(r, "failed")
    /\ reported' = reported \cup {creq[r].cfg.version + 1}
    /\ UNCHANGED <<history, accepted, waived>>

ConfigSaveFails(r) ==
    /\ StorageFaults
    /\ creq[r].pc = "save"
    /\ \E applied \in BOOLEAN :
          config' = Outcome(applied, NextVersion(creq[r].cfg), config)
    /\ ConfigAnswer(r, "failed")
    /\ reported' = reported \cup {creq[r].cfg.version + 1}
    /\ UNCHANGED <<history, accepted, waived>>

\* Mutant of ConfigSaveHistory: the configuration is put once more.
ResavedHistory(r) ==
    /\ creq[r].pc = "history"
    /\ history' = PutHistory(creq[r].cfg)
    /\ config' = creq[r].cfg
    /\ ConfigAnswer(r, "ok")
    /\ UNCHANGED <<accepted, waived, reported>>

\* saveConfigWithHistory's second Put, then the handler returns nil, nil.
ConfigSaveHistory(r) ==
    /\ creq[r].pc = "history"
    /\ history' = PutHistory(creq[r].cfg)
    /\ ConfigAnswer(r, "ok")
    /\ UNCHANGED <<config, accepted, waived, reported>>

\* Mutant of ConfigHistoryFails: the configuration loaded earlier is put back.
RollbackHistoryFails(r) ==
    /\ StorageFaults
    /\ creq[r].pc = "history"
    /\ config' = creq[r].base
    /\ ConfigAnswer(r, "failed")
    /\ reported' = reported \cup {creq[r].cfg.version}
    /\ UNCHANGED <<history, accepted, waived>>

\* A failed history Put is logged as a warning and the write still succeeds.
ConfigHistoryFails(r) ==
    /\ StorageFaults
    /\ creq[r].pc = "history"
    /\ \E applied \in BOOLEAN :
          history' = Outcome(applied, PutHistory(creq[r].cfg), history)
    /\ ConfigAnswer(r, "ok")
    /\ reported' = reported \cup {creq[r].cfg.version}
    /\ UNCHANGED <<config, accepted, waived>>

\* pathConfigRead
ConfigRead(r) ==
    /\ creq[r].pc = "new"
    /\ ConfigAnswer(r, CASE config = Absent -> "notFound"
                         [] config # Absent /\ config.path # Empty -> "file_path"
                         [] OTHER -> "json")
    /\ UNCHANGED <<config, history, accepted, waived, reported>>

\* pathConfigDelete
ConfigDelete(r) ==
    /\ creq[r].pc = "new"
    /\ config' = Absent
    /\ ConfigAnswer(r, "ok")
    /\ UNCHANGED <<history, accepted, waived, reported>>

ConfigDeleteFails(r) ==
    /\ StorageFaults
    /\ creq[r].pc = "new"
    /\ \E applied \in BOOLEAN : config' = Outcome(applied, Absent, config)
    /\ ConfigAnswer(r, "failed")
    /\ UNCHANGED <<history, accepted, waived, reported>>

\* getConfig returns an error, in the existence check, an update or a read.
ConfigGetFails(r) ==
    /\ StorageFaults
    /\ \/ creq[r].pc = "new"
       \/ creq[r].pc = "load" /\ creq[r].op = "update"
    /\ ConfigAnswer(r, "failed")
    /\ UNCHANGED <<config, history, accepted, waived, reported>>

\* The plugin process dies or is reloaded: the handlers vanish, Vault answers
\* their clients with an error, storage stays.
ConfigCrash ==
    /\ creq' = [r \in ConfigRequests |->
                   IF r \in ConfigInFlight THEN Answered("failed") ELSE creq[r]]
    /\ reported' = reported \cup
          {creq[r].cfg.version : r \in {q \in ConfigRequests : creq[q].pc = "history"}}
    /\ UNCHANGED <<config, history, accepted, waived>>

ConfigHandler(r) ==
    \/ ConfigReject(r) \/ ConfigLoad(r)
    \/ CredentialsAccepted(r) \/ CredentialsRefused(r)
    \/ ConfigSave(r) \/ ConfigSaveFails(r)
    \/ ConfigSaveHistory(r) \/ ConfigHistoryFails(r)
    \/ ConfigGetFails(r)

ConfigArrival(r) ==
    \/ \E in \in ConfigWrites : ConfigExistenceCheck(r, in)
    \/ ConfigRead(r)
    \/ ConfigDelete(r) \/ ConfigDeleteFails(r)

ConfigStep == \E r \in ConfigRequests : ConfigHandler(r) \/ ConfigArrival(r)

ConfigNext == ConfigStep \/ ConfigCrash

ConfigSpec == ConfigInit /\ [][ConfigNext]_configVars
-----------------------------------------------------------------------------
(* Properties *)

ConfigTypeOK ==
    /\ config \in SkyflowConfig \cup {Absent}
    /\ DOMAIN history \subseteq Nat
    /\ \A v \in DOMAIN history : history[v] \in Descriptions
    /\ creq \in [ConfigRequests -> ConfigRequest]
    /\ accepted \subseteq Credentials
    /\ waived \subseteq Credentials
    /\ reported \subseteq Nat

\* Whatever writes interleave, the stored configuration names exactly one
\* credential source and inline JSON is well formed: validate() is applied to
\* the merged configuration and nothing else reaches storage.
StoredConfigValid ==
    config # Absent =>
        /\ (config.path = Empty) # (config.json = Empty)
        /\ config.json \in WellFormedJSON \cup {Empty}

\* The stored credential has been accepted by Skyflow, unless a request that
\* supplied it switched validation off.  An update that supplies no credential
\* re-saves the one it loaded, which must itself have been vetted.
StoredCredentialVetted ==
    config # Absent => Credential(config) \in accepted \cup waived

\* The versions that have a history entry, are about to get one, or for which
\* somebody was told of a failure.
Accounted ==
    DOMAIN history \cup reported \cup
        {creq[r].cfg.version : r \in {q \in ConfigRequests : creq[q].pc = "history"}}

\* saveConfigWithHistory writes two entries in two steps, yet the history has no
\* silent gap: of all the versions up to the stored one (a first write stores 2)
\* none is missing without anybody having been told, through any races, failed
\* Puts, crashes, deletes and configurations created anew.
HistoryComplete ==
    config # Absent => config.version >= 2 /\ 2 .. config.version \subseteq Accounted

\* The credentials that are stored or that a request in flight may still store.
HeldBy(r) == IF creq[r].cfg = Absent THEN Supplied(creq[r].in)
                                    ELSE {Credential(creq[r].cfg)}

LiveCredentials ==
    (IF config = Absent THEN {} ELSE {Credential(config)})
        \cup UNION {HeldBy(r) : r \in ConfigInFlight}

\* A credential that is neither stored nor held by a request in flight comes
\* back only with a new request that supplies it: no handler step, retry of a
\* failed Put or crash can bring a removed credential back.
BroughtByRequests ==
    \A c \in LiveCredentials' \ LiveCredentials :
        \E r \in ConfigRequests : /\ creq[r].pc = "new"
                                  /\ creq'[r].pc = "load"
                                  /\ c \in Supplied(creq'[r].in)

CredentialsOnlyFromRequests == [][BroughtByRequests]_configVars

Saves(r) == creq[r].pc = "save" /\ creq'[r].pc = "history"

\* A save whose base is still what is stored behaves as an atomic update: it
\* advances the version by one (from 1 when nothing is stored) and changes no
\* field that the request did not supply.
FreshSaves ==
    \A r \in ConfigRequests :
        Saves(r) /\ creq[r].base = config =>
          /\ config'.version = (IF config = Absent THEN 1 ELSE config.version) + 1
          /\ config # Absent /\ creq[r].in.desc = Absent => config'.desc = config.desc
          /\ config # Absent /\ Supplied(creq[r].in) = {} =>
                 Credential(config') = Credential(config)

FreshSaveIsAtomic == [][FreshSaves]_configVars
-----------------------------------------------------------------------------
(* The abstract specification.  Clients see the one entry "config" and how far
   their request has come; the second Put is between change and answer. *)

ConfigPhase(q) ==
    IF q.pc = "new" THEN "idle"
    ELSE IF q.pc \in {"load", "validate", "save"} THEN "pending"
    ELSE IF q.pc = "history" THEN "applied"
    ELSE IF q.answer \in {"ok", "failed"} THEN q.answer
    ELSE "declined"

ConfigStore == INSTANCE AtMostOnce WITH
    Requests <- ConfigRequests,
    Keys <- {"config"},
    Values <- {Absent} \cup {cfg \in SkyflowConfig : Valid(cfg)},
    store <- [k \in {"config"} |-> config],
    phase <- [r \in ConfigRequests |-> ConfigPhase(creq[r])]

\* The config path implements AtMostOnce: a request changes the configuration at
\* most once, to a valid one, before its answer; an error answer means that it has
\* not, and neither the history Put nor a crash touches the configuration.
ConfigIsAtMostOnce == ConfigStore!Spec
-----------------------------------------------------------------------------
(* The inductive invariant.  The properties above speak of storage; they are
   preserved because of what each request in flight carries to its next step. *)

\* A request that is past its load carries the merge of its input into its base,
\* valid, and by the time it may be saved also vetted.
CarriesValid(q, acc, wav) ==
    /\ q.pc \in {"load", "validate", "save", "history"} => q.in \in WriteInput
    /\ q.pc \in {"new", "load"} => q.cfg = Absent
    /\ q.pc = "load" /\ ~q.in.validate => Supplied(q.in) \subseteq wav
    /\ q.pc \in {"validate", "save"} =>
          q.cfg = Merge(IF q.base = Absent THEN defaultConfig ELSE q.base, q.in)
    /\ q.pc \in {"validate", "save", "history"} => q.cfg \in SkyflowConfig /\ Valid(q.cfg)
    /\ q.pc \in {"save", "history"} => Credential(q.cfg) \in acc \cup wav

RequestsCarryValid == \A r \in ConfigRequests : CarriesValid(creq[r], accepted, waived)

\* What a request builds on is accounted for, so that what it saves is too.
CarriesAccounted(q, versions) ==
    q.pc \in {"validate", "save", "history"} =>
        q.cfg.version >= 1 /\ 2 .. q.cfg.version \subseteq versions

HistoryInv ==
    /\ \A r \in ConfigRequests : CarriesAccounted(creq[r], Accounted)
    /\ HistoryComplete

ConfigInv ==
    /\ ConfigTypeOK
    /\ RequestsCarryValid
    /\ StoredConfigValid
    /\ StoredCredentialVetted
=============================================================================
