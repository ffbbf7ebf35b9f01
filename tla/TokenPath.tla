----------------------------- MODULE TokenPath -----------------------------
(***************************************************************************)
(* The "creds/<role>" path of the secrets engine: backend/path_token.go.   *)
(* A token request reads the role, then the configuration, then asks the   *)
(* Skyflow SDK for a bearer token; whatever the other requests do between  *)
(* these three steps, it goes on with what it has read.                    *)
(*                                                                         *)
(*   "new"     not received yet                                            *)
(*   "config"  the role has been read                                      *)
(*   "sdk"     generateToken is waiting for the Skyflow SDK                *)
(*   "done"    answered                                                    *)
(*                                                                         *)
(* A request's context expires (deadline or cancelled client); storage     *)
(* calls may then fail, but generateToken is not given the context.        *)
(***************************************************************************)
EXTENDS ConfigPath, RolePath

CONSTANT TokenRequests  \* the requests made to the creds path

VARIABLE treq           \* treq[t]: the handler serving request t

\* A bearer token, as far as Skyflow's authority goes: who signed, which roles.
BearerToken == [cred: Credentials, ids: Seq(RoleIDs)]

ASSUME TokenAssumption == Absent \notin BearerToken

\* dead is a history variable: the credentials that were not live when the
\* request arrived and that no config write has brought since.
TokenRequest == [pc: {"new", "config", "sdk", "done"},
                 ids: {Absent} \cup Seq(RoleIDs),
                 cred: Credentials \cup {Absent},
                 token: {Absent} \cup BearerToken,
                 expired: BOOLEAN,
                 answer: Answers,
                 dead: SUBSET Credentials]

NewTokenRequest == [pc |-> "new", ids |-> Absent, cred |-> Absent, token |-> Absent,
                    expired |-> FALSE, answer |-> "none", dead |-> {}]

TokenInFlight == {t \in TokenRequests : treq[t].pc \notin {"new", "done"}}
-----------------------------------------------------------------------------
TokenInit == treq = [t \in TokenRequests |-> NewTokenRequest]

TokenAnswer(t, answer) ==
    treq' = [treq EXCEPT ![t].pc = "done", ![t].answer = answer]

\* pathTokenRead up to getRole: the role exists ...
TokenRole(t, n) ==
    /\ treq[t].pc = "new"
    /\ roles[n] # Absent
    /\ treq' = [treq EXCEPT ![t].pc = "config", ![t].ids = roles[n].ids,
                   ![t].dead = Credentials \ LiveCredentials]

\* ... or "role %q not found".
TokenRoleMissing(t, n) ==
    /\ treq[t].pc = "new"
    /\ roles[n] = Absent
    /\ TokenAnswer(t, "rejected")

\* Mutant of TokenConfig: the SDK is entered by one request at a time.
SerialisedConfig(t) ==
    /\ treq[t].pc = "config"
    /\ config # Absent
    /\ \A u \in TokenRequests : treq[u].pc # "sdk"
    /\ treq' = [treq EXCEPT ![t].pc = "sdk", ![t].cred = Credential(config)]

\* Mutant of TokenConfig: only the file path is passed on.
PathOnlyConfig(t) ==
    /\ treq[t].pc = "config"
    /\ config # Absent
    /\ treq' = [treq EXCEPT ![t].pc = "sdk", ![t].cred = config.path]

\* Mutant of TokenConfig: the role is read again with the configuration.
RereadConfig(t) ==
    /\ treq[t].pc = "config"
    /\ config # Absent
    /\ \E n \in Names :
          /\ roles[n] # Absent
          /\ treq' = [treq EXCEPT ![t].pc = "sdk", ![t].cred = Credential(config),
                         ![t].ids = roles[n].ids]

\* getConfig: the mount is configured ...
TokenConfig(t) ==
    /\ treq[t].pc = "config"
    /\ config # Absent
    /\ treq' = [treq EXCEPT ![t].pc = "sdk", ![t].cred = Credential(config)]

\* Mutant of TokenUnconfigured: the handler waits for a configuration.
PollsUnconfigured(t) ==
    /\ treq[t].pc = "config"
    /\ config = Absent
    /\ UNCHANGED treq

\* ... or "backend not configured".
TokenUnconfigured(t) ==
    /\ treq[t].pc = "config"
    /\ config = Absent
    /\ TokenAnswer(t, "rejected")

\* getRole or getConfig returns an error.
TokenGetFails(t) ==
    /\ treq[t].pc \in {"new", "config"}
    /\ StorageFaults \/ treq[t].expired
    /\ TokenAnswer(t, "failed")

\* Mutant of TokenIssued: the role IDs are not passed on to the SDK.
UnscopedIssued(t) ==
    /\ treq[t].pc = "sdk"
    /\ treq' = [treq EXCEPT ![t].pc = "done", ![t].answer = "ok",
                   ![t].token = [cred |-> treq[t].cred, ids |-> <<>>]]

\* generateToken returns a token: the SDK signs with the credential it is given
\* and scopes the token to the role IDs in its options.
TokenIssued(t) ==
    /\ treq[t].pc = "sdk"
    /\ treq' = [treq EXCEPT ![t].pc = "done", ![t].answer = "ok",
                   ![t].token = [cred |-> treq[t].cred, ids |-> treq[t].ids]]

\* generateToken returns an error: no such file, an SDK error, an empty token or
\* a recovered panic.
TokenRefused(t) ==
    /\ treq[t].pc = "sdk"
    /\ TokenAnswer(t, "rejected")

\* The deadline of the request passes or its client goes away.  The handler only
\* learns of it from a storage call.
TokenExpire(t) ==
    /\ t \in TokenInFlight
    /\ ~treq[t].expired
    /\ treq' = [treq EXCEPT ![t].expired = TRUE]

TokenCrash ==
    treq' = [t \in TokenRequests |->
                IF t \in TokenInFlight
                THEN [treq[t] EXCEPT !.pc = "done", !.answer = "failed"]
                ELSE treq[t]]

\* The steps of a handler that wait for nothing but storage ...
TokenLocal(t) == TokenConfig(t) \/ TokenUnconfigured(t)

\* ... and the one that waits for Skyflow.
TokenReply(t) == TokenIssued(t) \/ TokenRefused(t)

TokenStep == \E t \in TokenRequests :
    \/ \E n \in Names : TokenRole(t, n) \/ TokenRoleMissing(t, n)
    \/ TokenLocal(t) \/ TokenReply(t)
    \/ TokenGetFails(t) \/ TokenExpire(t)
-----------------------------------------------------------------------------
(* Properties *)

TokenTypeOK == treq \in [TokenRequests -> TokenRequest]

\* Every token is scoped to exactly one Skyflow role ID, the promise of role.go's
\* "exactly one", carried from the role's last write through the token handler to
\* the options of the SDK call.
TokensScoped ==
    \A t \in TokenRequests : treq[t].token # Absent => Len(treq[t].token.ids) = 1

\* The cut-off that deleting or rotating the configuration really gives: a token
\* request that arrives when a credential is neither stored nor held by a config
\* write in flight gets no token signed with it, whatever happens meanwhile,
\* unless a new write supplies that credential again.
QuietCutOff ==
    \A t \in TokenRequests : treq[t].token # Absent =>
        treq[t].token.cred \notin treq[t].dead

\* Nobody gets a token signed with a credential that nobody vouched for: whatever
\* rotations, deletes and failed saves came before, and however old the credential
\* that the handler has read, Skyflow had accepted it or an operator had waived that.
TokensVetted ==
    \A t \in TokenRequests : treq[t].token # Absent =>
        treq[t].token.cred \in accepted \cup waived
=============================================================================
