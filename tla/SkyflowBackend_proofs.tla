----------------------- MODULE SkyflowBackend_proofs -----------------------
(***************************************************************************)
(* Proofs about SkyflowBackend: the invariants of the components hold in   *)
(* the composition, no token is signed with a credential that had been cut *)
(* off when it was asked for, and a healthy mount has been vetted.         *)
(***************************************************************************)
EXTENDS SkyflowBackend, ConfigPath_proofs, RolePath_proofs

-----------------------------------------------------------------------------
(* Steps of the token handler *)

\* What a token request may become in one step of its handler.
LEMMA NewTokenFacts ==
    /\ NewTokenRequest \in TokenRequest
    /\ \A live : CarriesLive(NewTokenRequest, live)
BY DEF NewTokenRequest, TokenRequest, CarriesLive, Answers

\* No token request has been made yet.
LEMMA BackendInitInv == BackendInit => BackendInv
<1> SUFFICES ASSUME BackendInit PROVE BackendInv
    OBVIOUS
<1>1. ConfigInv /\ RoleInv
    BY ConfigInitInv, RoleInitInv DEF BackendInit
<1>2. TokenTypeOK /\ TokensCarryLive
    BY NewTokenFacts DEF BackendInit, TokenInit, TokenTypeOK, TokensCarryLive
<1> QED
    BY <1>1, <1>2 DEF BackendInv

\* If nothing but one token request changes, it is enough to look at that one.
LEMMA OneTokenStep ==
    ASSUME BackendInv, UNCHANGED configVars, UNCHANGED roleVars,
           NEW t \in TokenRequests, NEW q \in TokenRequest,
           treq' = [treq EXCEPT ![t] = q], CarriesLive(q, LiveCredentials)
    PROVE  BackendInv'
<1>1. ConfigInv'
    BY ConfigNextPreservesInv DEF BackendInv
<1>2. RoleInv'
    BY RoleNextPreservesInv DEF BackendInv
<1>3. LiveCredentials' = LiveCredentials
    BY DEF configVars, LiveCredentials, ConfigInFlight, HeldBy
<1>4. TokenTypeOK'
    BY DEF BackendInv, TokenTypeOK
<1>5. TokensCarryLive'
    BY <1>3 DEF BackendInv, TokenTypeOK, TokensCarryLive
<1> QED
    BY <1>1, <1>2, <1>4, <1>5 DEF BackendInv

\* What the handler of t knows before its step.
LEMMA TokenFacts ==
    ASSUME BackendInv, NEW t \in TokenRequests
    PROVE  treq[t] \in TokenRequest /\ CarriesLive(treq[t], LiveCredentials)
BY DEF BackendInv, TokenTypeOK, TokensCarryLive

\* Ending a request, with or without a failure, gives it nothing new to carry.
LEMMA TokenAnswerPreservesInv ==
    ASSUME BackendInv, UNCHANGED configVars, UNCHANGED roleVars,
           NEW t \in TokenRequests, NEW answer \in Answers, TokenAnswer(t, answer)
    PROVE  BackendInv'
<1> DEFINE q == [treq[t] EXCEPT !.pc = "done", !.answer = answer]
<1>1. treq' = [treq EXCEPT ![t] = q]
    BY DEF TokenAnswer, BackendInv, TokenTypeOK
<1>2. /\ q \in TokenRequest /\ q.pc = "done" /\ q.dead = treq[t].dead
      /\ q.token = treq[t].token
    BY TokenFacts DEF TokenRequest
<1> HIDE DEF q
<1>3. CarriesLive(q, LiveCredentials)
    BY <1>2, TokenFacts DEF CarriesLive
<1> QED
    BY <1>1, <1>2, <1>3, OneTokenStep

\* The role that is read is well formed, so it has one ID.
LEMMA TokenRolePreservesInv ==
    ASSUME BackendInv, UNCHANGED configVars, UNCHANGED roleVars,
           NEW t \in TokenRequests, NEW n \in Names, TokenRole(t, n)
    PROVE  BackendInv'
<1> DEFINE q == [treq[t] EXCEPT !.pc = "config", !.ids = roles[n].ids,
                    !.dead = Credentials \ LiveCredentials]
<1>1. treq' = [treq EXCEPT ![t] = q]
    BY DEF TokenRole, BackendInv, TokenTypeOK
<1>2. roles[n].ids \in Seq(RoleIDs) /\ Len(roles[n].ids) = 1
    BY DEF TokenRole, BackendInv, RoleInv, RoleTypeOK, RoleWellFormed, SkyflowRole
<1>3. /\ q \in TokenRequest /\ q.pc = "config" /\ q.ids = roles[n].ids
      /\ q.dead = Credentials \ LiveCredentials /\ q.token = treq[t].token
    BY <1>2, TokenFacts DEF TokenRequest
<1>4. q.token = Absent
    BY <1>3 DEF BackendInv, TokensCarryLive, CarriesLive, TokenRole
<1> HIDE DEF q
<1>5. CarriesLive(q, LiveCredentials)
    BY <1>2, <1>3, <1>4 DEF CarriesLive
<1> QED
    BY <1>1, <1>3, <1>5, OneTokenStep

\* The credential that is read is live, so not one that is held to be dead.
LEMMA TokenConfigPreservesInv ==
    ASSUME BackendInv, UNCHANGED configVars, UNCHANGED roleVars,
           NEW t \in TokenRequests, TokenConfig(t)
    PROVE  BackendInv'
<1> DEFINE q == [treq[t] EXCEPT !.pc = "sdk", !.cred = Credential(config)]
<1>1. treq' = [treq EXCEPT ![t] = q]
    BY DEF TokenConfig, BackendInv, TokenTypeOK
<1>2. Credential(config) \in Credentials
  <2>1. /\ config \in SkyflowConfig
        /\ (config.path = Empty) # (config.json = Empty)
      BY DEF TokenConfig, BackendInv, ConfigInv, ConfigTypeOK, StoredConfigValid
  <2> QED
      BY <2>1 DEF SkyflowConfig, Credential, Credentials
<1>3. Credential(config) \in LiveCredentials
    BY LiveFacts DEF TokenConfig
<1>4. /\ q \in TokenRequest /\ q.pc = "sdk" /\ q.ids = treq[t].ids
      /\ q.cred = Credential(config) /\ q.dead = treq[t].dead /\ q.token = treq[t].token
    BY <1>2, TokenFacts DEF TokenRequest
<1> HIDE DEF q
<1>5. CarriesLive(treq[t], LiveCredentials) /\ treq[t].pc = "config"
    BY TokenFacts DEF TokenConfig
<1>6. CarriesLive(q, LiveCredentials)
    BY <1>2, <1>3, <1>4, <1>5 DEF CarriesLive
<1> QED
    BY <1>1, <1>4, <1>6, OneTokenStep

\* The token gets the credential and the ID that the request carries.
LEMMA TokenIssuedPreservesInv ==
    ASSUME BackendInv, UNCHANGED configVars, UNCHANGED roleVars,
           NEW t \in TokenRequests, TokenIssued(t)
    PROVE  BackendInv'
<1> DEFINE token == [cred |-> treq[t].cred, ids |-> treq[t].ids]
           q == [treq[t] EXCEPT !.pc = "done", !.answer = "ok", !.token = token]
<1>1. treq' = [treq EXCEPT ![t] = q]
    BY DEF TokenIssued, BackendInv, TokenTypeOK
<1>2. CarriesLive(treq[t], LiveCredentials) /\ treq[t].pc = "sdk"
    BY TokenFacts DEF TokenIssued
<1>3. token \in BearerToken /\ token.cred = treq[t].cred /\ token.ids = treq[t].ids
    BY <1>2 DEF CarriesLive, BearerToken
<1> HIDE DEF token
<1>4. /\ q \in TokenRequest /\ q.pc = "done" /\ q.dead = treq[t].dead /\ q.token = token
    BY <1>3, TokenFacts DEF TokenRequest, Answers
<1> HIDE DEF q
<1>5. CarriesLive(q, LiveCredentials)
    BY <1>2, <1>3, <1>4 DEF CarriesLive
<1> QED
    BY <1>1, <1>4, <1>5, OneTokenStep

\* That a deadline has passed changes nothing that is carried.
LEMMA TokenExpirePreservesInv ==
    ASSUME BackendInv, UNCHANGED configVars, UNCHANGED roleVars,
           NEW t \in TokenRequests, TokenExpire(t)
    PROVE  BackendInv'
<1> DEFINE q == [treq[t] EXCEPT !.expired = TRUE]
<1>1. treq' = [treq EXCEPT ![t] = q]
    BY DEF TokenExpire, BackendInv, TokenTypeOK
<1>2. /\ q \in TokenRequest /\ q.pc = treq[t].pc /\ q.ids = treq[t].ids
      /\ q.cred = treq[t].cred /\ q.dead = treq[t].dead /\ q.token = treq[t].token
    BY TokenFacts DEF TokenRequest
<1> HIDE DEF q
<1>3. CarriesLive(q, LiveCredentials)
    BY <1>2, TokenFacts DEF CarriesLive
<1> QED
    BY <1>1, <1>2, <1>3, OneTokenStep

\* One case for each step of the creds path.
LEMMA TokenPathPreservesInv ==
    ASSUME BackendInv, TokenPathStep
    PROVE  BackendInv'
<1>1. UNCHANGED configVars /\ UNCHANGED roleVars
    BY DEF TokenPathStep
<1>2. ASSUME NEW t \in TokenRequests, NEW n \in Names, TokenRole(t, n)
      PROVE  BackendInv'
    BY <1>1, <1>2, TokenRolePreservesInv
<1>3. ASSUME NEW t \in TokenRequests, NEW n \in Names, TokenRoleMissing(t, n)
      PROVE  BackendInv'
    BY <1>1, <1>3, TokenAnswerPreservesInv DEF TokenRoleMissing, Answers
<1>4. ASSUME NEW t \in TokenRequests, TokenConfig(t)
      PROVE  BackendInv'
    BY <1>1, <1>4, TokenConfigPreservesInv
<1>5. ASSUME NEW t \in TokenRequests,
             TokenUnconfigured(t) \/ TokenGetFails(t) \/ TokenRefused(t)
      PROVE  BackendInv'
    BY <1>1, <1>5, TokenAnswerPreservesInv
    DEF TokenUnconfigured, TokenGetFails, TokenRefused, Answers
<1>6. ASSUME NEW t \in TokenRequests, TokenIssued(t)
      PROVE  BackendInv'
    BY <1>1, <1>6, TokenIssuedPreservesInv
<1>7. ASSUME NEW t \in TokenRequests, TokenExpire(t)
      PROVE  BackendInv'
    BY <1>1, <1>7, TokenExpirePreservesInv
<1> QED
    BY <1>2, <1>3, <1>4, <1>5, <1>6, <1>7
    DEF TokenPathStep, TokenStep, TokenLocal, TokenReply
-----------------------------------------------------------------------------
(* Steps of the other handlers *)

\* A config step makes a credential live only if a write brings it, and a credential
\* that a write brings is no longer held to be dead.
LEMMA ConfigPathPreservesInv ==
    ASSUME BackendInv, ConfigPathStep
    PROVE  BackendInv'
<1>1. ConfigInv /\ [ConfigNext]_configVars
    BY DEF BackendInv, ConfigPathStep, ConfigNext
<1>2. ConfigInv' /\ BroughtByRequests
    BY <1>1, ConfigNextPreservesInv, StepsBringByRequests
<1>3. RoleInv'
    BY RoleNextPreservesInv DEF BackendInv, ConfigPathStep
<1>4. LiveCredentials' \ LiveCredentials \subseteq ArrivingCredentials
    BY <1>2 DEF BroughtByRequests, ArrivingCredentials
<1>5. ASSUME NEW t \in TokenRequests
      PROVE  treq'[t] \in TokenRequest /\ CarriesLive(treq'[t], LiveCredentials')
  <2>1. treq[t] \in TokenRequest /\ CarriesLive(treq[t], LiveCredentials)
      BY TokenFacts
  <2>2. treq'[t] = [treq[t] EXCEPT !.dead = @ \ ArrivingCredentials]
      BY DEF ConfigPathStep
  <2>3. /\ treq'[t] \in TokenRequest /\ treq'[t].pc = treq[t].pc /\ treq'[t].ids = treq[t].ids
        /\ treq'[t].cred = treq[t].cred /\ treq'[t].token = treq[t].token
        /\ treq'[t].dead = treq[t].dead \ ArrivingCredentials
      BY <2>1, <2>2 DEF TokenRequest
  <2>4. treq'[t].dead \cap LiveCredentials' = {}
      BY <1>4, <2>1, <2>3 DEF CarriesLive
  <2> QED
      BY <2>1, <2>3, <2>4 DEF CarriesLive
<1>6. TokenTypeOK' /\ TokensCarryLive'
    BY <1>5 DEF ConfigPathStep, TokenTypeOK, TokensCarryLive
<1> QED
    BY <1>2, <1>3, <1>6 DEF BackendInv

\* The roles paths make no credential live.
LEMMA RolePathPreservesInv ==
    ASSUME BackendInv, RolePathStep
    PROVE  BackendInv'
<1>1. RoleInv'
    BY RoleNextPreservesInv DEF BackendInv, RolePathStep, RoleNext
<1>2. ConfigInv'
    BY ConfigNextPreservesInv DEF BackendInv, RolePathStep
<1>3. LiveCredentials' = LiveCredentials
    BY DEF RolePathStep, configVars, LiveCredentials, ConfigInFlight, HeldBy
<1>4. TokenTypeOK' /\ TokensCarryLive'
    BY <1>3 DEF BackendInv, RolePathStep, TokenTypeOK, TokensCarryLive
<1> QED
    BY <1>1, <1>2, <1>4 DEF BackendInv

\* A crash leaves fewer credentials live.
LEMMA CrashBringsNothing ==
    ASSUME BackendInv, Crash
    PROVE  LiveCredentials' \subseteq LiveCredentials
<1>1. BroughtByRequests
    BY StepsBringByRequests DEF BackendInv, Crash, ConfigNext
<1>2. creq \in [ConfigRequests -> ConfigRequest]
    BY DEF BackendInv, ConfigInv, ConfigTypeOK
<1>3. \A r \in ConfigRequests : creq'[r].pc # "load"
    BY <1>2 DEF Crash, ConfigCrash, ConfigInFlight, Answered, NewConfigRequest
<1> QED
    BY <1>1, <1>3 DEF BroughtByRequests

\* A crash answers all requests, and brings no credential back.
LEMMA BackendCrashPreservesInv ==
    ASSUME BackendInv, Crash
    PROVE  BackendInv'
<1>1. ConfigInv' /\ BroughtByRequests
    BY ConfigNextPreservesInv, StepsBringByRequests DEF BackendInv, Crash, ConfigNext
<1>2. RoleInv'
    BY RoleNextPreservesInv DEF BackendInv, Crash, RoleNext
<1>3. LiveCredentials' \subseteq LiveCredentials
    BY CrashBringsNothing
<1>4. ASSUME NEW t \in TokenRequests
      PROVE  treq'[t] \in TokenRequest /\ CarriesLive(treq'[t], LiveCredentials')
  <2>1. treq[t] \in TokenRequest /\ CarriesLive(treq[t], LiveCredentials)
      BY TokenFacts
  <2>2. treq'[t] \in {treq[t], [treq[t] EXCEPT !.pc = "done", !.answer = "failed"]}
      BY DEF Crash, TokenCrash
  <2>3. /\ treq'[t] \in TokenRequest /\ treq'[t].pc \in {treq[t].pc, "done"}
        /\ treq'[t].ids = treq[t].ids /\ treq'[t].cred = treq[t].cred
        /\ treq'[t].token = treq[t].token /\ treq'[t].dead = treq[t].dead
      BY <2>1, <2>2 DEF TokenRequest, Answers
  <2> QED
      BY <1>3, <2>1, <2>3 DEF CarriesLive
<1>5. TokenTypeOK' /\ TokensCarryLive'
    BY <1>4 DEF Crash, TokenCrash, TokenTypeOK, TokensCarryLive
<1> QED
    BY <1>1, <1>2, <1>5 DEF BackendInv

\* One case for each path of the mount, and the crash.
LEMMA BackendNextPreservesInv == BackendInv /\ [BackendNext]_backendVars => BackendInv'
<1> SUFFICES ASSUME BackendInv, [BackendNext]_backendVars
             PROVE  BackendInv'
    OBVIOUS
<1>1. CASE ConfigPathStep
    BY <1>1, ConfigPathPreservesInv
<1>2. CASE RolePathStep
    BY <1>2, RolePathPreservesInv
<1>3. CASE TokenPathStep
    BY <1>3, TokenPathPreservesInv
<1>4. CASE Crash
    BY <1>4, BackendCrashPreservesInv
<1>5. CASE HealthPathStep \/ UNCHANGED backendVars
  <2>1. UNCHANGED configVars /\ UNCHANGED roleVars /\ UNCHANGED treq
      BY <1>5 DEF HealthPathStep, backendVars, configVars, roleVars
  <2>2. ConfigInv' /\ RoleInv'
      BY <2>1, ConfigNextPreservesInv, RoleNextPreservesInv DEF BackendInv
  <2>3. LiveCredentials' = LiveCredentials
      BY <2>1 DEF configVars, LiveCredentials, ConfigInFlight, HeldBy
  <2> QED
      BY <2>1, <2>2, <2>3 DEF BackendInv, TokenTypeOK, TokensCarryLive
<1> QED
    BY <1>1, <1>2, <1>3, <1>4, <1>5 DEF BackendNext

\* The invariant holds in every reachable state of the composition.
THEOREM BackendInvariance == BackendSpec => []BackendInv
<1>1. BackendInit => BackendInv
    BY BackendInitInv
<1>2. BackendInv /\ [BackendNext]_backendVars => BackendInv'
    BY BackendNextPreservesInv
<1> QED
    BY <1>1, <1>2, PTL DEF BackendSpec

\* Every token request keeps its type.
THEOREM TokenTypeCorrect == BackendSpec => []TokenTypeOK
<1>1. BackendInv => TokenTypeOK
    BY DEF BackendInv
<1> QED
    BY <1>1, BackendInvariance, PTL

\* Every token is scoped to exactly one Skyflow role ID.
THEOREM TokensAlwaysScoped == BackendSpec => []TokensScoped
<1>1. BackendInv => TokensScoped
    BY DEF BackendInv, TokensCarryLive, CarriesLive, TokensScoped
<1> QED
    BY <1>1, BackendInvariance, PTL

\* No token is signed with a credential that was cut off when it was asked for.
THEOREM CutOffHolds == BackendSpec => []QuietCutOff
<1>1. BackendInv => QuietCutOff
    BY DEF BackendInv, TokensCarryLive, CarriesLive, QuietCutOff
<1> QED
    BY <1>1, BackendInvariance, PTL
-----------------------------------------------------------------------------
(* The health path *)

\* No step of the config path forgets that a credential was accepted or waived.
LEMMA VettingIsKept ==
    ASSUME [ConfigNext]_configVars
    PROVE  accepted \subseteq accepted' /\ waived \subseteq waived'
BY DEF ConfigNext, ConfigStep, ConfigHandler, ConfigArrival, ConfigCrash, configVars,
       ConfigReject, ConfigLoad, CredentialsAccepted, CredentialsRefused, ConfigSave,
       ConfigSaveFails, ConfigSaveHistory, ConfigHistoryFails, ConfigGetFails,
       ConfigExistenceCheck, ConfigRead, ConfigDelete, ConfigDeleteFails

\* The credential of the stored configuration stands behind the type it reports.
LEMMA StoredStandsBehind ==
    ASSUME ConfigInv, config # Absent,
           NEW verdict, verdict = IF config.path # Empty THEN "file_path" ELSE "json"
    PROVE  Behind(verdict) \cap (accepted \cup waived) # {}
<1>1. /\ config \in SkyflowConfig
      /\ (config.path = Empty) # (config.json = Empty)
      /\ config.json \in WellFormedJSON \cup {Empty}
      /\ Credential(config) \in accepted \cup waived
    BY DEF ConfigInv, ConfigTypeOK, StoredConfigValid, StoredCredentialVetted
<1>2. Credential(config) \in Behind(verdict)
    BY <1>1 DEF Credential, Behind, SkyflowConfig
<1> QED
    BY <1>1, <1>2

\* A request answers with what is stored, and every other step leaves it alone.
LEMMA HealthStepPreservesInv ==
    ASSUME ConfigInv, HealthInv, HealthStep, UNCHANGED configVars
    PROVE  HealthInv'
<1> USE DEF HealthInv, HealthTypeOK, HealthyMeansVetted
<1>1. UNCHANGED <<accepted, waived>>
    BY DEF configVars
<1>2. ASSUME NEW h \in HealthRequests, HealthReadFails(h)
      PROVE  HealthInv'
    BY <1>1, <1>2 DEF HealthReadFails, HealthAnswer, Verdicts
<1>3. ASSUME NEW h \in HealthRequests, HealthRead(h)
      PROVE  HealthInv'
  <2>1. CASE config = Absent
      BY <1>1, <1>3, <2>1 DEF HealthRead, HealthAnswer, Verdicts
  <2>2. CASE config # Absent
    <3> DEFINE verdict == IF config.path # Empty THEN "file_path" ELSE "json"
    <3>1. hreq' = [hreq EXCEPT ![h] = verdict]
        BY <1>3, <2>2 DEF HealthRead, HealthAnswer
    <3>2. verdict \in Verdicts /\ Behind(verdict) \cap (accepted \cup waived) # {}
        BY <2>2, StoredStandsBehind DEF Verdicts
    <3> HIDE DEF verdict
    <3> QED
        BY <1>1, <3>1, <3>2 DEF Behind
  <2> QED
      BY <2>1, <2>2
<1> QED
    BY <1>2, <1>3 DEF HealthStep

\* A verdict that was vetted stays vetted while the other paths go on.
LEMMA HealthNextPreservesInv ==
    ASSUME BackendInv, HealthInv, [BackendNext]_backendVars
    PROVE  HealthInv'
<1>1. CASE HealthPathStep
    BY <1>1, HealthStepPreservesInv DEF HealthPathStep, BackendInv
<1>2. CASE ~HealthPathStep
  <2>1. [ConfigNext]_configVars /\ UNCHANGED hreq
      BY <1>2 DEF BackendNext, ConfigPathStep, RolePathStep, TokenPathStep, Crash,
                  ConfigNext, backendVars, configVars
  <2>2. accepted \subseteq accepted' /\ waived \subseteq waived'
      BY <2>1, VettingIsKept
  <2> QED
      BY <2>1, <2>2 DEF HealthInv, HealthTypeOK, HealthyMeansVetted, Behind
<1> QED
    BY <1>1, <1>2

\* Behind a healthy verdict there has been a vetted credential of its type.
THEOREM HealthyAlwaysVetted == BackendSpec => []HealthyMeansVetted
<1>1. BackendInit => HealthInv
    BY DEF BackendInit, HealthInit, HealthInv, HealthTypeOK, HealthyMeansVetted
<1>2. BackendInv /\ HealthInv /\ [BackendNext]_backendVars => HealthInv'
    BY HealthNextPreservesInv
<1>3. HealthInv => HealthyMeansVetted
    BY DEF HealthInv
<1> QED
    BY <1>1, <1>2, <1>3, BackendInvariance, PTL DEF BackendSpec
-----------------------------------------------------------------------------
(* The paths in the composition *)

\* A step of the mount is, for each path, a step of that path or a stutter.
LEMMA StepOfEachPath ==
    ASSUME [BackendNext]_backendVars
    PROVE  [ConfigNext]_configVars /\ [RoleNext]_roleVars
BY DEF BackendNext, ConfigPathStep, RolePathStep, TokenPathStep, HealthPathStep, Crash,
       ConfigNext, RoleNext, backendVars, configVars, roleVars

\* By the way the mount is composed, each path behaves in it as it does alone, so that a
\* theorem about a path is one about the mount.
LEMMA PathsAreUndisturbed == BackendSpec => ConfigSpec /\ RoleSpec
<1>1. BackendInit => ConfigInit /\ RoleInit
    BY DEF BackendInit
<1>2. [BackendNext]_backendVars => [ConfigNext]_configVars /\ [RoleNext]_roleVars
    BY StepOfEachPath
<1> QED
    BY <1>1, <1>2, PTL DEF BackendSpec, ConfigSpec, RoleSpec

\* Composing the paths breaks no promise: while all of them are served, the
\* configuration and the roles still change at most once for each request that is
\* made to their own path, and by nobody else.
THEOREM MountIsAtMostOnce == BackendSpec => ConfigIsAtMostOnce /\ RoleIsAtMostOnce
BY PathsAreUndisturbed, ConfigsAreAtMostOnce, RolesAreAtMostOnce, PTL

\* Neither composing the paths nor what the token handlers do in between lets a
\* credential or a grant come back that no request brings.
THEOREM MountKeepsAuthority ==
    BackendSpec => CredentialsOnlyFromRequests /\ GrantsOnlyFromRequests
BY PathsAreUndisturbed, CredentialsComeFromRequests, GrantsComeFromRequests, PTL

\* What is stored by a mount is as good as what each path stores alone: valid and
\* vetted, without silent gaps in the history, every role well formed.
THEOREM MountKeepsStorage ==
    BackendSpec => [](/\ StoredConfigValid /\ StoredCredentialVetted
                      /\ HistoryComplete /\ RoleWellFormed)
BY PathsAreUndisturbed, StoredConfigAlwaysValid, StoredCredentialAlwaysVetted,
   HistoryAlwaysComplete, RolesAlwaysWellFormed, PTL
-----------------------------------------------------------------------------
(* Tokens are signed with vetted credentials *)

\* The handler takes the stored credential, which is vetted, and keeps it.
LEMMA TokenStepKeepsVetted ==
    ASSUME BackendInv, TokensCarryVetted, TokenPathStep
    PROVE  TokensCarryVetted'
<1> DEFINE vetted == accepted \cup waived
<1>1. vetted' = vetted
    BY DEF TokenPathStep, configVars
<1>2. ASSUME NEW t \in TokenRequests
      PROVE  treq[t] \in TokenRequest /\ CarriesVetted(treq[t], vetted)
    BY TokenFacts DEF TokensCarryVetted
<1> HIDE DEF vetted
<1>3. ASSUME NEW t \in TokenRequests, NEW q \in TokenRequest,
             treq' = [treq EXCEPT ![t] = q], CarriesVetted(q, vetted)
      PROVE  TokensCarryVetted'
    BY <1>1, <1>2, <1>3 DEF TokensCarryVetted, BackendInv, TokenTypeOK, vetted
<1>4. treq \in [TokenRequests -> TokenRequest]
    BY DEF BackendInv, TokenTypeOK
<1>5. ASSUME NEW t \in TokenRequests, NEW answer \in Answers, TokenAnswer(t, answer)
      PROVE  TokensCarryVetted'
  <2> DEFINE q == [treq[t] EXCEPT !.pc = "done", !.answer = answer]
  <2>1. q \in TokenRequest /\ q.pc = "done" /\ q.token = treq[t].token
      BY <1>2 DEF TokenRequest
  <2>2. treq' = [treq EXCEPT ![t] = q]
      BY <1>4, <1>5 DEF TokenAnswer
  <2> HIDE DEF q
  <2> QED
      BY <1>2, <1>3, <2>1, <2>2 DEF CarriesVetted
<1>6. ASSUME NEW t \in TokenRequests, NEW n \in Names, TokenRole(t, n)
      PROVE  TokensCarryVetted'
  <2>1. /\ treq'[t].pc = "config" /\ treq'[t].token = treq[t].token
        /\ \A u \in TokenRequests : u # t => treq'[u] = treq[u]
      BY <1>2, <1>4, <1>6 DEF TokenRole, TokenRequest
  <2> QED
      BY <1>1, <1>2, <2>1 DEF TokensCarryVetted, CarriesVetted, vetted
<1>7. ASSUME NEW t \in TokenRequests, TokenConfig(t)
      PROVE  TokensCarryVetted'
  <2>1. Credential(config) \in vetted
      BY <1>7 DEF TokenConfig, BackendInv, ConfigInv, StoredCredentialVetted, vetted
  <2>2. /\ treq'[t].cred = Credential(config) /\ treq'[t].token = treq[t].token
        /\ \A u \in TokenRequests : u # t => treq'[u] = treq[u]
      BY <1>2, <1>4, <1>7 DEF TokenConfig, TokenRequest
  <2> QED
      BY <1>1, <1>2, <2>1, <2>2 DEF TokensCarryVetted, CarriesVetted, vetted
<1>8. ASSUME NEW t \in TokenRequests, TokenIssued(t)
      PROVE  TokensCarryVetted'
  <2>1. /\ treq[t].pc = "sdk" /\ treq'[t].pc = "done" /\ treq'[t].token.cred = treq[t].cred
        /\ \A u \in TokenRequests : u # t => treq'[u] = treq[u]
      BY <1>2, <1>4, <1>8 DEF TokenIssued, TokenRequest
  <2> QED
      BY <1>1, <1>2, <2>1 DEF TokensCarryVetted, CarriesVetted, vetted
<1>9. ASSUME NEW t \in TokenRequests, TokenExpire(t)
      PROVE  TokensCarryVetted'
  <2>1. /\ treq'[t].pc = treq[t].pc /\ treq'[t].cred = treq[t].cred
        /\ treq'[t].token = treq[t].token
        /\ \A u \in TokenRequests : u # t => treq'[u] = treq[u]
      BY <1>2, <1>4, <1>9 DEF TokenExpire, TokenRequest
  <2> QED
      BY <1>1, <1>2, <2>1 DEF TokensCarryVetted, CarriesVetted, vetted
<1> QED
    BY <1>5, <1>6, <1>7, <1>8, <1>9
    DEF TokenPathStep, TokenStep, TokenLocal, TokenReply, TokenRoleMissing,
        TokenUnconfigured, TokenGetFails, TokenRefused, Answers

\* What has been vetted stays vetted, and nobody else touches a token request.
LEMMA BackendStepKeepsVetted ==
    ASSUME BackendInv, TokensCarryVetted, [BackendNext]_backendVars
    PROVE  TokensCarryVetted'
<1>1. CASE TokenPathStep
    BY <1>1, TokenStepKeepsVetted
<1>2. CASE ~TokenPathStep
  <2>1. accepted \subseteq accepted' /\ waived \subseteq waived'
      BY StepOfEachPath, VettingIsKept
  <2>2. ASSUME NEW t \in TokenRequests
        PROVE  /\ treq'[t].pc \in {treq[t].pc, "done"}
               /\ treq'[t].cred = treq[t].cred /\ treq'[t].token = treq[t].token
    <3>1. treq[t] \in TokenRequest
        BY TokenFacts
    <3>2. treq'[t] \in {treq[t], [treq[t] EXCEPT !.pc = "done", !.answer = "failed"],
                        [treq[t] EXCEPT !.dead = @ \ ArrivingCredentials]}
        BY <1>2 DEF BackendNext, ConfigPathStep, RolePathStep, HealthPathStep, Crash,
                    TokenCrash, backendVars
    <3> QED
        BY <3>1, <3>2 DEF TokenRequest
  <2>3. \A t \in TokenRequests : CarriesVetted(treq[t], accepted \cup waived)
      BY DEF TokensCarryVetted
  <2> QED
      BY <2>1, <2>2, <2>3 DEF TokensCarryVetted, CarriesVetted
<1> QED
    BY <1>1, <1>2

\* Every token was signed with a credential that Skyflow had accepted or whose
\* validation an operator had waived.
THEOREM TokensAlwaysVetted == BackendSpec => []TokensVetted
<1>1. BackendInit => TokensCarryVetted
    BY DEF BackendInit, TokenInit, NewTokenRequest, TokensCarryVetted, CarriesVetted
<1>2. BackendInv /\ TokensCarryVetted /\ [BackendNext]_backendVars => TokensCarryVetted'
    BY BackendStepKeepsVetted
<1>3. TokensCarryVetted => TokensVetted
    BY DEF TokensCarryVetted, CarriesVetted, TokensVetted
<1> QED
    BY <1>1, <1>2, <1>3, BackendInvariance, PTL DEF BackendSpec
-----------------------------------------------------------------------------
(* The mount implements TokenService *)

\* What is usable can sign, and roles grant single IDs.
ServiceTypeOK ==
    LiveCredentials \subseteq Credentials /\ Grants \in [Names -> SingleIDs \cup {Absent}]

\* ... in every state that the mount reaches.
LEMMA ServiceTypes == BackendInv => ServiceTypeOK
<1> SUFFICES ASSUME BackendInv PROVE ServiceTypeOK
    OBVIOUS
<1>1. ASSUME config # Absent
      PROVE  Credential(config) \in Credentials
  <2>1. /\ config \in SkyflowConfig
        /\ (config.path = Empty) # (config.json = Empty)
      BY <1>1 DEF BackendInv, ConfigInv, ConfigTypeOK, StoredConfigValid
  <2> QED
      BY <2>1 DEF SkyflowConfig, Credential, Credentials
<1>2. ASSUME NEW r \in ConfigInFlight
      PROVE  HeldBy(r) \subseteq Credentials
  <2>1. r \in ConfigRequests /\ creq[r] \in ConfigRequest /\ creq[r].pc \notin {"new", "done"}
      BY <1>2 DEF ConfigInFlight, BackendInv, ConfigInv, ConfigTypeOK
  <2>2. CarriesValid(creq[r], accepted, waived)
      BY <2>1 DEF BackendInv, ConfigInv, RequestsCarryValid
  <2>3. CASE creq[r].cfg = Absent
      BY <2>3 DEF HeldBy, Supplied
  <2>4. CASE creq[r].cfg # Absent
    <3>1. creq[r].cfg \in SkyflowConfig /\ Valid(creq[r].cfg)
        BY <2>1, <2>2, <2>4 DEF CarriesValid, ConfigRequest
    <3>2. Credential(creq[r].cfg) \in Credentials
        BY <3>1 DEF SkyflowConfig, Valid, Credential, Credentials
    <3> QED
        BY <2>4, <3>2 DEF HeldBy
  <2> QED
      BY <2>3, <2>4
<1>3. \A n \in Names : roles[n] # Absent => roles[n].ids \in {ids \in Seq(RoleIDs) : Len(ids) = 1}
    BY DEF BackendInv, RoleInv, RoleTypeOK, RoleWellFormed, SkyflowRole
<1> QED
    BY <1>1, <1>2, <1>3 DEF LiveCredentials, ServiceTypeOK, Grants, SingleIDs

\* Whatever has been usable since a request was received may sign for it.
LEMMA UsableMaySign ==
    ASSUME BackendInv, NEW t \in TokenRequests, treq[t].pc \in {"config", "sdk"}
    PROVE  /\ AskOf(treq[t]) = TokenStore!Ask("pending", treq[t].ids,
                                              Credentials \ treq[t].dead, Absent)
           /\ LiveCredentials \subseteq Credentials \ treq[t].dead
BY TokenFacts, ServiceTypes DEF ServiceTypeOK, CarriesLive, AskOf, TokenStore!Ask

\* A request is pending for its client exactly while its handler is between the two.
LEMMA AskPhases ==
    ASSUME NEW q \in TokenRequest
    PROVE  /\ q.pc = "new" <=> AskOf(q).phase = "idle"
           /\ q.pc \in {"config", "sdk"} <=> AskOf(q).phase = "pending"
           /\ q.pc \in {"config", "sdk"} => AskOf(q).may = Credentials \ q.dead
BY DEF TokenRequest, AskOf

\* A step of one handler changes what one client sees.
LEMMA OneAskChanges ==
    ASSUME BackendInv, NEW t \in TokenRequests, NEW q, treq' = [treq EXCEPT ![t] = q]
    PROVE  [u \in TokenRequests |-> AskOf(treq[u])]' =
               [[u \in TokenRequests |-> AskOf(treq[u])] EXCEPT ![t] = AskOf(q)]
BY DEF BackendInv, TokenTypeOK

\* An answered request that got no token is a refused one.
LEMMA AnswerRefuses ==
    ASSUME BackendInv, NEW t \in TokenRequests, NEW answer,
           treq[t].pc \in {"new", "config", "sdk"}, TokenAnswer(t, answer),
           UNCHANGED configVars, UNCHANGED roleVars
    PROVE  TokenStore!Refuse(t)
<1> DEFINE q == [treq[t] EXCEPT !.pc = "done", !.answer = answer]
<1>1. treq[t] \in TokenRequest /\ treq[t].token = Absent
    BY TokenFacts DEF CarriesLive
<1>2. q.pc = "done" /\ q.token = Absent /\ treq' = [treq EXCEPT ![t] = q]
    BY <1>1 DEF TokenAnswer, TokenRequest, BackendInv, TokenTypeOK
<1> HIDE DEF q
<1>3. AskOf(q) = TokenStore!Refused
    BY <1>2 DEF AskOf, TokenStore!Refused, TokenStore!Ask
<1>4. [u \in TokenRequests |-> AskOf(treq[u])]' =
          [[u \in TokenRequests |-> AskOf(treq[u])] EXCEPT ![t] = TokenStore!Refused]
    BY <1>2, <1>3, OneAskChanges
<1>5. AskOf(treq[t]).phase \in {"idle", "pending"}
    BY <1>1, AskPhases
<1>6. LiveCredentials' = LiveCredentials /\ Grants' = Grants
    BY DEF Grants, configVars, roleVars, LiveCredentials, ConfigInFlight, HeldBy
<1> QED
    BY <1>4, <1>5, <1>6 DEF TokenStore!Refuse

\* A token handler that has found its role is received, with what the role grants.
LEMMA RoleReceives ==
    ASSUME BackendInv, NEW t \in TokenRequests, NEW n \in Names, TokenRole(t, n),
           UNCHANGED configVars, UNCHANGED roleVars
    PROVE  TokenStore!Receive(t, n)
<1> DEFINE q == [treq[t] EXCEPT !.pc = "config", !.ids = roles[n].ids,
                    !.dead = Credentials \ LiveCredentials]
<1>1. treq[t] \in TokenRequest /\ treq[t].token = Absent /\ treq[t].pc = "new"
    BY TokenFacts DEF CarriesLive, TokenRole
<1>2. /\ q.pc = "config" /\ q.ids = roles[n].ids /\ q.token = Absent
      /\ q.dead = Credentials \ LiveCredentials
      /\ treq' = [treq EXCEPT ![t] = q]
    BY <1>1 DEF TokenRole, TokenRequest, BackendInv, TokenTypeOK
<1> HIDE DEF q
<1>3. Credentials \ q.dead = LiveCredentials
    BY <1>2, ServiceTypes DEF ServiceTypeOK
<1>4. Grants[n] = roles[n].ids /\ roles[n].ids # Absent
  <2>1. roles[n] # Absent /\ roles[n].ids \in Seq(RoleIDs)
      BY DEF TokenRole, BackendInv, RoleInv, RoleTypeOK, SkyflowRole
  <2> QED
      BY <2>1, RoleAssumption DEF Grants
<1>5. AskOf(q) = TokenStore!Ask("pending", Grants[n], LiveCredentials, Absent)
    BY <1>2, <1>3, <1>4 DEF AskOf, TokenStore!Ask
<1>6. [u \in TokenRequests |-> AskOf(treq[u])]' =
          [[u \in TokenRequests |-> AskOf(treq[u])] EXCEPT ![t] = AskOf(q)]
    BY <1>2, OneAskChanges
<1>7. AskOf(treq[t]).phase = "idle"
    BY <1>1, AskPhases
<1>8. LiveCredentials' = LiveCredentials /\ Grants' = Grants
    BY DEF Grants, configVars, roleVars, LiveCredentials, ConfigInFlight, HeldBy
<1> QED
    BY <1>4, <1>5, <1>6, <1>7, <1>8 DEF TokenStore!Receive

\* The credential that signs has been read since the request was received.
LEMMA IssuedIsAuthorised ==
    ASSUME BackendInv, NEW t \in TokenRequests, TokenIssued(t),
           UNCHANGED configVars, UNCHANGED roleVars
    PROVE  TokenStore!Issue(t)
<1> DEFINE token == [cred |-> treq[t].cred, ids |-> treq[t].ids]
           q == [treq[t] EXCEPT !.pc = "done", !.answer = "ok", !.token = token]
<1>1. /\ treq[t] \in TokenRequest /\ treq[t].pc = "sdk"
      /\ treq[t].cred \in Credentials \ treq[t].dead
    BY TokenFacts DEF CarriesLive, TokenIssued
<1>2. q.pc = "done" /\ q.token = token /\ treq' = [treq EXCEPT ![t] = q]
    BY <1>1 DEF TokenIssued, TokenRequest, BackendInv, TokenTypeOK
<1>3. token \in BearerToken /\ token.cred = treq[t].cred /\ token.ids = treq[t].ids
    BY <1>1, TokenFacts DEF CarriesLive, TokenIssued, BearerToken
<1>4. token # Absent
    BY <1>3, TokenAssumption
<1> HIDE DEF token
<1> HIDE DEF q
<1>5. AskOf(q) = TokenStore!Issued(token)
    BY <1>2, <1>4 DEF AskOf, TokenStore!Issued, TokenStore!Ask
<1>6. [u \in TokenRequests |-> AskOf(treq[u])]' =
          [[u \in TokenRequests |-> AskOf(treq[u])] EXCEPT ![t] = TokenStore!Issued(token)]
    BY <1>2, <1>5, OneAskChanges
<1>7. /\ AskOf(treq[t]).phase = "pending" /\ AskOf(treq[t]).scope = treq[t].ids
      /\ treq[t].cred \in AskOf(treq[t]).may
    BY <1>1 DEF AskOf
<1>8. LiveCredentials' = LiveCredentials /\ Grants' = Grants
    BY DEF Grants, configVars, roleVars, LiveCredentials, ConfigInFlight, HeldBy
<1>9. TokenStore!Issued(token) = TokenStore!Issued([cred |-> treq[t].cred,
                                                    ids |-> AskOf(treq[t]).scope])
    BY <1>7 DEF token
<1> QED
    BY <1>6, <1>7, <1>8, <1>9 DEF TokenStore!Issue

\* Reading the configuration, and a deadline that passes, are hidden from the client.
LEMMA ReadingIsHidden ==
    ASSUME BackendInv, NEW t \in TokenRequests, TokenConfig(t) \/ TokenExpire(t),
           UNCHANGED configVars, UNCHANGED roleVars
    PROVE  UNCHANGED TokenStore!serviceVars
<1>1. treq[t] \in TokenRequest /\ treq \in [TokenRequests -> TokenRequest]
    BY DEF BackendInv, TokenTypeOK
<1>2. /\ treq'[t].pc = treq[t].pc \/ (treq[t].pc = "config" /\ treq'[t].pc = "sdk")
      /\ treq'[t].ids = treq[t].ids /\ treq'[t].dead = treq[t].dead
      /\ treq'[t].token = treq[t].token
      /\ \A u \in TokenRequests : u # t => treq'[u] = treq[u]
    BY <1>1 DEF TokenConfig, TokenExpire, TokenRequest
<1>3. \A u \in TokenRequests : AskOf(treq'[u]) = AskOf(treq[u])
    BY <1>2 DEF AskOf
<1>4. LiveCredentials' = LiveCredentials /\ Grants' = Grants
    BY DEF Grants, configVars, roleVars, LiveCredentials, ConfigInFlight, HeldBy
<1> QED
    BY <1>3, <1>4 DEF TokenStore!serviceVars

\* If the handlers move no token request, what its client sees changes only in the
\* credentials that may sign for it; and these are what was usable in the meantime.
LEMMA OperatorsManage ==
    ASSUME BackendInv, BackendInv',
           \A t \in TokenRequests : /\ treq'[t].pc = treq[t].pc
                                    /\ treq'[t].ids = treq[t].ids
                                    /\ treq'[t].token = treq[t].token
                                    /\ treq'[t].dead \subseteq treq[t].dead
                                    /\ treq[t].dead \ treq'[t].dead \subseteq LiveCredentials'
    PROVE  TokenStore!Manage
<1>1. ServiceTypeOK'
    BY ServiceTypes, PTL
<1>2. ASSUME NEW t \in TokenRequests
      PROVE  AskOf(treq'[t]) = IF AskOf(treq[t]).phase = "pending"
                               THEN [AskOf(treq[t]) EXCEPT !.may = @ \cup LiveCredentials']
                               ELSE AskOf(treq[t])
  <2>1. treq[t] \in TokenRequest /\ treq'[t] \in TokenRequest
      BY DEF BackendInv, TokenTypeOK
  <2>2. treq'[t].dead \cap LiveCredentials' = {}
      BY DEF BackendInv, TokensCarryLive, CarriesLive
  <2>3. Credentials \ treq'[t].dead = (Credentials \ treq[t].dead) \cup LiveCredentials'
      BY <1>1, <2>2 DEF ServiceTypeOK
  <2>4. CASE treq[t].pc \in {"config", "sdk"}
      BY <2>1, <2>3, <2>4 DEF AskOf
  <2>5. CASE treq[t].pc \notin {"config", "sdk"}
    <3>1. AskOf(treq[t]).phase # "pending"
        BY <2>1, <2>5, AskPhases
    <3> QED
        BY <2>5, <3>1 DEF AskOf
  <2> QED
      BY <2>4, <2>5
<1> QED
    BY <1>1, <1>2 DEF TokenStore!Manage, ServiceTypeOK

\* The credentials that requests bring are usable from their arrival.
LEMMA ArrivingIsLive ==
    ASSUME BackendInv', ConfigPathStep
    PROVE  ArrivingCredentials \subseteq LiveCredentials'
<1> SUFFICES ASSUME NEW r \in ConfigRequests, creq[r].pc = "new", creq'[r].pc = "load"
             PROVE  Supplied(creq'[r].in) \subseteq LiveCredentials'
    BY DEF ArrivingCredentials
<1>1. creq'[r].cfg = Absent
    BY DEF BackendInv, ConfigInv, RequestsCarryValid, CarriesValid
<1> QED
    BY <1>1 DEF LiveCredentials, ConfigInFlight, HeldBy

\* A crash refuses the requests that are waiting, and brings nothing back.
LEMMA CrashLoses ==
    ASSUME BackendInv, Crash
    PROVE  TokenStore!Lose
<1>1. LiveCredentials' \subseteq LiveCredentials
    BY CrashBringsNothing
<1>2. Grants' = Grants
    BY DEF Grants, Crash, RoleCrash
<1>3. ASSUME NEW t \in TokenRequests
      PROVE  AskOf(treq'[t]) = IF AskOf(treq[t]).phase = "pending"
                               THEN TokenStore!Refused ELSE AskOf(treq[t])
  <2>1. treq[t] \in TokenRequest /\ CarriesLive(treq[t], LiveCredentials)
      BY TokenFacts
  <2>2. treq'[t] = IF treq[t].pc \in {"config", "sdk"}
                   THEN [treq[t] EXCEPT !.pc = "done", !.answer = "failed"] ELSE treq[t]
      BY <2>1 DEF Crash, TokenCrash, TokenInFlight, TokenRequest
  <2>3. CASE treq[t].pc \in {"config", "sdk"}
    <3>1. treq'[t].pc = "done" /\ treq'[t].token = Absent
        BY <2>1, <2>2, <2>3 DEF TokenRequest, CarriesLive
    <3>2. AskOf(treq'[t]) = TokenStore!Refused
        BY <3>1 DEF AskOf, TokenStore!Refused, TokenStore!Ask
    <3> QED
        BY <2>1, <2>3, <3>2, AskPhases
  <2>4. CASE treq[t].pc \notin {"config", "sdk"}
      BY <2>1, <2>2, <2>4, AskPhases
  <2> QED
      BY <2>3, <2>4
<1> QED
    BY <1>1, <1>2, <1>3 DEF TokenStore!Lose

\* Every step of the mount is a step of TokenService or hidden from the clients.
LEMMA BackendStepIsServiceStep ==
    BackendInv /\ BackendInv' /\ [BackendNext]_backendVars =>
        [TokenStore!Next]_(TokenStore!serviceVars)
<1> SUFFICES ASSUME BackendInv, BackendInv', [BackendNext]_backendVars
             PROVE  TokenStore!Next \/ UNCHANGED TokenStore!serviceVars
    OBVIOUS
<1>1. CASE ConfigPathStep
  <2>1. ArrivingCredentials \subseteq LiveCredentials'
      BY <1>1, ArrivingIsLive
  <2>2. ASSUME NEW t \in TokenRequests
        PROVE  /\ treq'[t].pc = treq[t].pc /\ treq'[t].ids = treq[t].ids
               /\ treq'[t].token = treq[t].token
               /\ treq'[t].dead = treq[t].dead \ ArrivingCredentials
    <3>1. treq[t] \in TokenRequest
        BY TokenFacts
    <3>2. treq'[t] = [treq[t] EXCEPT !.dead = @ \ ArrivingCredentials]
        BY <1>1 DEF ConfigPathStep
    <3> QED
        BY <3>1, <3>2 DEF TokenRequest
  <2>3. TokenStore!Manage
      BY <2>1, <2>2, OperatorsManage
  <2> QED
      BY <2>3 DEF TokenStore!Next
<1>2. CASE RolePathStep
  <2>1. TokenStore!Manage
      BY <1>2, OperatorsManage DEF RolePathStep
  <2> QED
      BY <2>1 DEF TokenStore!Next
<1>3. CASE TokenPathStep
  <2>1. UNCHANGED configVars /\ UNCHANGED roleVars
      BY <1>3 DEF TokenPathStep
  <2>2. ASSUME NEW t \in TokenRequests, NEW n \in Names, TokenRole(t, n)
        PROVE  TokenStore!Next
    <3>1. TokenStore!Receive(t, n)
        BY <2>1, <2>2, RoleReceives
    <3> QED
        BY <3>1 DEF TokenStore!Next
  <2>3. ASSUME NEW t \in TokenRequests, TokenIssued(t)
        PROVE  TokenStore!Next
    <3>1. TokenStore!Issue(t)
        BY <2>1, <2>3, IssuedIsAuthorised
    <3> QED
        BY <3>1 DEF TokenStore!Next
  <2>4. ASSUME NEW t \in TokenRequests,
               \/ \E n \in Names : TokenRoleMissing(t, n)
               \/ TokenUnconfigured(t) \/ TokenGetFails(t) \/ TokenRefused(t)
        PROVE  TokenStore!Next
    <3>1. /\ treq[t].pc \in {"new", "config", "sdk"}
          /\ TokenAnswer(t, "rejected") \/ TokenAnswer(t, "failed")
        BY <2>4 DEF TokenRoleMissing, TokenUnconfigured, TokenGetFails, TokenRefused
    <3>2. TokenStore!Refuse(t)
        BY <2>1, <3>1, AnswerRefuses
    <3> QED
        BY <3>2 DEF TokenStore!Next
  <2>5. ASSUME NEW t \in TokenRequests, TokenConfig(t) \/ TokenExpire(t)
        PROVE  UNCHANGED TokenStore!serviceVars
      BY <2>1, <2>5, ReadingIsHidden
  <2> QED
      BY <1>3, <2>2, <2>3, <2>4, <2>5 DEF TokenPathStep, TokenStep, TokenLocal, TokenReply
<1>4. CASE Crash
  <2>1. TokenStore!Lose
      BY <1>4, CrashLoses
  <2> QED
      BY <2>1 DEF TokenStore!Next
<1>5. CASE HealthPathStep \/ UNCHANGED backendVars
  <2>1. UNCHANGED configVars /\ UNCHANGED roleVars /\ UNCHANGED treq
      BY <1>5 DEF HealthPathStep, backendVars, configVars, roleVars
  <2>2. LiveCredentials' = LiveCredentials /\ Grants' = Grants
      BY <2>1 DEF Grants, configVars, roleVars, LiveCredentials, ConfigInFlight, HeldBy
  <2> QED
      BY <2>1, <2>2 DEF TokenStore!serviceVars
<1> QED
    BY <1>1, <1>2, <1>3, <1>4, <1>5 DEF BackendNext

\* The mount implements TokenService.
THEOREM MountIsTokenService == BackendSpec => TokensAreAuthorised
<1>1. BackendInit => TokenStore!Init
  <2> SUFFICES ASSUME BackendInit PROVE TokenStore!Init
      OBVIOUS
  <2>1. ServiceTypeOK
      BY BackendInitInv, ServiceTypes
  <2>2. \A t \in TokenRequests : AskOf(treq[t]) = TokenStore!Idle
      BY DEF BackendInit, TokenInit, NewTokenRequest, AskOf, TokenStore!Idle, TokenStore!Ask
  <2> QED
      BY <2>1, <2>2 DEF ServiceTypeOK, TokenStore!Init
<1>2. BackendInv /\ BackendInv' /\ [BackendNext]_backendVars =>
          [TokenStore!Next]_(TokenStore!serviceVars)
    BY BackendStepIsServiceStep
<1> QED
    BY <1>1, <1>2, BackendInvariance, PTL DEF BackendSpec, TokensAreAuthorised, TokenStore!Spec
=============================================================================
