------------------------- MODULE ConfigPath_proofs -------------------------
(***************************************************************************)
(* Proofs about ConfigPath, for every set of requests, of credentials, of  *)
(* descriptions and of inputs, with and without storage faults.            *)
(***************************************************************************)
EXTENDS ConfigPath, TLAPS

-----------------------------------------------------------------------------
(* Facts about the operators *)

\* defaultConfig() is a configuration, and not a valid one.
LEMMA DefaultConfigType == defaultConfig \in SkyflowConfig /\ ~Valid(defaultConfig)
BY StorageAssumption DEF defaultConfig, SkyflowConfig, Valid

\* Merging a request into a configuration gives a configuration of that version.
LEMMA MergeType ==
    ASSUME NEW cfg \in SkyflowConfig, NEW in \in WriteInput
    PROVE  /\ Merge(cfg, in) \in SkyflowConfig
           /\ Merge(cfg, in).version = cfg.version
BY DEF Merge, SkyflowConfig, WriteInput

\* A valid merge uses the credential the request supplies, if it supplies one,
\* and the credential of the configuration otherwise.
LEMMA MergeCredential ==
    ASSUME NEW cfg \in SkyflowConfig, NEW in \in WriteInput, Valid(Merge(cfg, in))
    PROVE  /\ Credential(Merge(cfg, in)) \in Credentials
           /\ Supplied(in) # {} => Supplied(in) = {Credential(Merge(cfg, in))}
           /\ Supplied(in) = {} => Credential(Merge(cfg, in)) = Credential(cfg)
BY ConfigAssumption DEF Merge, SkyflowConfig, WriteInput, Valid, Credential, Supplied, Credentials

\* A merge leaves the description alone when the request does not carry one.
LEMMA MergeDescription ==
    ASSUME NEW cfg \in SkyflowConfig, NEW in \in WriteInput, in.desc = Absent
    PROVE  Merge(cfg, in).desc = cfg.desc
BY DEF Merge, SkyflowConfig, WriteInput

\* Incrementing the version changes nothing else.
LEMMA NextVersionFacts ==
    ASSUME NEW cfg \in SkyflowConfig
    PROVE  /\ NextVersion(cfg) \in SkyflowConfig
           /\ NextVersion(cfg).version = cfg.version + 1
           /\ NextVersion(cfg).desc = cfg.desc
           /\ Credential(NextVersion(cfg)) = Credential(cfg)
           /\ Valid(cfg) => Valid(NextVersion(cfg))
BY DEF NextVersion, SkyflowConfig, Credential, Valid

\* Putting a history entry adds its version and keeps the others.
LEMMA PutHistoryFacts ==
    ASSUME NEW cfg \in SkyflowConfig, ConfigTypeOK
    PROVE  /\ DOMAIN PutHistory(cfg) = DOMAIN history \cup {cfg.version}
           /\ DOMAIN PutHistory(cfg) \subseteq Nat
           /\ \A v \in DOMAIN PutHistory(cfg) : PutHistory(cfg)[v] \in Descriptions
BY DEF PutHistory, SkyflowConfig, ConfigTypeOK

\* An answered request is a request.
LEMMA AnsweredType ==
    ASSUME NEW answer \in Answers
    PROVE  /\ Answered(answer) \in ConfigRequest
           /\ Answered(answer).pc = "done"
           /\ Answered(answer).cfg = Absent
BY DEF Answered, NewConfigRequest, ConfigRequest, Answers

\* What a request carries stays vetted as more credentials are vetted.
LEMMA CarriesValidMonotone ==
    ASSUME NEW q, NEW acc, NEW wav, NEW acc2, NEW wav2,
           CarriesValid(q, acc, wav), acc \subseteq acc2, wav \subseteq wav2
    PROVE  CarriesValid(q, acc2, wav2)
BY DEF CarriesValid

\* A request that has been answered carries nothing.
LEMMA AnsweredCarriesNothing ==
    ASSUME NEW answer, NEW acc, NEW wav
    PROVE  CarriesValid(Answered(answer), acc, wav)
BY DEF CarriesValid, Answered, NewConfigRequest
-----------------------------------------------------------------------------
(* The inductive invariant *)

\* Nothing has been saved and nobody carries anything yet.
LEMMA ConfigInitInv == ConfigInit => ConfigInv
<1> SUFFICES ASSUME ConfigInit PROVE ConfigInv
    OBVIOUS
<1>1. ConfigTypeOK
    BY DEF ConfigInit, ConfigTypeOK, NewConfigRequest, ConfigRequest, Answers
<1>2. RequestsCarryValid
    BY DEF ConfigInit, RequestsCarryValid, CarriesValid, NewConfigRequest
<1>3. StoredConfigValid /\ StoredCredentialVetted
    BY DEF ConfigInit, StoredConfigValid, StoredCredentialVetted
<1> QED
    BY <1>1, <1>2, <1>3 DEF ConfigInv

\* Answering a request, with or without deleting the configuration, preserves the
\* invariant.
LEMMA AnswerPreservesInv ==
    ASSUME ConfigInv, NEW r \in ConfigRequests, NEW answer \in Answers,
           ConfigAnswer(r, answer), config' \in {config, Absent},
           UNCHANGED <<history, accepted, waived, reported>>
    PROVE  ConfigInv'
<1>1. ConfigTypeOK'
    BY AnsweredType DEF ConfigInv, ConfigTypeOK, ConfigAnswer
<1>2. RequestsCarryValid'
    BY AnsweredCarriesNothing DEF ConfigInv, ConfigTypeOK, RequestsCarryValid, ConfigAnswer
<1>3. StoredConfigValid' /\ StoredCredentialVetted'
    BY DEF ConfigInv, StoredConfigValid, StoredCredentialVetted
<1> QED
    BY <1>1, <1>2, <1>3 DEF ConfigInv

\* The existence check gives the request its input and, if the input switches
\* validation off, waives the vetting of the credential it supplies.
LEMMA ExistenceCheckPreservesInv ==
    ASSUME ConfigInv, NEW r \in ConfigRequests, NEW in \in ConfigWrites,
           ConfigExistenceCheck(r, in)
    PROVE  ConfigInv'
<1> USE DEF ConfigInv, ConfigExistenceCheck
<1>1. in \in WriteInput /\ Supplied(in) \subseteq Credentials
    BY ConfigAssumption DEF Supplied
<1>2. ConfigTypeOK'
  <2>1. creq[r] \in ConfigRequest
      BY DEF ConfigTypeOK
  <2>2. [creq[r] EXCEPT !.pc = "load", !.in = in,
            !.op = IF config = Absent THEN "create" ELSE "update"] \in ConfigRequest
      BY <1>1, <2>1 DEF ConfigRequest
  <2>3. creq' \in [ConfigRequests -> ConfigRequest]
      BY <2>2 DEF ConfigTypeOK
  <2> QED
      BY <1>1, <2>3 DEF ConfigTypeOK
<1>3. RequestsCarryValid'
  <2>1. waived \subseteq waived'
      OBVIOUS
  <2>2. CarriesValid(creq'[r], accepted', waived')
    <3>1. creq[r].cfg = Absent
        BY DEF RequestsCarryValid, CarriesValid
    <3>2. creq'[r].pc = "load" /\ creq'[r].in = in /\ creq'[r].cfg = Absent
        BY <3>1 DEF ConfigTypeOK, ConfigRequest
    <3>3. ~in.validate => Supplied(in) \subseteq waived'
        OBVIOUS
    <3> QED
        BY <1>1, <3>2, <3>3 DEF CarriesValid
  <2>3. ASSUME NEW q \in ConfigRequests, q # r
        PROVE  CarriesValid(creq'[q], accepted', waived')
      BY <2>1, <2>3, CarriesValidMonotone DEF ConfigTypeOK, RequestsCarryValid
  <2> QED
      BY <2>2, <2>3 DEF RequestsCarryValid
<1>4. StoredConfigValid' /\ StoredCredentialVetted'
    BY DEF StoredConfigValid, StoredCredentialVetted
<1> QED
    BY <1>2, <1>3, <1>4

\* What a request that passes its load carries: the heart of the matter.  A merge
\* that is valid uses the request's own credential or that of the stored
\* configuration, which is vetted.
LEMMA LoadCarries ==
    ASSUME ConfigInv, NEW r \in ConfigRequests, creq[r].pc = "load", Valid(Merged(r))
    PROVE  /\ Base(r) \in SkyflowConfig \cup {Absent}
           /\ Merged(r) \in SkyflowConfig
           /\ Credential(Merged(r)) \in Credentials
           /\ \/ Supplied(creq[r].in) = {Credential(Merged(r))}
              \/ config # Absent /\ Credential(Merged(r)) = Credential(config)
           /\ ~creq[r].in.validate => Credential(Merged(r)) \in accepted \cup waived
<1> DEFINE base == IF Base(r) = Absent THEN defaultConfig ELSE Base(r)
<1>1. creq[r].in \in WriteInput
    BY DEF ConfigInv, RequestsCarryValid, CarriesValid
<1>2. Base(r) \in SkyflowConfig \cup {Absent} /\ base \in SkyflowConfig
    BY DefaultConfigType DEF ConfigInv, ConfigTypeOK, Base
<1>3. Merged(r) = Merge(base, creq[r].in)
    BY DEF Merged
<1> HIDE DEF base
<1>4. Merged(r) \in SkyflowConfig /\ Credential(Merged(r)) \in Credentials
    BY <1>1, <1>2, <1>3, MergeType, MergeCredential
<1>5. CASE Supplied(creq[r].in) # {}
  <2>1. Supplied(creq[r].in) = {Credential(Merged(r))}
      BY <1>1, <1>2, <1>3, <1>5, MergeCredential
  <2>2. ~creq[r].in.validate => Supplied(creq[r].in) \subseteq waived
      BY DEF ConfigInv, RequestsCarryValid, CarriesValid
  <2> QED
      BY <1>2, <1>4, <2>1, <2>2
<1>6. CASE Supplied(creq[r].in) = {}
  <2>1. Credential(Merged(r)) = Credential(base)
      BY <1>1, <1>2, <1>3, <1>6, MergeCredential
  <2>2. Credential(defaultConfig) \notin Credentials
      BY ConfigAssumption DEF defaultConfig, Credential
  <2>3. Base(r) # Absent
      BY <1>4, <2>1, <2>2 DEF base
  <2>4. config # Absent /\ Credential(Merged(r)) = Credential(config)
      BY <2>1, <2>3 DEF base, Base
  <2>5. Credential(Merged(r)) \in accepted \cup waived
      BY <2>4 DEF ConfigInv, StoredCredentialVetted
  <2> QED
      BY <1>2, <1>4, <2>4, <2>5
<1> QED
    BY <1>5, <1>6

\* Loading changes one request only, which then carries what LoadCarries says.
LEMMA LoadPreservesInv ==
    ASSUME ConfigInv, NEW r \in ConfigRequests, ConfigLoad(r)
    PROVE  ConfigInv'
<1>1. /\ Base(r) \in SkyflowConfig \cup {Absent}
      /\ Merged(r) \in SkyflowConfig
      /\ ~creq[r].in.validate => Credential(Merged(r)) \in accepted \cup waived
    BY LoadCarries DEF ConfigLoad
<1>2. ConfigTypeOK'
    BY <1>1 DEF ConfigInv, ConfigTypeOK, ConfigRequest, ConfigLoad
<1>3. RequestsCarryValid'
  <2>1. CarriesValid(creq[r], accepted, waived)
      BY DEF ConfigInv, RequestsCarryValid
  <2>2. Merged(r) = Merge(IF Base(r) = Absent THEN defaultConfig ELSE Base(r), creq[r].in)
      BY DEF Merged
  <2>3. /\ creq'[r].pc = IF creq[r].in.validate THEN "validate" ELSE "save"
        /\ creq'[r].in = creq[r].in
        /\ creq'[r].cfg = Merged(r)
        /\ creq'[r].base = Base(r)
      BY DEF ConfigInv, ConfigTypeOK, ConfigRequest, ConfigLoad
  <2>4. creq[r].in \in WriteInput /\ creq[r].in.validate \in BOOLEAN
      BY <2>1 DEF CarriesValid, ConfigLoad, WriteInput
  <2>5. Valid(Merged(r)) /\ accepted' = accepted /\ waived' = waived
      BY DEF ConfigLoad
  <2>6. ~creq[r].in.validate => Supplied(creq[r].in) \subseteq waived
      BY <2>1 DEF CarriesValid, ConfigLoad
  <2>7. CarriesValid(creq'[r], accepted', waived')
    <3>1. CASE creq[r].in.validate
        BY <1>1, <2>2, <2>3, <2>4, <2>5, <3>1 DEF CarriesValid
    <3>2. CASE ~creq[r].in.validate
        BY <1>1, <2>2, <2>3, <2>4, <2>5, <2>6, <3>2 DEF CarriesValid
    <3> QED
        BY <3>1, <3>2
  <2>8. ASSUME NEW q \in ConfigRequests, q # r
        PROVE  CarriesValid(creq'[q], accepted', waived')
      BY <2>8 DEF ConfigInv, ConfigTypeOK, RequestsCarryValid, ConfigLoad
  <2> QED
      BY <2>7, <2>8 DEF RequestsCarryValid
<1>4. StoredConfigValid' /\ StoredCredentialVetted'
    BY DEF ConfigInv, ConfigLoad, StoredConfigValid, StoredCredentialVetted
<1> QED
    BY <1>2, <1>3, <1>4 DEF ConfigInv

\* A successful validation adds the credential of the request to the vetted ones.
LEMMA AcceptedPreservesInv ==
    ASSUME ConfigInv, NEW r \in ConfigRequests, CredentialsAccepted(r)
    PROVE  ConfigInv'
<1> USE DEF ConfigInv, CredentialsAccepted
<1>1. CarriesValid(creq[r], accepted, waived) /\ creq[r] \in ConfigRequest
    BY DEF ConfigTypeOK, RequestsCarryValid
<1>2. Credential(creq[r].cfg) \in Credentials
    BY <1>1 DEF CarriesValid, SkyflowConfig, Valid, Credential, Credentials
<1>3. ConfigTypeOK'
  <2>1. [creq[r] EXCEPT !.pc = "save"] \in ConfigRequest
      BY <1>1 DEF ConfigRequest
  <2>2. creq' \in [ConfigRequests -> ConfigRequest]
      BY <2>1 DEF ConfigTypeOK
  <2> QED
      BY <1>2, <2>2 DEF ConfigTypeOK
<1>4. RequestsCarryValid'
  <2>1. CarriesValid(creq'[r], accepted', waived')
    <3>1. creq'[r] = [creq[r] EXCEPT !.pc = "save"]
        BY DEF ConfigTypeOK
    <3>2. /\ creq'[r].pc = "save" /\ creq'[r].in = creq[r].in
          /\ creq'[r].cfg = creq[r].cfg /\ creq'[r].base = creq[r].base
        BY <1>1, <3>1 DEF ConfigRequest
    <3> QED
        BY <1>1, <3>2 DEF CarriesValid
  <2>2. ASSUME NEW q \in ConfigRequests, q # r
        PROVE  CarriesValid(creq'[q], accepted', waived')
      BY <2>2, CarriesValidMonotone DEF ConfigTypeOK, RequestsCarryValid
  <2> QED
      BY <2>1, <2>2 DEF RequestsCarryValid
<1>5. StoredConfigValid' /\ StoredCredentialVetted'
    BY DEF StoredConfigValid, StoredCredentialVetted
<1> QED
    BY <1>3, <1>4, <1>5

\* What is about to be saved is fit to be stored.
LEMMA SavedConfigFit ==
    ASSUME ConfigInv, NEW r \in ConfigRequests, creq[r].pc \in {"save", "history"}
    PROVE  /\ creq[r].cfg \in SkyflowConfig /\ NextVersion(creq[r].cfg) \in SkyflowConfig
           /\ Valid(NextVersion(creq[r].cfg))
           /\ Credential(NextVersion(creq[r].cfg)) \in accepted \cup waived
           /\ NextVersion(creq[r].cfg).version = creq[r].cfg.version + 1
           /\ creq[r].cfg.version \in Nat
<1>1. CarriesValid(creq[r], accepted, waived)
    BY DEF ConfigInv, RequestsCarryValid
<1> QED
    BY <1>1, NextVersionFacts DEF CarriesValid, SkyflowConfig

\* A valid configuration has exactly one credential source.
LEMMA ValidMeansStorable ==
    ASSUME NEW cfg \in SkyflowConfig, Valid(cfg)
    PROVE  /\ (cfg.path = Empty) # (cfg.json = Empty)
           /\ cfg.json \in WellFormedJSON \cup {Empty}
BY DEF Valid, SkyflowConfig

\* What is saved has been carried: valid, and vetted by now.
LEMMA SavePreservesInv ==
    ASSUME ConfigInv, NEW r \in ConfigRequests, ConfigSave(r)
    PROVE  ConfigInv'
<1> DEFINE next == NextVersion(creq[r].cfg)
<1>1. /\ next \in SkyflowConfig /\ Valid(next)
      /\ Credential(next) \in accepted \cup waived
    BY SavedConfigFit DEF ConfigSave
<1>2. creq' = [creq EXCEPT ![r] = [creq[r] EXCEPT !.pc = "history", !.cfg = next]]
    BY DEF ConfigSave, ConfigInv, ConfigTypeOK
<1>3. config' = next /\ UNCHANGED <<history, accepted, waived, reported>>
    BY DEF ConfigSave
<1>4. /\ creq \in [ConfigRequests -> ConfigRequest]
      /\ CarriesValid(creq[r], accepted, waived) /\ creq[r].pc = "save"
    BY DEF ConfigInv, ConfigTypeOK, RequestsCarryValid, ConfigSave
<1> HIDE DEF next
<1>5. /\ creq'[r].pc = "history" /\ creq'[r].in = creq[r].in
      /\ creq'[r].cfg = next /\ creq'[r] \in ConfigRequest
  <2>1. creq'[r] = [creq[r] EXCEPT !.pc = "history", !.cfg = next]
      BY <1>2, <1>4
  <2>2. creq[r] \in ConfigRequest
      BY <1>4
  <2>3. creq'[r].pc = "history"
      BY <2>1, <2>2 DEF ConfigRequest
  <2>4. creq'[r].in = creq[r].in
      BY <2>1, <2>2 DEF ConfigRequest
  <2>5. creq'[r].cfg = next
      BY <2>1, <2>2 DEF ConfigRequest
  <2>6. creq'[r] \in ConfigRequest
      BY <1>1, <2>1, <2>2 DEF ConfigRequest
  <2> QED
      BY <2>3, <2>4, <2>5, <2>6
<1>6. ConfigTypeOK'
  <2>1. creq' \in [ConfigRequests -> ConfigRequest]
      BY <1>2, <1>4, <1>5
  <2> QED
      BY <1>1, <1>3, <2>1 DEF ConfigInv, ConfigTypeOK
<1>7. RequestsCarryValid'
  <2>1. CarriesValid(creq'[r], accepted', waived')
      BY <1>1, <1>3, <1>4, <1>5 DEF CarriesValid
  <2>2. ASSUME NEW q \in ConfigRequests, q # r
        PROVE  CarriesValid(creq'[q], accepted', waived')
      BY <1>2, <1>3, <1>4, <2>2 DEF ConfigInv, RequestsCarryValid
  <2> QED
      BY <2>1, <2>2 DEF RequestsCarryValid
<1>8. StoredConfigValid' /\ StoredCredentialVetted'
    BY <1>1, <1>3, ValidMeansStorable DEF StoredConfigValid, StoredCredentialVetted
<1> QED
    BY <1>6, <1>7, <1>8 DEF ConfigInv

\* A Put that returns an error is reported to the client, applied or not.
LEMMA SaveFailsPreservesInv ==
    ASSUME ConfigInv, NEW r \in ConfigRequests, ConfigSaveFails(r)
    PROVE  ConfigInv'
<1> USE DEF ConfigInv, ConfigSaveFails
<1> DEFINE next == NextVersion(creq[r].cfg)
<1>1. /\ next \in SkyflowConfig /\ Valid(next)
      /\ Credential(next) \in accepted \cup waived
      /\ next.version = creq[r].cfg.version + 1 /\ creq[r].cfg.version \in Nat
    BY SavedConfigFit
<1>2. config' \in {next, config}
    BY DEF Outcome
<1>3. reported' = reported \cup {next.version} /\ next.version \in Nat
    BY <1>1
<1> HIDE DEF next
<1>4. ConfigTypeOK'
    BY <1>1, <1>2, <1>3, AnsweredType DEF ConfigTypeOK, ConfigAnswer, Answers
<1>5. RequestsCarryValid'
    BY AnsweredCarriesNothing DEF ConfigTypeOK, RequestsCarryValid, ConfigAnswer
<1>6. StoredConfigValid' /\ StoredCredentialVetted'
    BY <1>1, <1>2, ValidMeansStorable DEF StoredConfigValid, StoredCredentialVetted
<1> QED
    BY <1>4, <1>5, <1>6

\* The second Put: the entry is written, or its failure is logged.
LEMMA HistoryPreservesInv ==
    ASSUME ConfigInv, NEW r \in ConfigRequests, creq[r].pc = "history",
           ConfigAnswer(r, "ok"), UNCHANGED <<config, accepted, waived>>,
           history' \in {history, PutHistory(creq[r].cfg)},
           reported' \in {reported, reported \cup {creq[r].cfg.version}}
    PROVE  ConfigInv'
<1>1. creq[r].cfg \in SkyflowConfig /\ creq[r].cfg.version \in Nat
    BY SavedConfigFit
<1>2. /\ DOMAIN history \subseteq DOMAIN history' /\ DOMAIN history' \subseteq Nat
      /\ \A v \in DOMAIN history' : history'[v] \in Descriptions
    BY <1>1, PutHistoryFacts DEF ConfigInv, ConfigTypeOK
<1>3. ConfigTypeOK'
    BY <1>1, <1>2, AnsweredType DEF ConfigInv, ConfigTypeOK, ConfigAnswer, Answers
<1>4. RequestsCarryValid'
    BY AnsweredCarriesNothing DEF ConfigInv, ConfigTypeOK, RequestsCarryValid, ConfigAnswer
<1>5. StoredConfigValid' /\ StoredCredentialVetted'
    BY DEF ConfigInv, StoredConfigValid, StoredCredentialVetted
<1> QED
    BY <1>3, <1>4, <1>5 DEF ConfigInv

\* A crash answers every request in flight and reports the history entries still owed.
LEMMA CrashPreservesInv ==
    ASSUME ConfigInv, ConfigCrash
    PROVE  ConfigInv'
<1>1. /\ creq \in [ConfigRequests -> ConfigRequest]
      /\ UNCHANGED <<config, history, accepted, waived>>
      /\ reported \subseteq reported'
    BY DEF ConfigInv, ConfigTypeOK, ConfigCrash
<1>2. \A r \in ConfigRequests : creq'[r] \in {creq[r], Answered("failed")}
    BY DEF ConfigCrash
<1>3. \A r \in ConfigRequests :
         creq[r].pc = "history" => creq[r].cfg.version \in reported' \cap Nat
    BY SavedConfigFit DEF ConfigCrash
<1>4. ConfigTypeOK'
  <2>1. creq' \in [ConfigRequests -> ConfigRequest]
      BY <1>1, AnsweredType DEF ConfigCrash, Answers
  <2>2. reported' \subseteq Nat
      BY <1>3 DEF ConfigInv, ConfigTypeOK, ConfigCrash
  <2> QED
      BY <1>1, <2>1, <2>2 DEF ConfigInv, ConfigTypeOK
<1>5. RequestsCarryValid'
    BY <1>1, <1>2, AnsweredCarriesNothing DEF ConfigInv, RequestsCarryValid
<1>6. StoredConfigValid' /\ StoredCredentialVetted'
    BY <1>1 DEF ConfigInv, StoredConfigValid, StoredCredentialVetted
<1> QED
    BY <1>4, <1>5, <1>6 DEF ConfigInv

\* One case per action.
LEMMA ConfigNextPreservesInv == ConfigInv /\ [ConfigNext]_configVars => ConfigInv'
<1> SUFFICES ASSUME ConfigInv, [ConfigNext]_configVars
             PROVE  ConfigInv'
    OBVIOUS
<1>1. ASSUME NEW r \in ConfigRequests, ConfigReject(r)
      PROVE  ConfigInv'
    BY <1>1, AnswerPreservesInv DEF ConfigReject, Answers
<1>2. ASSUME NEW r \in ConfigRequests, ConfigLoad(r)
      PROVE  ConfigInv'
    BY <1>2, LoadPreservesInv
<1>3. ASSUME NEW r \in ConfigRequests, CredentialsAccepted(r)
      PROVE  ConfigInv'
    BY <1>3, AcceptedPreservesInv
<1>4. ASSUME NEW r \in ConfigRequests, CredentialsRefused(r)
      PROVE  ConfigInv'
    BY <1>4, AnswerPreservesInv DEF CredentialsRefused, Answers
<1>5. ASSUME NEW r \in ConfigRequests, ConfigSave(r)
      PROVE  ConfigInv'
    BY <1>5, SavePreservesInv
<1>6. ASSUME NEW r \in ConfigRequests, ConfigSaveFails(r)
      PROVE  ConfigInv'
    BY <1>6, SaveFailsPreservesInv
<1>7. ASSUME NEW r \in ConfigRequests, ConfigSaveHistory(r)
      PROVE  ConfigInv'
    BY <1>7, HistoryPreservesInv DEF ConfigSaveHistory
<1>8. ASSUME NEW r \in ConfigRequests, ConfigHistoryFails(r)
      PROVE  ConfigInv'
    BY <1>8, HistoryPreservesInv DEF ConfigHistoryFails, Outcome
<1>9. ASSUME NEW r \in ConfigRequests, ConfigGetFails(r)
      PROVE  ConfigInv'
    BY <1>9, AnswerPreservesInv DEF ConfigGetFails, Answers
<1>10. ASSUME NEW r \in ConfigRequests, NEW in \in ConfigWrites, ConfigExistenceCheck(r, in)
       PROVE  ConfigInv'
    BY <1>10, ExistenceCheckPreservesInv
<1>11. ASSUME NEW r \in ConfigRequests, ConfigRead(r)
       PROVE  ConfigInv'
  <2>1. \E answer \in Answers : ConfigAnswer(r, answer)
    <3>1. CASE config = Absent
        BY <1>11, <3>1 DEF ConfigRead, Answers
    <3>2. CASE config # Absent /\ config.path # Empty
        BY <1>11, <3>2 DEF ConfigRead, Answers
    <3>3. CASE config # Absent /\ config.path = Empty
        BY <1>11, <3>3 DEF ConfigRead, Answers
    <3> QED
        BY <3>1, <3>2, <3>3
  <2> QED
      BY <1>11, <2>1, AnswerPreservesInv DEF ConfigRead
<1>12. ASSUME NEW r \in ConfigRequests, ConfigDelete(r)
       PROVE  ConfigInv'
    BY <1>12, AnswerPreservesInv DEF ConfigDelete, Answers
<1>13. ASSUME NEW r \in ConfigRequests, ConfigDeleteFails(r)
       PROVE  ConfigInv'
    BY <1>13, AnswerPreservesInv DEF ConfigDeleteFails, Outcome, Answers
<1>14. CASE ConfigCrash
    BY <1>14, CrashPreservesInv
<1>15. CASE UNCHANGED configVars
  <2>1. ConfigTypeOK' /\ RequestsCarryValid'
      BY <1>15 DEF ConfigInv, configVars, ConfigTypeOK, RequestsCarryValid
  <2>2. StoredConfigValid' /\ StoredCredentialVetted'
      BY <1>15 DEF ConfigInv, configVars, StoredConfigValid, StoredCredentialVetted
  <2> QED
      BY <2>1, <2>2 DEF ConfigInv
<1> QED
    BY <1>1, <1>2, <1>3, <1>4, <1>5, <1>6, <1>7, <1>8, <1>9, <1>10, <1>11, <1>12,
       <1>13, <1>14, <1>15
    DEF ConfigNext, ConfigStep, ConfigHandler, ConfigArrival

\* The invariant holds in every reachable state.
THEOREM ConfigInvariance == ConfigSpec => []ConfigInv
<1>1. ConfigInit => ConfigInv
    BY ConfigInitInv
<1>2. ConfigInv /\ [ConfigNext]_configVars => ConfigInv'
    BY ConfigNextPreservesInv
<1> QED
    BY <1>1, <1>2, PTL DEF ConfigSpec

-----------------------------------------------------------------------------
(* The safety invariants *)

\* Every variable keeps its type.
THEOREM ConfigTypeCorrect == ConfigSpec => []ConfigTypeOK
<1>1. ConfigInv => ConfigTypeOK
    BY DEF ConfigInv
<1> QED
    BY <1>1, ConfigInvariance, PTL

\* The stored configuration always names exactly one credential source.
THEOREM StoredConfigAlwaysValid == ConfigSpec => []StoredConfigValid
<1>1. ConfigInv => StoredConfigValid
    BY DEF ConfigInv
<1> QED
    BY <1>1, ConfigInvariance, PTL

\* The stored credential is always vetted, or its vetting was waived.
THEOREM StoredCredentialAlwaysVetted == ConfigSpec => []StoredCredentialVetted
<1>1. ConfigInv => StoredCredentialVetted
    BY DEF ConfigInv
<1> QED
    BY <1>1, ConfigInvariance, PTL
-----------------------------------------------------------------------------
(* The completeness of the history.  A version leaves the set of those that are
   still to get their entry only into the history or into the failures that were
   reported, so Accounted only grows. *)

\* A step of one request keeps every version accounted for.
LEMMA OneRequestKeepsAccounted ==
    ASSUME NEW r \in ConfigRequests,
           \A q \in ConfigRequests : q # r => creq'[q] = creq[q],
           DOMAIN history \subseteq DOMAIN history', reported \subseteq reported',
           creq[r].pc = "history" => creq[r].cfg.version \in Accounted'
    PROVE  Accounted \subseteq Accounted'
<1> SUFFICES ASSUME NEW v \in Accounted PROVE v \in Accounted'
    OBVIOUS
<1>1. CASE v \in DOMAIN history \cup reported
    BY <1>1 DEF Accounted
<1>2. CASE v \notin DOMAIN history \cup reported
  <2>1. PICK q \in ConfigRequests : creq[q].pc = "history" /\ v = creq[q].cfg.version
      BY <1>2 DEF Accounted
  <2>2. CASE q # r
      BY <2>1, <2>2 DEF Accounted
  <2> QED
      BY <2>1, <2>2
<1> QED
    BY <1>1, <1>2

\* Such a step preserves HistoryInv if what the request carries on, and what it
\* stores, is accounted for.
LEMMA OneRequestPreservesHistory ==
    ASSUME ConfigTypeOK, HistoryInv, NEW r \in ConfigRequests,
           \A q \in ConfigRequests : q # r => creq'[q] = creq[q],
           Accounted \subseteq Accounted',
           CarriesAccounted(creq'[r], Accounted'),
           \/ config' \in {config, Absent}
           \/ config'.version >= 2 /\ 2 .. config'.version \subseteq Accounted'
    PROVE  HistoryInv'
<1>1. ASSUME NEW q \in ConfigRequests
      PROVE  CarriesAccounted(creq'[q], Accounted')
  <2>1. CASE q = r
      BY <2>1
  <2>2. CASE q # r
      BY <2>2 DEF HistoryInv, CarriesAccounted
  <2> QED
      BY <2>1, <2>2
<1>2. HistoryComplete'
    BY DEF HistoryInv, HistoryComplete
<1> QED
    BY <1>1, <1>2 DEF HistoryInv

\* What a request loads is accounted for: the version of the stored configuration,
\* or the 1 of defaultConfig().
LEMMA LoadsAccounted ==
    ASSUME ConfigInv, HistoryInv, NEW r \in ConfigRequests, creq[r].pc = "load"
    PROVE  Merged(r).version >= 1 /\ 2 .. Merged(r).version \subseteq Accounted
<1>1. creq[r].in \in WriteInput
    BY DEF ConfigInv, RequestsCarryValid, CarriesValid
<1>2. CASE Base(r) = Absent
  <2>1. Merged(r).version = defaultConfig.version
      BY <1>1, <1>2, DefaultConfigType, MergeType DEF Merged
  <2> QED
      BY <2>1 DEF defaultConfig
<1>3. CASE Base(r) # Absent
  <2>1. Base(r) = config /\ config # Absent /\ config \in SkyflowConfig
      BY <1>3 DEF Base, ConfigInv, ConfigTypeOK
  <2>2. Merged(r).version = config.version /\ config.version \in Nat
      BY <1>1, <1>3, <2>1, MergeType DEF Merged, SkyflowConfig
  <2>3. config.version >= 2 /\ 2 .. config.version \subseteq Accounted
      BY <2>1 DEF HistoryInv, HistoryComplete
  <2> QED
      BY <2>2, <2>3
<1> QED
    BY <1>2, <1>3

\* What a request saves is accounted for once its own version is.
LEMMA SavesAccounted ==
    ASSUME ConfigInv, HistoryInv, NEW r \in ConfigRequests, creq[r].pc = "save",
           Accounted \subseteq Accounted', creq[r].cfg.version + 1 \in Accounted'
    PROVE  /\ NextVersion(creq[r].cfg).version >= 2
           /\ 2 .. NextVersion(creq[r].cfg).version \subseteq Accounted'
<1>1. /\ creq[r].cfg.version \in Nat
      /\ NextVersion(creq[r].cfg).version = creq[r].cfg.version + 1
    BY SavedConfigFit
<1>2. creq[r].cfg.version >= 1 /\ 2 .. creq[r].cfg.version \subseteq Accounted
    BY DEF HistoryInv, CarriesAccounted
<1>3. \A v \in 2 .. creq[r].cfg.version + 1 :
          v \in 2 .. creq[r].cfg.version \/ v = creq[r].cfg.version + 1
    BY <1>1
<1> QED
    BY <1>1, <1>2, <1>3

\* An answer that changes the configuration to nothing, if at all.
LEMMA AnswerPreservesHistory ==
    ASSUME ConfigInv, HistoryInv, NEW r \in ConfigRequests, NEW answer,
           ConfigAnswer(r, answer), config' \in {config, Absent},
           DOMAIN history \subseteq DOMAIN history', reported \subseteq reported',
           creq[r].pc = "history" => creq[r].cfg.version \in DOMAIN history' \cup reported'
    PROVE  HistoryInv'
<1>1. creq \in [ConfigRequests -> ConfigRequest]
    BY DEF ConfigInv, ConfigTypeOK
<1>2. /\ \A q \in ConfigRequests : q # r => creq'[q] = creq[q]
      /\ creq'[r].pc = "done"
    BY <1>1 DEF ConfigAnswer, Answered, NewConfigRequest
<1>3. DOMAIN history' \cup reported' \subseteq Accounted'
    BY DEF Accounted
<1>4. Accounted \subseteq Accounted'
    BY <1>2, <1>3, OneRequestKeepsAccounted
<1> QED
    BY <1>2, <1>4, OneRequestPreservesHistory DEF CarriesAccounted, ConfigInv

\* The steps of a handler.
LEMMA HandlerPreservesHistory ==
    ASSUME ConfigInv, HistoryInv, NEW r \in ConfigRequests, ConfigHandler(r)
    PROVE  HistoryInv'
<1>1. creq \in [ConfigRequests -> ConfigRequest] /\ ConfigTypeOK
    BY DEF ConfigInv, ConfigTypeOK
<1>2. CASE ConfigReject(r) \/ CredentialsRefused(r) \/ ConfigGetFails(r)
    BY <1>2, AnswerPreservesHistory DEF ConfigReject, CredentialsRefused, ConfigGetFails
<1>3. CASE ConfigLoad(r)
  <2>1. /\ creq'[r].cfg = Merged(r)
        /\ \A q \in ConfigRequests : q # r => creq'[q] = creq[q]
        /\ config' = config /\ history' = history /\ reported' = reported
        /\ creq[r].pc = "load"
      BY <1>1, <1>3 DEF ConfigLoad, ConfigRequest
  <2>2. Accounted \subseteq Accounted'
      BY <2>1, OneRequestKeepsAccounted
  <2>3. CarriesAccounted(creq'[r], Accounted')
      BY <2>1, <2>2, LoadsAccounted DEF CarriesAccounted
  <2> QED
      BY <1>1, <2>1, <2>2, <2>3, OneRequestPreservesHistory
<1>4. CASE CredentialsAccepted(r)
  <2>1. /\ creq[r].pc = "validate" /\ creq'[r].cfg = creq[r].cfg
        /\ \A q \in ConfigRequests : q # r => creq'[q] = creq[q]
        /\ config' = config /\ history' = history /\ reported' = reported
      BY <1>1, <1>4 DEF CredentialsAccepted, ConfigRequest
  <2>2. Accounted \subseteq Accounted'
      BY <2>1, OneRequestKeepsAccounted
  <2>3. CarriesAccounted(creq'[r], Accounted')
      BY <2>1, <2>2 DEF CarriesAccounted, HistoryInv
  <2> QED
      BY <1>1, <2>1, <2>2, <2>3, OneRequestPreservesHistory
<1>5. CASE ConfigSave(r)
  <2>1. /\ creq[r].pc = "save" /\ creq'[r].pc = "history"
        /\ creq'[r].cfg = NextVersion(creq[r].cfg) /\ config' = NextVersion(creq[r].cfg)
        /\ \A q \in ConfigRequests : q # r => creq'[q] = creq[q]
        /\ history' = history /\ reported' = reported
      BY <1>1, <1>5 DEF ConfigSave, ConfigRequest
  <2>2. Accounted \subseteq Accounted'
      BY <2>1, OneRequestKeepsAccounted
  <2>3. creq[r].cfg.version + 1 \in Accounted'
      BY <2>1, SavedConfigFit DEF Accounted
  <2>4. /\ NextVersion(creq[r].cfg).version \in Nat
        /\ NextVersion(creq[r].cfg).version >= 2
        /\ 2 .. NextVersion(creq[r].cfg).version \subseteq Accounted'
      BY <2>1, <2>2, <2>3, SavesAccounted, SavedConfigFit
  <2>5. CarriesAccounted(creq'[r], Accounted')
      BY <2>1, <2>4 DEF CarriesAccounted
  <2> QED
      BY <1>1, <2>1, <2>2, <2>4, <2>5, OneRequestPreservesHistory
<1>6. CASE ConfigSaveFails(r)
  <2>1. /\ creq[r].pc = "save" /\ creq'[r].pc = "done"
        /\ \A q \in ConfigRequests : q # r => creq'[q] = creq[q]
        /\ config' \in {NextVersion(creq[r].cfg), config} /\ history' = history
        /\ reported' = reported \cup {creq[r].cfg.version + 1}
      BY <1>1, <1>6 DEF ConfigSaveFails, ConfigAnswer, Answered, NewConfigRequest, Outcome
  <2>2. Accounted \subseteq Accounted'
      BY <2>1, OneRequestKeepsAccounted
  <2>3. creq[r].cfg.version + 1 \in Accounted'
      BY <2>1 DEF Accounted
  <2>4. /\ NextVersion(creq[r].cfg).version >= 2
        /\ 2 .. NextVersion(creq[r].cfg).version \subseteq Accounted'
      BY <2>1, <2>2, <2>3, SavesAccounted
  <2> QED
      BY <1>1, <2>1, <2>2, <2>4, OneRequestPreservesHistory DEF CarriesAccounted
<1>7. CASE ConfigSaveHistory(r)
    BY <1>7, SavedConfigFit, PutHistoryFacts, AnswerPreservesHistory
    DEF ConfigSaveHistory, ConfigInv
<1>8. CASE ConfigHistoryFails(r)
  <2>1. DOMAIN history \subseteq DOMAIN history'
      BY <1>8, SavedConfigFit, PutHistoryFacts DEF ConfigHistoryFails, Outcome, ConfigInv
  <2> QED
      BY <1>8, <2>1, AnswerPreservesHistory DEF ConfigHistoryFails
<1> QED
    BY <1>2, <1>3, <1>4, <1>5, <1>6, <1>7, <1>8 DEF ConfigHandler

\* A crash reports every version that still owed its history entry.
LEMMA CrashPreservesHistory ==
    ASSUME ConfigInv, HistoryInv, ConfigCrash
    PROVE  HistoryInv'
<1>1. config' = config /\ history' = history
    BY DEF ConfigCrash
<1>2. Accounted \subseteq Accounted'
    BY DEF ConfigCrash, Accounted
<1>3. \A r \in ConfigRequests : creq'[r].pc \in {"new", "done"}
    BY DEF ConfigInv, ConfigTypeOK, ConfigCrash, ConfigInFlight, Answered, NewConfigRequest
<1> QED
    BY <1>1, <1>2, <1>3 DEF HistoryInv, HistoryComplete, CarriesAccounted

\* One case per action that is not a handler's.
LEMMA NextPreservesHistory ==
    ConfigInv /\ HistoryInv /\ [ConfigNext]_configVars => HistoryInv'
<1> SUFFICES ASSUME ConfigInv, HistoryInv, [ConfigNext]_configVars
             PROVE  HistoryInv'
    OBVIOUS
<1>1. ASSUME NEW r \in ConfigRequests, ConfigHandler(r)
      PROVE  HistoryInv'
    BY <1>1, HandlerPreservesHistory
<1>2. ASSUME NEW r \in ConfigRequests, NEW in \in ConfigWrites, ConfigExistenceCheck(r, in)
      PROVE  HistoryInv'
  <2>1. /\ creq[r].pc = "new" /\ creq'[r].pc = "load"
        /\ \A q \in ConfigRequests : q # r => creq'[q] = creq[q]
        /\ config' = config /\ history' = history /\ reported' = reported
      BY <1>2 DEF ConfigExistenceCheck, ConfigInv, ConfigTypeOK, ConfigRequest
  <2>2. Accounted \subseteq Accounted'
      BY <2>1, OneRequestKeepsAccounted
  <2> QED
      BY <2>1, <2>2, OneRequestPreservesHistory DEF CarriesAccounted, ConfigInv
<1>3. ASSUME NEW r \in ConfigRequests,
             ConfigRead(r) \/ ConfigDelete(r) \/ ConfigDeleteFails(r)
      PROVE  HistoryInv'
    BY <1>3, AnswerPreservesHistory DEF ConfigRead, ConfigDelete, ConfigDeleteFails, Outcome
<1>4. CASE ConfigCrash
    BY <1>4, CrashPreservesHistory
<1>5. CASE UNCHANGED configVars
    BY <1>5 DEF configVars, HistoryInv, HistoryComplete, CarriesAccounted, Accounted
<1> QED
    BY <1>1, <1>2, <1>3, <1>4, <1>5 DEF ConfigNext, ConfigStep, ConfigArrival

\* There is never a silent gap in the history.
THEOREM HistoryAlwaysComplete == ConfigSpec => []HistoryComplete
<1>1. ConfigInit => HistoryInv
    BY DEF ConfigInit, HistoryInv, HistoryComplete, CarriesAccounted, NewConfigRequest
<1>2. ConfigInv /\ HistoryInv /\ [ConfigNext]_configVars => HistoryInv'
    BY NextPreservesHistory
<1>3. HistoryInv => HistoryComplete
    BY DEF HistoryInv
<1> QED
    BY <1>1, <1>2, <1>3, ConfigInvariance, PTL DEF ConfigSpec
-----------------------------------------------------------------------------
(* The action properties *)

\* A save that nobody has overtaken: what is written is the increment of a valid
\* merge of the request into what was stored.
LEMMA SaveIsFresh ==
    ASSUME ConfigInv, NEW r \in ConfigRequests, ConfigSave(r), creq[r].base = config
    PROVE  /\ config'.version = (IF config = Absent THEN 1 ELSE config.version) + 1
           /\ config # Absent /\ creq[r].in.desc = Absent => config'.desc = config.desc
           /\ config # Absent /\ Supplied(creq[r].in) = {} =>
                  Credential(config') = Credential(config)
<1> DEFINE base == IF config = Absent THEN defaultConfig ELSE config
           in == creq[r].in
<1>1. /\ in \in WriteInput /\ creq[r].cfg = Merge(base, in)
      /\ creq[r].cfg \in SkyflowConfig /\ Valid(creq[r].cfg)
    BY DEF ConfigInv, RequestsCarryValid, CarriesValid, ConfigSave
<1>2. base \in SkyflowConfig
    BY DefaultConfigType DEF ConfigInv, ConfigTypeOK
<1>3. base.version = IF config = Absent THEN 1 ELSE config.version
    BY DEF defaultConfig
<1>4. config # Absent => base = config
    OBVIOUS
<1>5. config' = NextVersion(creq[r].cfg)
    BY DEF ConfigSave
<1> HIDE DEF base, in
<1>6. config'.version = base.version + 1
    BY <1>1, <1>2, <1>5, MergeType, NextVersionFacts
<1>7. in.desc = Absent => config'.desc = base.desc
    BY <1>1, <1>2, <1>5, MergeDescription, NextVersionFacts
<1>8. Supplied(in) = {} => Credential(config') = Credential(base)
    BY <1>1, <1>2, <1>5, MergeCredential, NextVersionFacts
<1> QED
    BY <1>3, <1>4, <1>6, <1>7, <1>8 DEF in

\* ConfigSave is the only step that saves, so SaveIsFresh covers all of them.
LEMMA StepsSaveFresh == ConfigInv /\ [ConfigNext]_configVars => FreshSaves
<1> SUFFICES ASSUME ConfigInv, [ConfigNext]_configVars,
                    NEW r \in ConfigRequests, Saves(r), creq[r].base = config
             PROVE  ConfigSave(r)
    BY SaveIsFresh DEF FreshSaves
<1>1. creq \in [ConfigRequests -> ConfigRequest]
    BY DEF ConfigInv, ConfigTypeOK
<1>2. ASSUME NEW q \in ConfigRequests, ConfigHandler(q) \/ ConfigArrival(q)
      PROVE  ConfigSave(r)
  <2>1. q = r
      BY <1>1, <1>2 DEF ConfigHandler, ConfigArrival, ConfigAnswer, ConfigReject, ConfigLoad,
                CredentialsAccepted, CredentialsRefused, ConfigSave, ConfigSaveFails,
                ConfigSaveHistory, ConfigHistoryFails, ConfigGetFails,
                ConfigExistenceCheck, ConfigRead, ConfigDelete, ConfigDeleteFails, Saves
  <2> QED
      BY <1>1, <1>2, <2>1 DEF ConfigHandler, ConfigArrival, ConfigAnswer, ConfigReject, ConfigLoad,
                CredentialsAccepted, CredentialsRefused, ConfigSaveFails, ConfigSaveHistory,
                ConfigHistoryFails, ConfigGetFails, ConfigExistenceCheck, ConfigRead,
                ConfigDelete, ConfigDeleteFails, Saves, Answered, NewConfigRequest
<1>3. CASE ConfigCrash
    BY <1>1, <1>3 DEF ConfigCrash, Saves, Answered, NewConfigRequest
<1>4. CASE UNCHANGED configVars
    BY <1>4 DEF configVars, Saves
<1> QED
    BY <1>2, <1>3, <1>4 DEF ConfigNext, ConfigStep

\* A save whose base is still stored is an atomic update of it.
THEOREM FreshSavesAreAtomic == ConfigSpec => FreshSaveIsAtomic
<1>1. ConfigInv /\ [ConfigNext]_configVars => [FreshSaves]_configVars
    BY StepsSaveFresh
<1> QED
    BY <1>1, ConfigInvariance, PTL DEF ConfigSpec, FreshSaveIsAtomic

\* A step of request r leaves the live credentials live or lets some go, if what r
\* stores and what it holds afterwards was live before.
LEMMA LiveStep ==
    ASSUME NEW r \in ConfigRequests,
           \A q \in ConfigRequests : q # r => creq'[q] = creq[q],
           config' # Absent => Credential(config') \in LiveCredentials,
           creq'[r].pc \notin {"new", "done"} => HeldBy(r)' \subseteq LiveCredentials
    PROVE  LiveCredentials' \subseteq LiveCredentials
<1>1. \A q \in ConfigInFlight : HeldBy(q) \subseteq LiveCredentials
    BY DEF LiveCredentials
<1>2. ASSUME NEW q \in ConfigRequests, creq'[q].pc \notin {"new", "done"}
      PROVE  HeldBy(q)' \subseteq LiveCredentials
  <2>1. CASE q = r
      BY <1>2, <2>1
  <2>2. CASE q # r
      BY <1>1, <1>2, <2>2 DEF ConfigInFlight, HeldBy
  <2> QED
      BY <2>1, <2>2
<1>3. ASSUME NEW c \in LiveCredentials'
      PROVE  c \in LiveCredentials
  <2>1. CASE config' # Absent /\ c = Credential(config')
      BY <2>1
  <2>2. CASE \E q \in ConfigRequests : creq'[q].pc \notin {"new", "done"} /\ c \in HeldBy(q)'
      BY <1>2, <2>2
  <2> QED
      BY <1>3, <2>1, <2>2 DEF LiveCredentials, ConfigInFlight
<1> QED
    BY <1>3

\* The stored credential, and what a request in flight holds, are live.
LEMMA LiveFacts ==
    /\ config # Absent => Credential(config) \in LiveCredentials
    /\ \A q \in ConfigInFlight : HeldBy(q) \subseteq LiveCredentials
BY DEF LiveCredentials

\* A handler stores and holds nothing but what was live.
LEMMA HandlerKeepsLive ==
    ASSUME ConfigInv, NEW r \in ConfigRequests, ConfigHandler(r)
    PROVE  LiveCredentials' \subseteq LiveCredentials
<1>1. creq \in [ConfigRequests -> ConfigRequest] /\ CarriesValid(creq[r], accepted, waived)
    BY DEF ConfigInv, ConfigTypeOK, RequestsCarryValid
<1>2. ASSUME NEW answer, ConfigAnswer(r, answer), config' \in {config, Absent}
      PROVE  LiveCredentials' \subseteq LiveCredentials
    BY <1>1, <1>2, LiveStep, LiveFacts DEF ConfigAnswer, Answered, NewConfigRequest
<1>3. CASE ConfigReject(r) \/ CredentialsRefused(r) \/ ConfigGetFails(r)
           \/ ConfigSaveHistory(r) \/ ConfigHistoryFails(r)
    BY <1>2, <1>3 DEF ConfigReject, CredentialsRefused, ConfigGetFails, ConfigSaveHistory,
                      ConfigHistoryFails
<1>4. CASE ConfigLoad(r)
  <2>1. r \in ConfigInFlight /\ HeldBy(r) = Supplied(creq[r].in)
      BY <1>1, <1>4 DEF ConfigLoad, ConfigInFlight, CarriesValid, HeldBy
  <2>2. Merged(r) \in SkyflowConfig /\ Credential(Merged(r)) \in LiveCredentials
      BY <1>4, <2>1, LoadCarries, LiveFacts DEF ConfigLoad
  <2>3. creq'[r].cfg = Merged(r) /\ \A q \in ConfigRequests : q # r => creq'[q] = creq[q]
      BY <1>1, <1>4 DEF ConfigLoad, ConfigRequest
  <2>4. HeldBy(r)' \subseteq LiveCredentials
      BY <2>2, <2>3, ConfigAssumption DEF HeldBy
  <2>5. config' = config
      BY <1>4 DEF ConfigLoad
  <2> QED
      BY <2>3, <2>4, <2>5, LiveStep, LiveFacts
<1>5. ASSUME creq[r].pc \in {"validate", "save"}
      PROVE  /\ creq[r].cfg \in SkyflowConfig /\ creq[r].cfg # Absent
             /\ Credential(creq[r].cfg) \in LiveCredentials
  <2>1. creq[r].cfg \in SkyflowConfig /\ creq[r].cfg # Absent
      BY <1>1, <1>5, ConfigAssumption DEF CarriesValid
  <2>2. r \in ConfigInFlight
      BY <1>5 DEF ConfigInFlight
  <2> QED
      BY <2>1, <2>2, LiveFacts DEF HeldBy
<1>6. CASE CredentialsAccepted(r)
  <2>1. creq'[r].cfg = creq[r].cfg /\ \A q \in ConfigRequests : q # r => creq'[q] = creq[q]
      BY <1>1, <1>6 DEF CredentialsAccepted, ConfigRequest
  <2>2. HeldBy(r)' \subseteq LiveCredentials /\ config' = config
      BY <1>5, <1>6, <2>1 DEF HeldBy, CredentialsAccepted
  <2> QED
      BY <2>1, <2>2, LiveStep, LiveFacts
<1>7. CASE ConfigSave(r)
  <2>1. NextVersion(creq[r].cfg) \in SkyflowConfig
        /\ Credential(NextVersion(creq[r].cfg)) \in LiveCredentials
      BY <1>5, <1>7, NextVersionFacts DEF ConfigSave
  <2>2. /\ creq'[r].cfg = NextVersion(creq[r].cfg) /\ config' = NextVersion(creq[r].cfg)
        /\ \A q \in ConfigRequests : q # r => creq'[q] = creq[q]
      BY <1>1, <1>7 DEF ConfigSave, ConfigRequest
  <2>3. HeldBy(r)' \subseteq LiveCredentials
      BY <2>1, <2>2, ConfigAssumption DEF HeldBy
  <2> QED
      BY <2>1, <2>2, <2>3, LiveStep
<1>8. CASE ConfigSaveFails(r)
  <2>1. Credential(NextVersion(creq[r].cfg)) \in LiveCredentials
      BY <1>5, <1>8, NextVersionFacts DEF ConfigSaveFails
  <2>2. config' \in {NextVersion(creq[r].cfg), config} /\ ConfigAnswer(r, "failed")
      BY <1>8 DEF ConfigSaveFails, Outcome
  <2>3. config' # Absent => Credential(config') \in LiveCredentials
      BY <2>1, <2>2, LiveFacts
  <2> QED
      BY <1>1, <2>2, <2>3, LiveStep DEF ConfigAnswer, Answered, NewConfigRequest
<1> QED
    BY <1>3, <1>4, <1>6, <1>7, <1>8 DEF ConfigHandler

\* Only an existence check that lets a write in adds to the live credentials, and
\* only the credential that the write supplies.
LEMMA StepsBringByRequests == ConfigInv /\ [ConfigNext]_configVars => BroughtByRequests
<1> SUFFICES ASSUME ConfigInv, [ConfigNext]_configVars
             PROVE  BroughtByRequests
    OBVIOUS
<1>1. creq \in [ConfigRequests -> ConfigRequest]
    BY DEF ConfigInv, ConfigTypeOK
<1>2. ASSUME NEW r \in ConfigRequests, ConfigHandler(r)
      PROVE  BroughtByRequests
    BY <1>2, HandlerKeepsLive DEF BroughtByRequests
<1>3. ASSUME NEW r \in ConfigRequests, NEW in \in ConfigWrites, ConfigExistenceCheck(r, in)
      PROVE  BroughtByRequests
  <2>1. /\ creq[r].pc = "new" /\ creq'[r].pc = "load" /\ creq'[r].in = in
        /\ creq'[r].cfg = creq[r].cfg /\ config' = config
        /\ \A q \in ConfigRequests : q # r => creq'[q] = creq[q]
      BY <1>1, <1>3 DEF ConfigExistenceCheck, ConfigRequest
  <2>2. HeldBy(r)' = Supplied(creq'[r].in)
      BY <2>1 DEF HeldBy, ConfigInv, RequestsCarryValid, CarriesValid
  <2>3. ASSUME NEW c \in LiveCredentials' \ LiveCredentials
        PROVE  c \in Supplied(creq'[r].in)
    <3>1. c \in LiveCredentials' /\ c \notin LiveCredentials
        BY <2>3
    <3>2. ~(config' # Absent /\ c = Credential(config'))
        BY <2>1, <3>1, LiveFacts
    <3>3. PICK q \in ConfigRequests : creq'[q].pc \notin {"new", "done"} /\ c \in HeldBy(q)'
        BY <3>1, <3>2 DEF LiveCredentials, ConfigInFlight
    <3>4. q = r
        BY <2>1, <3>1, <3>3, LiveFacts DEF ConfigInFlight, HeldBy
    <3> QED
        BY <2>2, <3>3, <3>4
  <2> QED
      BY <2>1, <2>3 DEF BroughtByRequests
<1>4. ASSUME NEW r \in ConfigRequests,
             ConfigRead(r) \/ ConfigDelete(r) \/ ConfigDeleteFails(r)
      PROVE  BroughtByRequests
  <2>1. config' \in {config, Absent}
      BY <1>4 DEF ConfigRead, ConfigDelete, ConfigDeleteFails, Outcome
  <2>2. /\ \A q \in ConfigRequests : q # r => creq'[q] = creq[q]
        /\ creq'[r].pc = "done"
      BY <1>1, <1>4 DEF ConfigRead, ConfigDelete, ConfigDeleteFails, ConfigAnswer, Answered,
                        NewConfigRequest
  <2>3. LiveCredentials' \subseteq LiveCredentials
      BY <2>1, <2>2, LiveStep, LiveFacts
  <2> QED
      BY <2>3 DEF BroughtByRequests
<1>5. CASE ConfigCrash
  <2>1. ConfigInFlight' = {} /\ config' = config
      BY <1>1, <1>5 DEF ConfigCrash, ConfigInFlight, Answered, NewConfigRequest
  <2>2. LiveCredentials' \subseteq LiveCredentials
      BY <2>1 DEF LiveCredentials
  <2> QED
      BY <2>2 DEF BroughtByRequests
<1>6. CASE UNCHANGED configVars
  <2>1. LiveCredentials' = LiveCredentials
      BY <1>6 DEF configVars, LiveCredentials, ConfigInFlight, HeldBy
  <2> QED
      BY <2>1 DEF BroughtByRequests
<1> QED
    BY <1>2, <1>3, <1>4, <1>5, <1>6 DEF ConfigNext, ConfigStep, ConfigArrival

\* A removed credential comes back only with a request that supplies it.
THEOREM CredentialsComeFromRequests == ConfigSpec => CredentialsOnlyFromRequests
<1>1. ConfigInv /\ [ConfigNext]_configVars => [BroughtByRequests]_configVars
    BY StepsBringByRequests
<1> QED
    BY <1>1, ConfigInvariance, PTL DEF ConfigSpec, CredentialsOnlyFromRequests
-----------------------------------------------------------------------------
(* The config path implements AtMostOnce *)

ConfigValues == {Absent} \cup {cfg \in SkyflowConfig : Valid(cfg)}

ConfigEntries == [k \in {"config"} |-> config]

ConfigPhases == [r \in ConfigRequests |-> ConfigPhase(creq[r])]

\* A step of one request changes its phase only.
LEMMA ConfigOnePhaseChanges ==
    ASSUME ConfigInv, NEW r \in ConfigRequests, NEW q, creq' = [creq EXCEPT ![r] = q]
    PROVE  ConfigPhases' = [ConfigPhases EXCEPT ![r] = ConfigPhase(q)]
BY DEF ConfigInv, ConfigTypeOK, ConfigPhases

\* An answered request is in the phase that its answer names.
LEMMA ConfigAnswerPhase ==
    ASSUME NEW answer
    PROVE  ConfigPhase(Answered(answer)) =
               IF answer \in {"ok", "failed"} THEN answer ELSE "declined"
BY DEF ConfigPhase, Answered, NewConfigRequest

\* The invariant leaves the entry with a valid configuration, or nothing.
LEMMA VettedIsValue ==
    ASSUME NEW cfg \in SkyflowConfig,
           (cfg.path = Empty) # (cfg.json = Empty), cfg.json \in WellFormedJSON \cup {Empty}
    PROVE  cfg \in ConfigValues
BY DEF Valid, ConfigValues

\* There is one entry, and what it changes to is valid.
LEMMA ConfigChanges ==
    ASSUME ConfigInv'
    PROVE  ConfigStore!ChangeOne
<1>1. config' \in ConfigValues
  <2>1. CASE config' = Absent
      BY <2>1 DEF ConfigValues
  <2>2. CASE config' # Absent
      BY <2>2, VettedIsValue DEF ConfigInv, ConfigTypeOK, StoredConfigValid
  <2> QED
      BY <2>1, <2>2
<1>2. ConfigEntries' = [ConfigEntries EXCEPT !["config"] = config']
    BY DEF ConfigEntries
<1>3. ConfigEntries'["config"] = config'
    BY DEF ConfigEntries
<1> QED
    BY <1>1, <1>2, <1>3 DEF ConfigStore!ChangeOne, ConfigValues, ConfigEntries

\* The initial states map to initial states.
LEMMA ConfigStoreInit == ConfigInit => ConfigStore!Init
<1> SUFFICES ASSUME ConfigInit PROVE ConfigStore!Init
    OBVIOUS
<1>1. ConfigEntries \in [{"config"} -> ConfigValues]
    BY DEF ConfigInit, ConfigEntries, ConfigValues
<1>2. ConfigPhases = [r \in ConfigRequests |-> "idle"]
    BY DEF ConfigInit, ConfigPhases, ConfigPhase, NewConfigRequest
<1> QED
    BY <1>1, <1>2 DEF ConfigStore!Init, ConfigValues, ConfigEntries, ConfigPhases

\* An answer that leaves the configuration alone.
LEMMA ConfigAnswerOnly ==
    ASSUME ConfigInv, NEW r \in ConfigRequests, NEW answer, ConfigAnswer(r, answer),
           UNCHANGED config,
           \/ answer # "ok" /\ creq[r].pc \in {"new", "load", "validate", "save"}
           \/ creq[r].pc = "new"
           \/ answer = "ok" /\ creq[r].pc = "history"
    PROVE  ConfigStore!Next
<1>1. ConfigPhases' = [ConfigPhases EXCEPT ![r] =
          IF answer \in {"ok", "failed"} THEN answer ELSE "declined"]
    BY ConfigOnePhaseChanges, ConfigAnswerPhase DEF ConfigAnswer
<1>2. /\ answer # "ok" => ConfigPhases[r] \in {"idle", "pending"}
      /\ answer = "ok" => ConfigPhases[r] \in {"idle", "applied"}
    BY DEF ConfigPhases, ConfigPhase
<1>3. ConfigEntries' = ConfigEntries
    BY DEF ConfigEntries
<1>4. CASE answer = "ok"
    BY <1>1, <1>2, <1>3, <1>4
    DEF ConfigStore!Next, ConfigStore!Complete, ConfigStore!Confirm, ConfigStore!Pass,
        ConfigPhases, ConfigEntries
<1>5. CASE answer = "failed"
    BY <1>1, <1>2, <1>3, <1>5
    DEF ConfigStore!Next, ConfigStore!Fail, ConfigStore!Pass, ConfigPhases, ConfigEntries
<1>6. CASE answer \notin {"ok", "failed"}
    BY <1>1, <1>2, <1>3, <1>6
    DEF ConfigStore!Next, ConfigStore!Decline, ConfigStore!Pass, ConfigPhases, ConfigEntries
<1> QED
    BY <1>4, <1>5, <1>6

\* A step between two phases, or within one.
LEMMA ConfigPhaseStep ==
    ASSUME ConfigInv, NEW r \in ConfigRequests, NEW q, creq' = [creq EXCEPT ![r] = q],
           UNCHANGED config \/ ConfigStore!ChangeOne,
           \/ /\ creq[r].pc = "new" /\ q.pc = "load" /\ UNCHANGED config
           \/ /\ creq[r].pc \in {"load", "validate"} /\ q.pc \in {"validate", "save"}
              /\ UNCHANGED config
           \/ /\ creq[r].pc = "save" /\ q.pc = "history" /\ ConfigStore!ChangeOne
           \/ /\ creq[r].pc = "new" /\ q = Answered("ok") /\ ConfigStore!ChangeOne
           \/ /\ creq[r].pc \in {"new", "save"} /\ q = Answered("failed") /\ ConfigStore!ChangeOne
    PROVE  [ConfigStore!Next]_(ConfigStore!storeVars)
<1>1. ConfigPhases' = [ConfigPhases EXCEPT ![r] = ConfigPhase(q)]
    BY ConfigOnePhaseChanges
<1>2. UNCHANGED config => ConfigEntries' = ConfigEntries
    BY DEF ConfigEntries
<1>3. CASE creq[r].pc = "new" /\ q.pc = "load" /\ UNCHANGED config
  <2>1. ConfigPhases[r] = "idle" /\ ConfigPhase(q) = "pending"
      BY <1>3 DEF ConfigPhases, ConfigPhase
  <2> QED
      BY <1>1, <1>2, <1>3, <2>1
      DEF ConfigStore!Next, ConfigStore!Receive, ConfigStore!Pass, ConfigPhases, ConfigEntries
<1>4. CASE /\ creq[r].pc \in {"load", "validate"} /\ q.pc \in {"validate", "save"}
           /\ UNCHANGED config
  <2>1. ConfigPhases[r] = "pending" /\ ConfigPhase(q) = "pending"
      BY <1>4 DEF ConfigPhases, ConfigPhase
  <2>2. ConfigPhases' = ConfigPhases
      BY <1>1, <2>1 DEF ConfigPhases
  <2> QED
      BY <1>2, <1>4, <2>2 DEF ConfigStore!storeVars, ConfigPhases, ConfigEntries
<1>5. CASE creq[r].pc = "save" /\ q.pc = "history" /\ ConfigStore!ChangeOne
  <2>1. ConfigPhases[r] = "pending" /\ ConfigPhase(q) = "applied"
      BY <1>5 DEF ConfigPhases, ConfigPhase
  <2> QED
      BY <1>1, <1>5, <2>1
      DEF ConfigStore!Next, ConfigStore!Apply, ConfigStore!Pass, ConfigPhases
<1>6. CASE creq[r].pc = "new" /\ q = Answered("ok") /\ ConfigStore!ChangeOne
  <2>1. ConfigPhases[r] = "idle" /\ ConfigPhase(q) = "ok"
      BY <1>6, ConfigAnswerPhase DEF ConfigPhases, ConfigPhase
  <2> QED
      BY <1>1, <1>6, <2>1
      DEF ConfigStore!Next, ConfigStore!Complete, ConfigStore!Pass, ConfigPhases
<1>7. CASE creq[r].pc \in {"new", "save"} /\ q = Answered("failed") /\ ConfigStore!ChangeOne
  <2>1. ConfigPhases[r] \in {"idle", "pending"}
      BY <1>7 DEF ConfigPhases, ConfigPhase
  <2>2. ConfigPhase(q) = "failed"
      BY <1>7, ConfigAnswerPhase
  <2> QED
      BY <1>1, <1>7, <2>1, <2>2
      DEF ConfigStore!Next, ConfigStore!Fail, ConfigStore!Pass, ConfigPhases
<1> QED
    BY <1>3, <1>4, <1>5, <1>6, <1>7

\* Every step of ConfigPath is a step of AtMostOnce, or changes neither the
\* configuration nor a phase.
LEMMA ConfigStepIsStoreStep ==
    ASSUME ConfigInv, ConfigInv', [ConfigNext]_configVars
    PROVE  [ConfigStore!Next]_(ConfigStore!storeVars)
<1>1. ASSUME NEW r \in ConfigRequests,
             ConfigReject(r) \/ CredentialsRefused(r) \/ ConfigGetFails(r) \/ ConfigRead(r)
      PROVE  ConfigStore!Next
    BY <1>1, ConfigAnswerOnly DEF ConfigReject, CredentialsRefused, ConfigGetFails, ConfigRead
<1>2. ASSUME NEW r \in ConfigRequests, ConfigSaveHistory(r) \/ ConfigHistoryFails(r)
      PROVE  ConfigStore!Next
    BY <1>2, ConfigAnswerOnly DEF ConfigSaveHistory, ConfigHistoryFails
<1>3. creq \in [ConfigRequests -> ConfigRequest]
    BY DEF ConfigInv, ConfigTypeOK
<1>4. ASSUME NEW r \in ConfigRequests, NEW in \in ConfigWrites, ConfigExistenceCheck(r, in)
      PROVE  [ConfigStore!Next]_(ConfigStore!storeVars)
  <2> DEFINE q == [creq[r] EXCEPT !.pc = "load", !.in = in,
                      !.op = IF config = Absent THEN "create" ELSE "update"]
  <2>1. creq' = [creq EXCEPT ![r] = q] /\ q.pc = "load"
      BY <1>3, <1>4 DEF ConfigExistenceCheck, ConfigRequest
  <2> HIDE DEF q
  <2> QED
      BY <1>4, <2>1, ConfigPhaseStep DEF ConfigExistenceCheck
<1>5. ASSUME NEW r \in ConfigRequests, ConfigLoad(r)
      PROVE  [ConfigStore!Next]_(ConfigStore!storeVars)
  <2> DEFINE q == [creq[r] EXCEPT !.cfg = Merged(r), !.base = Base(r),
                      !.pc = IF creq[r].in.validate THEN "validate" ELSE "save"]
  <2>1. creq' = [creq EXCEPT ![r] = q] /\ q.pc \in {"validate", "save"}
      BY <1>3, <1>5 DEF ConfigLoad, ConfigRequest
  <2> HIDE DEF q
  <2> QED
      BY <1>5, <2>1, ConfigPhaseStep DEF ConfigLoad
<1>6. ASSUME NEW r \in ConfigRequests, CredentialsAccepted(r)
      PROVE  [ConfigStore!Next]_(ConfigStore!storeVars)
  <2> DEFINE q == [creq[r] EXCEPT !.pc = "save"]
  <2>1. creq' = [creq EXCEPT ![r] = q] /\ q.pc = "save"
      BY <1>3, <1>6 DEF CredentialsAccepted, ConfigRequest
  <2> HIDE DEF q
  <2> QED
      BY <1>6, <2>1, ConfigPhaseStep DEF CredentialsAccepted
<1>7. ASSUME NEW r \in ConfigRequests, ConfigSave(r)
      PROVE  [ConfigStore!Next]_(ConfigStore!storeVars)
  <2> DEFINE q == [creq[r] EXCEPT !.pc = "history", !.cfg = NextVersion(@)]
  <2>1. creq' = [creq EXCEPT ![r] = q] /\ q.pc = "history"
      BY <1>3, <1>7 DEF ConfigSave, ConfigRequest
  <2> HIDE DEF q
  <2> QED
      BY <1>7, <2>1, ConfigPhaseStep, ConfigChanges DEF ConfigSave
<1>8. ASSUME NEW r \in ConfigRequests,
             ConfigSaveFails(r) \/ ConfigDelete(r) \/ ConfigDeleteFails(r)
      PROVE  [ConfigStore!Next]_(ConfigStore!storeVars)
    BY <1>8, ConfigPhaseStep, ConfigChanges
    DEF ConfigSaveFails, ConfigDelete, ConfigDeleteFails, ConfigAnswer
<1>9. CASE ConfigCrash
  <2>1. ASSUME NEW r \in ConfigRequests
        PROVE  ConfigPhase(creq'[r]) =
            IF ConfigPhases[r] \in {"pending", "applied"} THEN "failed" ELSE ConfigPhases[r]
    <3>1. creq[r].pc \in {"new", "load", "validate", "save", "history", "done"}
        BY <1>3 DEF ConfigRequest
    <3>2. ConfigPhases[r] \in {"pending", "applied"} <=> r \in ConfigInFlight
        BY <3>1 DEF ConfigPhases, ConfigPhase, ConfigInFlight
    <3> QED
        BY <1>9, <3>2, ConfigAnswerPhase DEF ConfigCrash, ConfigPhases
  <2>2. ConfigPhases' = [r \in ConfigRequests |->
            IF ConfigPhases[r] \in {"pending", "applied"} THEN "failed" ELSE ConfigPhases[r]]
      BY <2>1 DEF ConfigPhases
  <2>3. ConfigEntries' = ConfigEntries
      BY <1>9 DEF ConfigCrash, ConfigEntries
  <2> QED
      BY <2>2, <2>3 DEF ConfigStore!Next, ConfigStore!Lose, ConfigPhases, ConfigEntries
<1>10. CASE UNCHANGED configVars
    BY <1>10 DEF configVars, ConfigStore!storeVars
<1> QED
    BY <1>1, <1>2, <1>4, <1>5, <1>6, <1>7, <1>8, <1>9, <1>10
    DEF ConfigNext, ConfigStep, ConfigHandler, ConfigArrival

\* The config path implements AtMostOnce.
THEOREM ConfigsAreAtMostOnce == ConfigSpec => ConfigIsAtMostOnce
<1>1. ConfigInit => ConfigStore!Init
    BY ConfigStoreInit
<1>2. ConfigInv /\ ConfigInv' /\ [ConfigNext]_configVars =>
          [ConfigStore!Next]_(ConfigStore!storeVars)
    BY ConfigStepIsStoreStep
<1> QED
    BY <1>1, <1>2, ConfigInvariance, PTL DEF ConfigSpec, ConfigIsAtMostOnce, ConfigStore!Spec
=============================================================================
