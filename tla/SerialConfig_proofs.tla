-------------------------- MODULE SerialConfig_proofs --------------------------
(***************************************************************************)
(* Proofs about SerialConfig, for every set of requests, of credentials,   *)
(* of descriptions and of inputs, with and without storage faults.         *)
(***************************************************************************)
EXTENDS SerialConfig, ConfigPath_proofs

-----------------------------------------------------------------------------
(* One write at a time *)

\* The request that a step of its own leaves in flight is alone in flight.
LEMMA AloneInFlight ==
    ASSUME OneAtATime, NEW r \in ConfigInFlight, NEW q \in ConfigRequests, q # r
    PROVE  creq[q].pc \in {"new", "done"}
BY DEF OneAtATime, ConfigInFlight

\* A step of request r, in flight, changes only what r carries.
LEMMA OneRequestPreservesSerial ==
    ASSUME ConfigInv', OneAtATime, OneAtATime', NEW r \in ConfigInFlight,
           \A q \in ConfigRequests : q # r => creq'[q] = creq[q],
           BaseIsStored(creq[r])', Faithful'
    PROVE  SerialInv'
<1>1. ASSUME NEW q \in ConfigRequests
      PROVE  BaseIsStored(creq[q])'
  <2>1. CASE q = r
      BY <2>1
  <2>2. CASE q # r
      BY <2>2, AloneInFlight DEF BaseIsStored
  <2> QED
      BY <2>1, <2>2
<1> QED
    BY <1>1 DEF SerialInv

\* The answer of a request that owes no history entry, with the configuration
\* unchanged or gone.
LEMMA AnswerPreservesSerial ==
    ASSUME SerialInv, ConfigInv', OneAtATime', NEW r \in ConfigRequests, NEW answer,
           ConfigAnswer(r, answer), creq[r].pc # "history", config' \in {config, Absent},
           UNCHANGED <<history, reported>>
    PROVE  SerialInv'
<1>1. creq \in [ConfigRequests -> ConfigRequest]
    BY DEF SerialInv, ConfigInv, ConfigTypeOK
<1>2. /\ \A q \in ConfigRequests : q # r => creq'[q] = creq[q]
      /\ creq'[r].pc = "done"
    BY <1>1 DEF ConfigAnswer, Answered, NewConfigRequest
<1>3. \A q \in ConfigRequests : BaseIsStored(creq[q])'
    BY <1>2 DEF SerialInv, BaseIsStored
<1>4. Faithful'
    BY <1>2 DEF SerialInv, Faithful
<1> QED
    BY <1>3, <1>4 DEF SerialInv

\* What the write in flight loads is what is stored.
LEMMA LoadPreservesSerial ==
    ASSUME SerialInv, ConfigInv', OneAtATime', NEW r \in ConfigRequests, ConfigLoad(r)
    PROVE  SerialInv'
<1>1. /\ creq[r].pc = "load" /\ creq'[r].pc \in {"validate", "save"}
      /\ creq'[r].base = Base(r)
      /\ \A q \in ConfigRequests : q # r => creq'[q] = creq[q]
      /\ config' = config /\ history' = history /\ reported' = reported
    BY DEF ConfigLoad, SerialInv, ConfigInv, ConfigTypeOK, ConfigRequest
<1>2. Base(r) = config
    BY <1>1 DEF SerialInv, BaseIsStored, Base
<1>3. BaseIsStored(creq[r])'
    BY <1>1, <1>2 DEF BaseIsStored
<1>4. Faithful'
    BY <1>1 DEF SerialInv, Faithful
<1> QED
    BY <1>1, <1>3, <1>4, OneRequestPreservesSerial DEF SerialInv, ConfigInFlight

\* Validation touches neither the base nor what is stored.
LEMMA AcceptedPreservesSerial ==
    ASSUME SerialInv, ConfigInv', OneAtATime', NEW r \in ConfigRequests, CredentialsAccepted(r)
    PROVE  SerialInv'
<1>1. /\ creq[r].pc = "validate" /\ creq'[r].pc = "save"
      /\ creq'[r].base = creq[r].base
      /\ \A q \in ConfigRequests : q # r => creq'[q] = creq[q]
      /\ config' = config /\ history' = history /\ reported' = reported
    BY DEF CredentialsAccepted, SerialInv, ConfigInv, ConfigTypeOK, ConfigRequest
<1>2. BaseIsStored(creq[r])'
    BY <1>1 DEF SerialInv, BaseIsStored
<1>3. Faithful'
    BY <1>1 DEF SerialInv, Faithful
<1> QED
    BY <1>1, <1>2, <1>3, OneRequestPreservesSerial DEF SerialInv, ConfigInFlight

\* From the Put of the configuration to that of the entry, the entry is owed.
LEMMA SavePreservesSerial ==
    ASSUME SerialInv, ConfigInv', OneAtATime', NEW r \in ConfigRequests, ConfigSave(r)
    PROVE  SerialInv'
<1>1. /\ creq[r].pc = "save" /\ creq'[r].pc = "history"
      /\ creq'[r].cfg = config'
      /\ \A q \in ConfigRequests : q # r => creq'[q] = creq[q]
    BY DEF ConfigSave, SerialInv, ConfigInv, ConfigTypeOK, ConfigRequest
<1>2. BaseIsStored(creq[r])' /\ Faithful'
    BY <1>1 DEF BaseIsStored, Faithful
<1> QED
    BY <1>1, <1>2, OneRequestPreservesSerial DEF SerialInv, ConfigInFlight

\* A Put that fails reports the version it may have stored.
LEMMA SaveFailsPreservesSerial ==
    ASSUME SerialInv, ConfigInv', OneAtATime', NEW r \in ConfigRequests, ConfigSaveFails(r)
    PROVE  SerialInv'
<1>1. /\ creq[r].pc = "save" /\ creq'[r].pc = "done"
      /\ \A q \in ConfigRequests : q # r => creq'[q] = creq[q]
      /\ config' \in {NextVersion(creq[r].cfg), config} /\ history' = history
      /\ reported' = reported \cup {creq[r].cfg.version + 1}
    BY DEF ConfigSaveFails, ConfigAnswer, Answered, NewConfigRequest, Outcome,
           SerialInv, ConfigInv, ConfigTypeOK
<1>2. r \in ConfigInFlight
    BY <1>1 DEF ConfigInFlight
<1>3. BaseIsStored(creq[r])'
    BY <1>1 DEF BaseIsStored
<1>4. NextVersion(creq[r].cfg).version \in reported'
    BY <1>1, SavedConfigFit DEF SerialInv
<1>5. \A q \in ConfigRequests : creq[q].pc # "history"
    BY <1>1, <1>2, AloneInFlight DEF SerialInv
<1>6. Faithful'
    BY <1>1, <1>4, <1>5 DEF SerialInv, Faithful
<1> QED
    BY <1>1, <1>2, <1>3, <1>6, OneRequestPreservesSerial DEF SerialInv

\* The entry that is put describes the configuration that has just been saved, if
\* that is still stored.
LEMMA HistoryPreservesSerial ==
    ASSUME SerialInv, ConfigInv', OneAtATime', NEW r \in ConfigRequests,
           creq[r].pc = "history", ConfigAnswer(r, "ok"), config' = config,
           reported \subseteq reported',
           history' = PutHistory(creq[r].cfg) \/ creq[r].cfg.version \in reported'
    PROVE  SerialInv'
<1>1. /\ creq'[r].pc = "done"
      /\ \A q \in ConfigRequests : q # r => creq'[q] = creq[q]
    BY DEF ConfigAnswer, Answered, NewConfigRequest, SerialInv, ConfigInv, ConfigTypeOK
<1>2. BaseIsStored(creq[r])'
    BY <1>1 DEF BaseIsStored
<1>3. config \in {creq[r].cfg, Absent}
    BY DEF SerialInv, BaseIsStored
<1>4. Faithful'
    BY <1>3 DEF Faithful, PutHistory
<1> QED
    BY <1>1, <1>2, <1>4, OneRequestPreservesSerial DEF SerialInv, ConfigInFlight

\* One case per action.
LEMMA NextPreservesSerial ==
    SerialInv /\ [ConfigNext /\ OneAtATime']_configVars => SerialInv'
<1> SUFFICES ASSUME SerialInv, [ConfigNext /\ OneAtATime']_configVars
             PROVE  SerialInv'
    OBVIOUS
<1>1. CASE UNCHANGED configVars
  <2>1. ConfigInv'
      BY <1>1, ConfigNextPreservesInv DEF SerialInv
  <2>2. OneAtATime' /\ Faithful'
      BY <1>1 DEF SerialInv, configVars, OneAtATime, ConfigInFlight, Faithful
  <2>3. \A r \in ConfigRequests : BaseIsStored(creq[r])'
      BY <1>1 DEF SerialInv, configVars, BaseIsStored
  <2> QED
      BY <2>1, <2>2, <2>3 DEF SerialInv
<1>2. CASE ConfigNext /\ OneAtATime'
  <2> USE <1>2
  <2>1. ConfigInv'
      BY ConfigNextPreservesInv DEF SerialInv
  <2>2. ASSUME NEW r \in ConfigRequests,
               \/ ConfigReject(r) \/ CredentialsRefused(r) \/ ConfigGetFails(r)
               \/ ConfigRead(r) \/ ConfigDelete(r) \/ ConfigDeleteFails(r)
        PROVE  SerialInv'
      BY <2>1, <2>2, AnswerPreservesSerial
      DEF ConfigReject, CredentialsRefused, ConfigGetFails, ConfigRead, ConfigDelete,
          ConfigDeleteFails, Outcome
  <2>3. ASSUME NEW r \in ConfigRequests, ConfigLoad(r) PROVE SerialInv'
      BY <2>1, <2>3, LoadPreservesSerial
  <2>4. ASSUME NEW r \in ConfigRequests, CredentialsAccepted(r) PROVE SerialInv'
      BY <2>1, <2>4, AcceptedPreservesSerial
  <2>5. ASSUME NEW r \in ConfigRequests, ConfigSave(r) PROVE SerialInv'
      BY <2>1, <2>5, SavePreservesSerial
  <2>6. ASSUME NEW r \in ConfigRequests, ConfigSaveFails(r) PROVE SerialInv'
      BY <2>1, <2>6, SaveFailsPreservesSerial
  <2>7. ASSUME NEW r \in ConfigRequests, ConfigSaveHistory(r) \/ ConfigHistoryFails(r)
        PROVE  SerialInv'
      BY <2>1, <2>7, HistoryPreservesSerial DEF ConfigSaveHistory, ConfigHistoryFails
  <2>8. ASSUME NEW r \in ConfigRequests, NEW in \in ConfigWrites, ConfigExistenceCheck(r, in)
        PROVE  SerialInv'
    <3>1. /\ creq'[r].pc = "load"
          /\ creq'[r].op = IF config = Absent THEN "create" ELSE "update"
          /\ \A q \in ConfigRequests : q # r => creq'[q] = creq[q]
          /\ creq[r].pc = "new"
          /\ config' = config /\ history' = history /\ reported' = reported
        BY <2>8 DEF ConfigExistenceCheck, SerialInv, ConfigInv, ConfigTypeOK, ConfigRequest
    <3>2. \A q \in ConfigRequests : BaseIsStored(creq[q])'
        BY <3>1 DEF SerialInv, BaseIsStored
    <3>3. Faithful'
        BY <3>1 DEF SerialInv, Faithful
    <3> QED
        BY <2>1, <3>2, <3>3 DEF SerialInv
  <2>9. CASE ConfigCrash
    <3>1. /\ \A q \in ConfigRequests : creq'[q].pc \in {"new", "done"}
          /\ config' = config /\ history' = history /\ reported \subseteq reported'
        BY <2>9 DEF ConfigCrash, ConfigInFlight, Answered, NewConfigRequest
    <3>2. ASSUME config # Absent, NEW r \in ConfigRequests, creq[r].pc = "history"
          PROVE  config.version \in reported'
        BY <2>9, <3>2 DEF SerialInv, BaseIsStored, ConfigCrash
    <3>3. Faithful'
        BY <3>1, <3>2 DEF SerialInv, Faithful
    <3> QED
        BY <2>1, <3>1, <3>3 DEF SerialInv, BaseIsStored
  <2> QED
      BY <2>2, <2>3, <2>4, <2>5, <2>6, <2>7, <2>8, <2>9
      DEF ConfigNext, ConfigStep, ConfigHandler, ConfigArrival
<1> QED
    BY <1>1, <1>2

\* Nobody is in flight and nothing is stored yet.
LEMMA SerialInitInv == ConfigInit => SerialInv
<1>1. ConfigInit => ConfigInv
    BY ConfigInitInv
<1>2. ConfigInit => /\ OneAtATime /\ Faithful
                    /\ \A r \in ConfigRequests : BaseIsStored(creq[r])
    BY DEF ConfigInit, OneAtATime, ConfigInFlight, Faithful, BaseIsStored,
           NewConfigRequest
<1> QED
    BY <1>1, <1>2 DEF SerialInv

-----------------------------------------------------------------------------
(* No lost update *)

\* A request that saves while its base is stored saves the successor of the base.
LEMMA SavesSuccessor ==
    ASSUME SerialInv, NEW r \in ConfigRequests, creq[r].pc = "save", config # Absent
    PROVE  /\ creq[r].cfg = Merge(config, creq[r].in)
           /\ NextVersion(creq[r].cfg).version = config.version + 1
<1>1. CarriesValid(creq[r], accepted, waived) /\ config \in SkyflowConfig
    BY DEF SerialInv, ConfigInv, ConfigTypeOK, RequestsCarryValid
<1>2. creq[r].base = config
    BY DEF SerialInv, BaseIsStored
<1>3. creq[r].cfg = Merge(config, creq[r].in) /\ creq[r].in \in WriteInput
    BY <1>1, <1>2 DEF CarriesValid
<1> QED
    BY <1>1, <1>3, MergeType, NextVersionFacts

\* Only a save stores a configuration.
LEMMA StepsBuildOnStored == SerialInv /\ [ConfigNext]_configVars => BuildsOnStored
<1> SUFFICES ASSUME SerialInv, [ConfigNext]_configVars,
                    config # Absent, config' \notin {config, Absent}
             PROVE  \E r \in ConfigRequests :
                        creq[r].pc = "save" /\ config' = NextVersion(creq[r].cfg)
    BY SavesSuccessor DEF BuildsOnStored
<1>1. ~UNCHANGED configVars /\ ~ConfigCrash
    BY DEF configVars, ConfigCrash
<1>2. PICK r \in ConfigRequests : ConfigHandler(r) \/ ConfigArrival(r)
    BY <1>1 DEF ConfigNext, ConfigStep
<1>3. ConfigSave(r) \/ ConfigSaveFails(r)
    BY <1>2 DEF ConfigHandler, ConfigArrival, ConfigReject, ConfigLoad, CredentialsAccepted,
                CredentialsRefused, ConfigSaveHistory, ConfigHistoryFails, ConfigGetFails,
                ConfigExistenceCheck, ConfigRead, ConfigDelete, ConfigDeleteFails, Outcome
<1> QED
    BY <1>3 DEF ConfigSave, ConfigSaveFails, Outcome

-----------------------------------------------------------------------------
(* A configuration that is never deleted *)

\* A step of request r, in flight, that keeps the entries below what is stored.
LEMMA OneRequestPreservesBelow ==
    ASSUME SerialInv, EntriesBelow, NEW r \in ConfigInFlight,
           \A q \in ConfigRequests : q # r => creq'[q] = creq[q],
           config' = Absent => DOMAIN history' = {},
           config' # Absent => \A v \in DOMAIN history' : v <= config'.version,
           creq'[r].pc \in {"validate", "save"} => config' = creq'[r].base,
           creq'[r].pc = "history" =>
               config' = creq'[r].cfg /\ config'.version \notin DOMAIN history'
    PROVE  EntriesBelow'
<1>1. \A q \in ConfigRequests : q # r => creq'[q].pc \in {"new", "done"}
    BY AloneInFlight DEF SerialInv
<1> QED
    BY <1>1 DEF EntriesBelow

\* A save stores a version above all the entries.
LEMMA SavesAbove ==
    ASSUME SerialInv, EntriesBelow, NEW r \in ConfigRequests, creq[r].pc = "save"
    PROVE  \A v \in DOMAIN history :
               /\ v <= NextVersion(creq[r].cfg).version
               /\ v # NextVersion(creq[r].cfg).version
<1>1. CASE config = Absent
    BY <1>1 DEF EntriesBelow
<1>2. CASE config # Absent
  <2>1. NextVersion(creq[r].cfg).version = config.version + 1
      BY <1>2, SavesSuccessor
  <2>2. config.version \in Nat /\ DOMAIN history \subseteq Nat
      BY <1>2 DEF SerialInv, ConfigInv, ConfigTypeOK, SkyflowConfig
  <2>3. \A v \in DOMAIN history : v <= config.version
      BY <1>2 DEF EntriesBelow
  <2> QED
      BY <2>1, <2>2, <2>3
<1> QED
    BY <1>1, <1>2

\* Steps that change neither the configuration nor the history, and answers.
LEMMA AnswerPreservesBelow ==
    ASSUME SerialInv, EntriesBelow, Keeps, NEW r \in ConfigRequests, NEW answer,
           ConfigAnswer(r, answer), config' \in {config, Absent}, history' = history
    PROVE  EntriesBelow'
<1>1. config' = config
    BY DEF Keeps
<1>2. \A q \in ConfigRequests : creq'[q].pc = "done" \/ creq'[q] = creq[q]
    BY DEF ConfigAnswer, Answered, NewConfigRequest, SerialInv, ConfigInv, ConfigTypeOK
<1> QED
    BY <1>1, <1>2 DEF EntriesBelow

\* The Put of an entry, which was not there, at the version that is stored.
LEMMA HistoryPreservesBelow ==
    ASSUME SerialInv, EntriesBelow, NEW r \in ConfigRequests, creq[r].pc = "history",
           ConfigAnswer(r, "ok"), config' = config,
           history' \in {history, PutHistory(creq[r].cfg)}
    PROVE  EntriesBelow' /\ EntriesKept
<1>1. /\ creq'[r].pc = "done" /\ r \in ConfigInFlight
      /\ \A q \in ConfigRequests : q # r => creq'[q] = creq[q]
    BY DEF ConfigAnswer, Answered, NewConfigRequest, ConfigInFlight,
           SerialInv, ConfigInv, ConfigTypeOK
<1>2. config = creq[r].cfg /\ config.version \notin DOMAIN history
    BY DEF EntriesBelow
<1>3. config # Absent /\ config.version \in Nat
    BY <1>2, SavedConfigFit, ConfigAssumption DEF SerialInv
<1>4. DOMAIN history' \subseteq DOMAIN history \cup {config.version}
    BY <1>2 DEF PutHistory
<1>5. \A v \in DOMAIN history' : v <= config'.version
    BY <1>3, <1>4 DEF EntriesBelow
<1>6. EntriesBelow'
    BY <1>1, <1>3, <1>5, OneRequestPreservesBelow
<1>7. EntriesKept
    BY <1>2 DEF EntriesKept, PutHistory
<1> QED
    BY <1>6, <1>7

\* One case per action.
LEMMA NextPreservesBelow ==
    ASSUME SerialInv, EntriesBelow, ConfigNext, Keeps
    PROVE  EntriesBelow' /\ EntriesKept
<1>1. ASSUME NEW r \in ConfigRequests,
             \/ ConfigReject(r) \/ CredentialsRefused(r) \/ ConfigGetFails(r)
             \/ ConfigRead(r) \/ ConfigDelete(r) \/ ConfigDeleteFails(r)
      PROVE  EntriesBelow' /\ EntriesKept
  <2>1. \E answer : ConfigAnswer(r, answer)
      BY <1>1 DEF ConfigReject, CredentialsRefused, ConfigGetFails, ConfigRead,
                  ConfigDelete, ConfigDeleteFails
  <2>2. config' \in {config, Absent} /\ history' = history
      BY <1>1 DEF ConfigReject, CredentialsRefused, ConfigGetFails, ConfigRead,
                  ConfigDelete, ConfigDeleteFails, Outcome
  <2> QED
      BY <2>1, <2>2, AnswerPreservesBelow DEF EntriesKept
<1>2. ASSUME NEW r \in ConfigRequests, ConfigLoad(r)
      PROVE  EntriesBelow' /\ EntriesKept
  <2>1. /\ creq[r].pc = "load" /\ creq'[r].pc \in {"validate", "save"}
        /\ creq'[r].base = Base(r)
        /\ \A q \in ConfigRequests : q # r => creq'[q] = creq[q]
        /\ config' = config /\ history' = history
      BY <1>2 DEF ConfigLoad, SerialInv, ConfigInv, ConfigTypeOK, ConfigRequest
  <2>2. Base(r) = config /\ r \in ConfigInFlight
      BY <2>1 DEF SerialInv, BaseIsStored, Base, ConfigInFlight
  <2> QED
      BY <2>1, <2>2, OneRequestPreservesBelow DEF EntriesBelow, EntriesKept
<1>3. ASSUME NEW r \in ConfigRequests, CredentialsAccepted(r)
      PROVE  EntriesBelow' /\ EntriesKept
  <2>1. /\ creq[r].pc = "validate" /\ creq'[r].pc = "save" /\ r \in ConfigInFlight
        /\ creq'[r].base = creq[r].base
        /\ \A q \in ConfigRequests : q # r => creq'[q] = creq[q]
        /\ config' = config /\ history' = history
      BY <1>3 DEF CredentialsAccepted, ConfigInFlight, SerialInv, ConfigInv, ConfigTypeOK,
                  ConfigRequest
  <2> QED
      BY <2>1, OneRequestPreservesBelow DEF EntriesBelow, EntriesKept
<1>4. ASSUME NEW r \in ConfigRequests, ConfigSave(r) \/ ConfigSaveFails(r)
      PROVE  EntriesBelow' /\ EntriesKept
  <2>1. /\ creq[r].pc = "save" /\ r \in ConfigInFlight
        /\ creq'[r].pc \in {"history", "done"}
        /\ creq'[r].pc = "history" =>
               creq'[r].cfg = config' /\ config' = NextVersion(creq[r].cfg)
        /\ config' \in {config, NextVersion(creq[r].cfg)} /\ history' = history
        /\ \A q \in ConfigRequests : q # r => creq'[q] = creq[q]
      BY <1>4 DEF ConfigSave, ConfigSaveFails, Outcome, ConfigAnswer, Answered,
                  NewConfigRequest, ConfigInFlight, SerialInv, ConfigInv, ConfigTypeOK,
                  ConfigRequest
  <2>2. NextVersion(creq[r].cfg) # Absent
      BY <2>1, SavedConfigFit, ConfigAssumption DEF SerialInv
  <2> QED
      BY <2>1, <2>2, SavesAbove, OneRequestPreservesBelow DEF EntriesBelow, EntriesKept
<1>5. ASSUME NEW r \in ConfigRequests, ConfigSaveHistory(r) \/ ConfigHistoryFails(r)
      PROVE  EntriesBelow' /\ EntriesKept
    BY <1>5, HistoryPreservesBelow DEF ConfigSaveHistory, ConfigHistoryFails, Outcome
<1>6. ASSUME NEW r \in ConfigRequests, NEW in \in ConfigWrites, ConfigExistenceCheck(r, in)
      PROVE  EntriesBelow' /\ EntriesKept
  <2>1. /\ creq'[r].pc = "load" /\ config' = config /\ history' = history
        /\ \A q \in ConfigRequests : q # r => creq'[q] = creq[q]
      BY <1>6 DEF ConfigExistenceCheck, SerialInv, ConfigInv, ConfigTypeOK, ConfigRequest
  <2> QED
      BY <2>1 DEF EntriesBelow, EntriesKept
<1>7. CASE ConfigCrash
  <2>1. /\ \A q \in ConfigRequests : creq'[q].pc \in {"new", "done"}
        /\ config' = config /\ history' = history
      BY <1>7 DEF ConfigCrash, ConfigInFlight, Answered, NewConfigRequest
  <2> QED
      BY <2>1 DEF EntriesBelow, EntriesKept
<1> QED
    BY <1>1, <1>2, <1>3, <1>4, <1>5, <1>6, <1>7
    DEF ConfigNext, ConfigStep, ConfigHandler, ConfigArrival

-----------------------------------------------------------------------------
(* What holds of operators who keep to their rules *)

\* What the operators keep to bounds each step.
LEMMA OperatedStep ==
    ASSUME OperatedInv, [OperatedNext]_operatedVars
    PROVE  /\ OperatedInv'
           /\ operators # "any" => BuildsOnStored
           /\ operators = "keeping" => [EntriesKept]_configVars
<1>1. /\ operators' = operators /\ [ConfigNext]_configVars
      /\ operators # "any" => [ConfigNext /\ OneAtATime']_configVars
      /\ operators = "keeping" => [ConfigNext /\ Keeps]_configVars
    BY DEF OperatedNext, OperatorsKeepTo, operatedVars
<1>2. ASSUME operators # "any"
      PROVE  SerialInv /\ SerialInv' /\ BuildsOnStored
  <2>1. SerialInv
      BY <1>2 DEF OperatedInv
  <2> QED
      BY <1>1, <1>2, <2>1, NextPreservesSerial, StepsBuildOnStored
<1>3. ASSUME operators = "keeping"
      PROVE  EntriesBelow' /\ [EntriesKept]_configVars
  <2>1. SerialInv /\ EntriesBelow
      BY <1>3 DEF OperatedInv
  <2>2. CASE ConfigNext /\ Keeps
      BY <2>1, <2>2, NextPreservesBelow
  <2>3. CASE UNCHANGED configVars
      BY <2>1, <2>3 DEF configVars, EntriesBelow
  <2> QED
      BY <1>1, <1>3, <2>2, <2>3
<1> QED
    BY <1>1, <1>2, <1>3 DEF OperatedInv

\* Operators who keep to a rule are operators: what holds of the config path holds.
THEOREM OperatorsAreClients == OperatedSpec => ConfigSpec
<1>1. OperatedInit => ConfigInit
    BY DEF OperatedInit
<1>2. [OperatedNext]_operatedVars => [ConfigNext]_configVars
    BY DEF OperatedNext, operatedVars
<1> QED
    BY <1>1, <1>2, PTL DEF OperatedSpec, ConfigSpec

\* The invariant holds in every state that such operators can reach.
THEOREM OperatedInvariance == OperatedSpec => []OperatedInv
<1>1. OperatedInit => OperatedInv
  <2>1. ConfigInit => SerialInv
      BY SerialInitInv
  <2>2. ConfigInit => EntriesBelow
      BY DEF ConfigInit, EntriesBelow, NewConfigRequest
  <2> QED
      BY <2>1, <2>2 DEF OperatedInit, OperatedInv
<1>2. OperatedInv /\ [OperatedNext]_operatedVars => OperatedInv'
    BY OperatedStep
<1> QED
    BY <1>1, <1>2, PTL DEF OperatedSpec

\* If operators write one at a time, the history describes what is stored between
\* writes, or a failure was reported.
THEOREM HistoryAlwaysFaithful == OperatedSpec => []HistoryFaithful
<1>1. OperatedInv => HistoryFaithful
    BY DEF OperatedInv, SerialInv, HistoryFaithful
<1> QED
    BY <1>1, OperatedInvariance, PTL

\* If operators write one at a time, a stored configuration is replaced only by its
\* successor.
THEOREM UpdatesNeverLost == OperatedSpec => NoUpdateLost
<1>1. OperatedInv /\ [OperatedNext]_operatedVars =>
          [operators # "any" => BuildsOnStored]_configVars
    BY OperatedStep
<1> QED
    BY <1>1, OperatedInvariance, PTL DEF OperatedSpec, NoUpdateLost

\* If, besides, nobody deletes, a history entry, once written, is never written again.
THEOREM HistoryAlwaysKept == OperatedSpec => HistoryKept
<1>1. OperatedInv /\ [OperatedNext]_operatedVars =>
          [operators = "keeping" => EntriesKept]_configVars
    BY OperatedStep
<1> QED
    BY <1>1, OperatedInvariance, PTL DEF OperatedSpec, HistoryKept
=============================================================================
