---------------------------- MODULE SerialConfig ----------------------------
(***************************************************************************)
(* The config path and its operators, who may keep to more than the plugin *)
(* asks of them: to write one at a time, that is, to send a write only     *)
(* after the one before has been answered (or has died with the process),  *)
(* and never to delete.  Unless they never delete, reads and deletes may   *)
(* come at any moment, a delete in the middle of a write included, and     *)
(* storage and the process may fail.  ConfigPath promises little about the *)
(* version history, because writes race; this module says what is left of  *)
(* "maintains version history" (config.go:93) when they do not.            *)
(***************************************************************************)
EXTENDS ConfigPath

\* What the operators keep to, for ever: "any" is nothing, "serial" to write one at a
\* time, "keeping" never to delete either.
VARIABLE operators

operatedVars == <<configVars, operators>>

\* At most one write is in flight.
OneAtATime == \A r, s \in ConfigInFlight : r = s

Keeps == config # Absent => config' # Absent

OperatorsKeepTo ==
    /\ operators # "any" => OneAtATime'
    /\ operators = "keeping" => Keeps

OperatedInit == ConfigInit /\ operators \in {"any", "serial", "keeping"}

OperatedNext == ConfigNext /\ OperatorsKeepTo /\ UNCHANGED operators

OperatedSpec == OperatedInit /\ [][OperatedNext]_operatedVars
-----------------------------------------------------------------------------
(* Properties *)

\* The history entry of the stored version describes the stored configuration, or
\* somebody was told that it may not; a write may be about to put that entry.
Faithful ==
    config # Absent /\ (\A r \in ConfigRequests : creq[r].pc # "history") =>
        \/ config.version \in reported
        \/ config.version \in DOMAIN history /\ history[config.version] = config.desc

\* If operators write one at a time, saveConfigWithHistory keeps what its comment
\* promises: between writes the history is faithful, also where an earlier
\* configuration, before a delete, had an entry of the same version.
HistoryFaithful == operators # "any" => Faithful

\* A stored configuration is replaced only by its successor, the merge of one request
\* into that very configuration, under the next version.  (A write during which the
\* configuration is deleted stores the successor of the one that it had loaded.)
BuildsOnStored ==
    config # Absent /\ config' \notin {config, Absent} =>
        \E r \in ConfigRequests :
            creq[r].pc = "save" /\ config' = NextVersion(Merge(config, creq[r].in))

\* If operators write one at a time, pathConfigWrite loses no update of theirs.
NoUpdateLost == [][operators # "any" => BuildsOnStored]_configVars

EntriesKept == \A v \in DOMAIN history : v \in DOMAIN history' /\ history'[v] = history[v]

\* If operators write one at a time and never delete, a history entry, once written,
\* stays as it is.
HistoryKept == [][operators = "keeping" => EntriesKept]_configVars
-----------------------------------------------------------------------------
(* The inductive invariant *)

\* The base of the write in flight is still stored, or has been deleted.
BaseIsStored(q) ==
    /\ q.pc = "load" /\ q.op # "update" => config = Absent
    /\ q.pc \in {"validate", "save"} => config \in {q.base, Absent}
    /\ q.pc = "history" => config \in {q.cfg, Absent}

SerialInv ==
    /\ ConfigInv
    /\ OneAtATime
    /\ \A r \in ConfigRequests : BaseIsStored(creq[r])
    /\ Faithful

\* No version has an entry before it has been stored, and the entry to be written
\* is not there yet; what is stored is what the write in flight has started from.
EntriesBelow ==
    /\ config = Absent => DOMAIN history = {}
    /\ config # Absent => \A v \in DOMAIN history : v <= config.version
    /\ \A r \in ConfigRequests :
          /\ creq[r].pc \in {"validate", "save"} => config = creq[r].base
          /\ creq[r].pc = "history" =>
                config = creq[r].cfg /\ config.version \notin DOMAIN history

OperatedInv ==
    /\ operators # "any" => SerialInv
    /\ operators = "keeping" => EntriesBelow
=============================================================================
