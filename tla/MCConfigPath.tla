---------------------------- MODULE MCConfigPath ----------------------------
(***************************************************************************)
(* ConfigPath on a small instance: one credentials file, one well-formed   *)
(* and one malformed inline document, one description and the empty one.   *)
(***************************************************************************)
EXTENDS SerialConfig, TLC

\* Each credential source supplied, emptied or absent, with and without a description
\* (never an emptied one), with and without validation; both sources at once only with
\* well-formed values and no description.
MCConfigWrites ==
    {in \in WriteInput :
        /\ in.desc # Empty
        /\ in.path # Absent /\ in.json # Absent =>
              in.path \in FilePaths /\ in.json \in WellFormedJSON /\ in.desc = Absent}

Symmetry == Permutations(ConfigRequests)

\* The plugin without crashes, for the runs about what requests do to each other.
CrashFreeSpec ==
    /\ ConfigInit /\ operators = "any"
    /\ [][ConfigStep /\ UNCHANGED operators]_operatedVars

\* What config.go:93 promises, "maintains version history": at rest, the history
\* entry of the stored version describes the stored configuration.
HistoryDescribesStored ==
    config # Absent /\ ConfigInFlight = {} =>
        /\ config.version \in DOMAIN history
        /\ history[config.version] = config.desc

\* The same of the entries: one that was written stays as it is, at least when
\* operators write one at a time.
HistoryNeverRewritten == [][operators # "any" => EntriesKept]_configVars
=============================================================================
