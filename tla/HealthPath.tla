----------------------------- MODULE HealthPath -----------------------------
(***************************************************************************)
(* The "health" path of the secrets engine: backend/path_health.go.  The   *)
(* handler makes one storage call, so a request takes one step; it answers *)
(* without a Go error even when that call fails.                           *)
(***************************************************************************)
EXTENDS ConfigPath

CONSTANT HealthRequests  \* the requests made to the health path

VARIABLE hreq            \* hreq[h]: "new", or what request h was told

\* Unhealthy with an error, unhealthy for want of a configuration, or healthy
\* with a credentials_type.
Verdicts == {"unhealthy", "unconfigured", "file_path", "json"}

HealthInit == hreq = [h \in HealthRequests |-> "new"]

HealthAnswer(h, verdict) == hreq' = [hreq EXCEPT ![h] = verdict]

\* Mutant of HealthRead: the missing configuration is not looked for.
UncheckedHealthRead(h) ==
    /\ hreq[h] = "new"
    /\ HealthAnswer(h, IF config # Absent /\ config.path # Empty THEN "file_path" ELSE "json")

\* pathHealthRead
HealthRead(h) ==
    /\ hreq[h] = "new"
    /\ HealthAnswer(h, CASE config = Absent -> "unconfigured"
                         [] config # Absent /\ config.path # Empty -> "file_path"
                         [] OTHER -> "json")

\* ... when getConfig returns an error.
HealthReadFails(h) ==
    /\ StorageFaults
    /\ hreq[h] = "new"
    /\ HealthAnswer(h, "unhealthy")

HealthStep == \E h \in HealthRequests : HealthRead(h) \/ HealthReadFails(h)
-----------------------------------------------------------------------------
(* Properties *)

HealthTypeOK == hreq \in [HealthRequests -> {"new"} \cup Verdicts]

\* The credentials that may stand behind a healthy verdict of each type.
Behind(verdict) == CASE verdict = "file_path" -> FilePaths
                     [] verdict = "json" -> WellFormedJSON
                     [] OTHER -> {}

\* What "healthy" does tell, although the handler never asks Skyflow: at some time
\* a credential of the reported type was accepted by Skyflow, or an operator
\* waived its validation.
HealthyMeansVetted ==
    \A h \in HealthRequests :
        hreq[h] \in {"file_path", "json"} => Behind(hreq[h]) \cap (accepted \cup waived) # {}

HealthInv == HealthTypeOK /\ HealthyMeansVetted
=============================================================================
