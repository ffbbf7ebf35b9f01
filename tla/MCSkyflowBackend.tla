-------------------------- MODULE MCSkyflowBackend --------------------------
(***************************************************************************)
(* SkyflowBackend on a small instance: one role, two Skyflow role IDs, one *)
(* credentials file and one inline document.                               *)
(***************************************************************************)
EXTENDS SkyflowBackend, TLC

CONSTANTS f1, j1, id1, id2

\* Rotate to the file (validated), rotate to the document (unvalidated), or save
\* again what is stored.
MCConfigWrites ==
    {[path |-> f1, json |-> Absent, desc |-> Absent, validate |-> TRUE],
     [path |-> Absent, json |-> j1, desc |-> Absent, validate |-> FALSE],
     [path |-> Absent, json |-> Absent, desc |-> Absent, validate |-> FALSE]}

MCRoleWrites == [ids: {Absent, <<id1>>, <<id2>>, <<id1, id2>>}, desc: {Absent}]

Symmetry == Permutations(ConfigRequests) \cup Permutations(RoleRequests)
                \cup Permutations(TokenRequests)

\* README.md:74: "deleting or rotating the mount config immediately cuts off
\* every consumer": a token is signed with the credential stored when it is issued.
CutOffIsImmediate ==
    [][\A t \in TokenRequests : treq[t].token = Absent /\ treq'[t].token # Absent =>
          config # Absent /\ treq'[t].token.cred = Credential(config)]_backendVars

\* docs/architecture.md:112: "handlers honor cancellation when Skyflow APIs
\* degrade": a request whose context has expired is answered.
CancellationHonoured ==
    \A t \in TokenRequests : treq[t].expired ~> treq[t].pc = "done"

\* docs/guidelines.md:83: "Performs an internal check (storage access + Skyflow
\* reachability)": a request is told "healthy" only if Skyflow has served the mount
\* at some time, be it to validate a credential or to issue a token.
HealthChecksSkyflow ==
    (\E h \in HealthRequests : hreq[h] \in {"file_path", "json"}) =>
        accepted # {} \/ \E t \in TokenRequests : treq[t].token # Absent
=============================================================================
