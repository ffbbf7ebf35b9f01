----------------------------- MODULE MCRolePath -----------------------------
(***************************************************************************)
(* RolePath on a small instance: two roles, two Skyflow role IDs.          *)
(***************************************************************************)
EXTENDS SerialRoles, TLC

CONSTANTS id1, id2

\* role_ids: left out, empty, each ID alone, both; with or without a description.
MCRoleWrites ==
    [ids: {Absent, <<>>, <<id1>>, <<id2>>, <<id1, id2>>},
     desc: (Descriptions \ {Empty}) \cup {Absent}]

Symmetry == Permutations(RoleRequests) \cup Permutations(Names)

\* docs/guidelines.md:45, "Remove role (irreversible)": a role that has been removed
\* is made again only by a request that found no role when it started, never by one
\* that still holds what was removed.
RoleRemovalIrreversible ==
    [][\A n \in Names : roles[n] = Absent /\ roles'[n] # Absent =>
          \E r \in RoleRequests : /\ rreq[r].pc = "save" /\ rreq'[r].pc = "done"
                                  /\ rreq[r].name = n /\ rreq[r].base = Absent]_roleVars
=============================================================================
