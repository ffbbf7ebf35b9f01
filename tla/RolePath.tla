------------------------------ MODULE RolePath ------------------------------
(***************************************************************************)
(* The "roles" paths of the secrets engine: backend/path_roles.go on top   *)
(* of backend/role.go.  As on the config path, requests interleave at each *)
(* storage call and no lock is held.  rreq[r] is the handler serving r:    *)
(*                                                                         *)
(*   "new"   not received yet                                              *)
(*   "load"  Vault's existence check has chosen create or update           *)
(*   "save"  about to Put "role/<name>"                                    *)
(*   "done"  answered                                                      *)
(*                                                                         *)
(* Time is the wall clock of the plugin's host, which only moves forward;  *)
(* time.Now() is read inside a stretch between two storage calls, so a     *)
(* time stamp may be older than the Put that stores it.                    *)
(***************************************************************************)
EXTENDS Naturals, Sequences, Storage

CONSTANTS
    RoleRequests,  \* the requests made to the roles paths
    Names,         \* role names; GenericNameRegex admits no empty one
    RoleIDs,       \* Skyflow role IDs
    RoleWrites,    \* the bodies of the write requests that clients send
    MaxTime        \* bound on the clock

VARIABLES
    roles,   \* the entries "role/<name>": Absent or a role, for each name
    now,     \* the wall clock
    rreq     \* rreq[r]: the handler serving request r

roleVars == <<roles, now, rreq>>

\* type skyflowRole (tags travel with the description).
SkyflowRole == [name: Names, ids: Seq(RoleIDs), desc: Descriptions,
                created: Nat, updated: Nat]

RoleInput == [ids: {Absent} \cup Seq(RoleIDs), desc: Descriptions \cup {Absent}]

ASSUME RoleAssumption ==
    /\ Absent \notin Names
    /\ Absent \notin SkyflowRole
    /\ Absent \notin RoleInput
    /\ Absent \notin Seq(RoleIDs)
    /\ RoleWrites \subseteq RoleInput
    /\ MaxTime \in Nat

RoleRequest == [pc: {"new", "load", "save", "done"},
                op: {"none", "create", "update"},
                name: Names \cup {Absent},
                in: RoleInput \cup {Absent},
                role: SkyflowRole \cup {Absent},
                base: SkyflowRole \cup {Absent},
                at: Nat,
                answer: Answers]

NewRoleRequest == [pc |-> "new", op |-> "none", name |-> Absent, in |-> Absent,
                   role |-> Absent, base |-> Absent, at |-> 0, answer |-> "none"]

RoleAnswered(answer) == [NewRoleRequest EXCEPT !.pc = "done", !.answer = answer]

RoleInFlight == {r \in RoleRequests : rreq[r].pc \notin {"new", "done"}}

-----------------------------------------------------------------------------
(* role.go: defaults, merging and validation *)

defaultRole(n) == [name |-> n, ids |-> <<>>, desc |-> Empty,
                   created |-> now, updated |-> now]

RoleBase(r) == IF rreq[r].op = "update" THEN roles[rreq[r].name] ELSE Absent

\* Mutant of RoleMerge: the description is assigned without looking at "ok".
UnguardedRoleMerge(role, in) ==
    [role EXCEPT !.ids  = IF in.ids = Absent THEN @ ELSE in.ids, !.desc = in.desc]

\* pathRoleWrite's "update fields from request"
RoleMerge(role, in) ==
    [role EXCEPT !.ids  = IF in.ids = Absent THEN @ ELSE in.ids,
                 !.desc = IF in.desc = Absent THEN @ ELSE in.desc]

\* Mutant of RoleMerged: an update of a stored role takes a new creation time.
RecreatedMerged(r) ==
    RoleMerge([(IF RoleBase(r) = Absent THEN defaultRole(rreq[r].name) ELSE RoleBase(r))
                  EXCEPT !.created = now],
              rreq[r].in)

RoleMerged(r) ==
    RoleMerge(IF RoleBase(r) = Absent THEN defaultRole(rreq[r].name) ELSE RoleBase(r),
              rreq[r].in)

\* Mutant of ValidRole: more than one role ID is let through.
AnyIDsValid(role) == role.ids # <<>>

\* func (r *skyflowRole) validate
ValidRole(role) == Len(role.ids) = 1

\* saveRole stores the role under the name it carries, not under the request's.
PutRole(role, t) == [roles EXCEPT ![role.name] = [role EXCEPT !.updated = t]]
-----------------------------------------------------------------------------
(* path_roles.go: the handlers *)

RoleInit ==
    /\ roles = [n \in Names |-> Absent]
    /\ now = 0
    /\ rreq = [r \in RoleRequests |-> NewRoleRequest]

RoleAnswer(r, answer) == rreq' = [rreq EXCEPT ![r] = RoleAnswered(answer)]

\* Vault asks pathRoleExistenceCheck and dispatches Create or Update by it.
RoleExistenceCheck(r, n, in) ==
    /\ rreq[r].pc = "new"
    /\ rreq' = [rreq EXCEPT ![r].pc = "load", ![r].name = n, ![r].in = in,
                   ![r].op = IF roles[n] = Absent THEN "create" ELSE "update"]
    /\ UNCHANGED <<roles, now>>

\* pathRoleWrite up to role.validate(): the merged role is invalid.
RoleReject(r) ==
    /\ rreq[r].pc = "load"
    /\ ~ValidRole(RoleMerged(r))
    /\ RoleAnswer(r, "rejected")
    /\ UNCHANGED <<roles, now>>

\* ... and the same when it is valid.
RoleLoad(r) ==
    /\ rreq[r].pc = "load"
    /\ ValidRole(RoleMerged(r))
    /\ rreq' = [rreq EXCEPT ![r].pc = "save", ![r].role = RoleMerged(r),
                   ![r].base = RoleBase(r), ![r].at = now]
    /\ UNCHANGED <<roles, now>>

\* saveRole: UpdatedAt is read some time between the load and the Put.
RoleSave(r) ==
    /\ rreq[r].pc = "save"
    /\ \E t \in rreq[r].at .. now : roles' = PutRole(rreq[r].role, t)
    /\ RoleAnswer(r, "ok")
    /\ UNCHANGED now

\* Mutant of RoleSaveFails: the role loaded earlier is put back.
RoleRollbackFails(r) ==
    /\ StorageFaults
    /\ rreq[r].pc = "save"
    /\ roles' = [roles EXCEPT ![rreq[r].name] = rreq[r].base]
    /\ RoleAnswer(r, "failed")
    /\ UNCHANGED now

\* Mutant of RoleSaveFails: the client is told that its request was at fault.
RejectingSaveFails(r) ==
    /\ StorageFaults
    /\ rreq[r].pc = "save"
    /\ \E t \in rreq[r].at .. now, applied \in BOOLEAN :
          roles' = Outcome(applied, PutRole(rreq[r].role, t), roles)
    /\ RoleAnswer(r, "rejected")
    /\ UNCHANGED now

RoleSaveFails(r) ==
    /\ StorageFaults
    /\ rreq[r].pc = "save"
    /\ \E t \in rreq[r].at .. now, applied \in BOOLEAN :
          roles' = Outcome(applied, PutRole(rreq[r].role, t), roles)
    /\ RoleAnswer(r, "failed")
    /\ UNCHANGED now

\* pathRoleRead
RoleRead(r, n) ==
    /\ rreq[r].pc = "new"
    /\ RoleAnswer(r, IF roles[n] = Absent THEN "notFound" ELSE "ok")
    /\ UNCHANGED <<roles, now>>

\* pathRoleList
RoleList(r) ==
    /\ rreq[r].pc = "new"
    /\ RoleAnswer(r, "ok")
    /\ UNCHANGED <<roles, now>>

\* pathRoleDelete
RoleDelete(r, n) ==
    /\ rreq[r].pc = "new"
    /\ roles' = [roles EXCEPT ![n] = Absent]
    /\ RoleAnswer(r, "ok")
    /\ UNCHANGED now

RoleDeleteFails(r, n) ==
    /\ StorageFaults
    /\ rreq[r].pc = "new"
    /\ \E applied \in BOOLEAN :
          roles' = Outcome(applied, [roles EXCEPT ![n] = Absent], roles)
    /\ RoleAnswer(r, "failed")
    /\ UNCHANGED now

\* getRole or List returns an error: existence check, update, read or list.
RoleGetFails(r) ==
    /\ StorageFaults
    /\ \/ rreq[r].pc = "new"
       \/ rreq[r].pc = "load" /\ rreq[r].op = "update"
    /\ RoleAnswer(r, "failed")
    /\ UNCHANGED <<roles, now>>

Tick == now < MaxTime /\ now' = now + 1 /\ UNCHANGED <<roles, rreq>>

\* The plugin process dies or is reloaded: the handlers vanish, storage stays.
RoleCrash ==
    /\ rreq' = [r \in RoleRequests |->
                   IF r \in RoleInFlight THEN RoleAnswered("failed") ELSE rreq[r]]
    /\ UNCHANGED <<roles, now>>

RoleHandler(r) ==
    \/ RoleReject(r) \/ RoleLoad(r)
    \/ RoleSave(r) \/ RoleSaveFails(r)
    \/ RoleGetFails(r)

RoleArrival(r) ==
    \/ \E n \in Names :
          \/ \E in \in RoleWrites : RoleExistenceCheck(r, n, in)
          \/ RoleRead(r, n)
          \/ RoleDelete(r, n) \/ RoleDeleteFails(r, n)
    \/ RoleList(r)

RoleStep == Tick \/ \E r \in RoleRequests : RoleHandler(r) \/ RoleArrival(r)

RoleNext == RoleStep \/ RoleCrash

RoleSpec == RoleInit /\ [][RoleNext]_roleVars
-----------------------------------------------------------------------------
(* Properties *)

RoleTypeOK ==
    /\ roles \in [Names -> SkyflowRole \cup {Absent}]
    /\ now \in 0 .. MaxTime
    /\ rreq \in [RoleRequests -> RoleRequest]

\* A stored role names itself, so that the next update saves it under its own
\* key; it grants exactly one Skyflow role ID; its times are in order and past, as
\* long as one clock that never goes back is read.
RoleWellFormed ==
    \A n \in Names : roles[n] # Absent =>
        /\ roles[n].name = n
        /\ Len(roles[n].ids) = 1
        /\ roles[n].created <= roles[n].updated
        /\ roles[n].updated <= now

\* The ID lists that role n grants or that a request in flight may make it grant.
IDsHeldBy(r) == IF rreq[r].role = Absent THEN {rreq[r].in.ids} \ {Absent}
                                         ELSE {rreq[r].role.ids}

LiveGrants(n) ==
    (IF roles[n] = Absent THEN {} ELSE {roles[n].ids})
        \cup UNION {IDsHeldBy(r) : r \in {q \in RoleInFlight : rreq[q].name = n}}

\* A role is granted an ID that it did not have, and that no request in flight to it
\* held, only by a new request to that very role that names the ID: no interleaving of
\* writes to other roles, failed Put or crash brings one up.  (A request that had
\* loaded the role before an ID was withdrawn from it, or before it was deleted, still
\* holds the ID and may grant it again.)
GrantedByRequests ==
    \A n \in Names : \A ids \in LiveGrants(n)' \ LiveGrants(n) :
        \E r \in RoleRequests : /\ rreq[r].pc = "new" /\ rreq'[r].pc = "load"
                                /\ rreq'[r].name = n /\ rreq'[r].in.ids = ids

GrantsOnlyFromRequests == [][GrantedByRequests]_roleVars

\* A save whose base is still what is stored behaves as an atomic update: it
\* changes neither the creation time nor a field that the request left out.
FreshRoleSaves ==
    \A r \in RoleRequests : LET n == rreq[r].name IN
        /\ rreq[r].pc = "save" /\ rreq'[r].pc = "done" /\ rreq'[r].answer = "ok"
        /\ rreq[r].base = roles[n] /\ roles[n] # Absent
        => /\ roles'[n].created = roles[n].created
           /\ rreq[r].in.ids = Absent => roles'[n].ids = roles[n].ids
           /\ rreq[r].in.desc = Absent => roles'[n].desc = roles[n].desc

FreshRoleSaveIsAtomic == [][FreshRoleSaves]_roleVars
-----------------------------------------------------------------------------
(* The abstract specification: one entry for each role *)

RolePhase(q) ==
    IF q.pc = "new" THEN "idle"
    ELSE IF q.pc \in {"load", "save"} THEN "pending"
    ELSE IF q.answer \in {"ok", "failed"} THEN q.answer
    ELSE "declined"

RoleStore == INSTANCE AtMostOnce WITH
    Requests <- RoleRequests,
    Keys <- Names,
    Values <- {Absent} \cup {role \in SkyflowRole : ValidRole(role)},
    store <- roles,
    phase <- [r \in RoleRequests |-> RolePhase(rreq[r])]

\* The roles paths implement AtMostOnce: a request changes one role at most, once,
\* to a role with exactly one ID, in the step that answers it; an error answer
\* means that it has changed none.
RoleIsAtMostOnce == RoleStore!Spec
-----------------------------------------------------------------------------
(* The inductive invariant *)

\* A request that is past its load carries a role under the name it was made
\* for, with one ID, merged from its base, and not created after it was loaded.
CarriesRole(q, time) ==
    /\ q.pc \in {"load", "save"} => q.name \in Names /\ q.in \in RoleInput
    /\ q.pc \in {"new", "load"} => q.role = Absent
    /\ q.pc = "save" =>
          /\ q.role \in SkyflowRole
          /\ q.role.name = q.name
          /\ Len(q.role.ids) = 1
          /\ q.base # Absent => q.role = RoleMerge(q.base, q.in)
          /\ q.role.created <= q.at /\ q.at <= time

RequestsCarryRoles == \A r \in RoleRequests : CarriesRole(rreq[r], now)

RoleInv == RoleTypeOK /\ RequestsCarryRoles /\ RoleWellFormed
=============================================================================
