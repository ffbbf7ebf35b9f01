----------------------------- MODULE SerialRoles -----------------------------
(***************************************************************************)
(* The roles paths and their operators, who may keep to writing each role  *)
(* one at a time.  Writes to different roles still overlap; reads, lists   *)
(* and deletes come at any moment, a delete in the middle of a write to    *)
(* that role included; storage and the process may fail and time passes    *)
(* between two steps.                                                      *)
(***************************************************************************)
EXTENDS RolePath

\* What the operators keep to, for ever: "any" is nothing, "serial" to write each
\* role one at a time.
VARIABLE operators

operatedVars == <<roleVars, operators>>

\* No two writes to one role are in flight.
OneWriterPerRole == \A r, s \in RoleInFlight : rreq[r].name = rreq[s].name => r = s

OperatedInit == RoleInit /\ operators \in {"any", "serial"}

OperatedNext ==
    /\ RoleNext /\ UNCHANGED operators
    /\ operators = "serial" => OneWriterPerRole'

OperatedSpec == OperatedInit /\ [][OperatedNext]_operatedVars

\* A stored role is replaced only by the merge of one request to that role into that
\* very role, so that it keeps its creation time, and its time of update never goes
\* back.  (A write during which its role is deleted stores the merge into the one that
\* it had loaded.)
RoleBuildsOnStored ==
    \A n \in Names : roles[n] # Absent /\ roles'[n] \notin {roles[n], Absent} =>
        \E r \in RoleRequests, t \in roles[n].updated .. now :
            /\ rreq[r].pc = "save" /\ rreq[r].name = n
            /\ roles'[n] = [RoleMerge(roles[n], rreq[r].in) EXCEPT !.updated = t]

\* If each role is written one at a time, pathRoleWrite loses no update of it.
NoRoleUpdateLost == [][operators = "serial" => RoleBuildsOnStored]_roleVars

\* The inductive invariant: the base of a write in flight is still stored, or has
\* been deleted, and was updated no later than it was loaded.
RoleBaseIsStored(q) ==
    /\ q.pc = "load" /\ q.op # "update" => roles[q.name] = Absent
    /\ q.pc = "save" => roles[q.name] \in {q.base, Absent}
    /\ q.pc = "save" /\ q.base # Absent => q.base.updated <= q.at

SerialRoleInv ==
    /\ RoleInv
    /\ OneWriterPerRole
    /\ \A r \in RoleRequests : RoleBaseIsStored(rreq[r])

OperatedInv == operators = "serial" => SerialRoleInv
=============================================================================
