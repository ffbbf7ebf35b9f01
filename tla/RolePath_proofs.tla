-------------------------- MODULE RolePath_proofs --------------------------
(***************************************************************************)
(* Proofs about RolePath, for every set of requests, names, role IDs and   *)
(* inputs, every bound on the clock, with and without storage faults.      *)
(***************************************************************************)
EXTENDS RolePath, TLAPS

-----------------------------------------------------------------------------
(* Facts about the operators *)

\* Merging a request into a role gives a role of the same name and creation time.
LEMMA RoleMergeFacts ==
    ASSUME NEW role \in SkyflowRole, NEW in \in RoleInput
    PROVE  /\ RoleMerge(role, in) \in SkyflowRole
           /\ RoleMerge(role, in).name = role.name
           /\ RoleMerge(role, in).created = role.created
           /\ in.ids = Absent => RoleMerge(role, in).ids = role.ids
           /\ in.ids # Absent => RoleMerge(role, in).ids = in.ids
           /\ in.desc = Absent => RoleMerge(role, in).desc = role.desc
BY DEF RoleMerge, SkyflowRole, RoleInput

\* defaultRole(n) is a role named n, created now, without an ID.
LEMMA DefaultRoleFacts ==
    ASSUME NEW n \in Names, now \in Nat
    PROVE  /\ defaultRole(n) \in SkyflowRole
           /\ defaultRole(n).name = n
           /\ defaultRole(n).created = now
           /\ defaultRole(n).ids = <<>>
BY StorageAssumption DEF defaultRole, SkyflowRole

\* Saving a role changes the entry of its own name only, and the time in it.
LEMMA PutRoleFacts ==
    ASSUME roles \in [Names -> SkyflowRole \cup {Absent}],
           NEW role \in SkyflowRole, NEW t \in Nat
    PROVE  /\ PutRole(role, t) \in [Names -> SkyflowRole \cup {Absent}]
           /\ \A m \in Names : m # role.name => PutRole(role, t)[m] = roles[m]
           /\ PutRole(role, t)[role.name] \in SkyflowRole
           /\ PutRole(role, t)[role.name].name = role.name
           /\ PutRole(role, t)[role.name].ids = role.ids
           /\ PutRole(role, t)[role.name].desc = role.desc
           /\ PutRole(role, t)[role.name].created = role.created
           /\ PutRole(role, t)[role.name].updated = t
<1> DEFINE stamped == [role EXCEPT !.updated = t]
<1>1. /\ stamped \in SkyflowRole /\ stamped.name = role.name /\ stamped.ids = role.ids
      /\ stamped.desc = role.desc /\ stamped.created = role.created /\ stamped.updated = t
    BY DEF SkyflowRole
<1>2. role.name \in Names
    BY DEF SkyflowRole
<1>3. PutRole(role, t) = [roles EXCEPT ![role.name] = stamped]
    BY DEF PutRole
<1> HIDE DEF stamped
<1> QED
    BY <1>1, <1>2, <1>3

\* An answered request is a request, and carries nothing.
LEMMA RoleAnsweredFacts ==
    ASSUME NEW answer \in Answers, NEW time
    PROVE  /\ RoleAnswered(answer) \in RoleRequest
           /\ RoleAnswered(answer).pc = "done"
           /\ CarriesRole(RoleAnswered(answer), time)
BY DEF RoleAnswered, NewRoleRequest, RoleRequest, CarriesRole, Answers
-----------------------------------------------------------------------------
(* The inductive invariant *)

\* No role is stored and nobody carries one yet.
LEMMA RoleInitInv == RoleInit => RoleInv
<1> SUFFICES ASSUME RoleInit PROVE RoleInv
    OBVIOUS
<1>1. RoleTypeOK
    BY RoleAssumption DEF RoleInit, RoleTypeOK, NewRoleRequest, RoleRequest, Answers
<1>2. RequestsCarryRoles
    BY DEF RoleInit, RequestsCarryRoles, CarriesRole, NewRoleRequest
<1>3. RoleWellFormed
    BY DEF RoleInit, RoleWellFormed
<1> QED
    BY <1>1, <1>2, <1>3 DEF RoleInv

\* Answering a request preserves the invariant, with whatever well-formed entries
\* the answer comes with.
LEMMA RoleAnswerPreservesInv ==
    ASSUME RoleInv, NEW r \in RoleRequests, NEW answer \in Answers,
           RoleAnswer(r, answer), UNCHANGED now,
           roles' \in [Names -> SkyflowRole \cup {Absent}],
           RoleWellFormed'
    PROVE  RoleInv'
<1>1. RoleTypeOK'
    BY RoleAnsweredFacts DEF RoleInv, RoleTypeOK, RoleAnswer
<1>2. RequestsCarryRoles'
    BY RoleAnsweredFacts DEF RoleInv, RoleTypeOK, RequestsCarryRoles, RoleAnswer
<1> QED
    BY <1>1, <1>2 DEF RoleInv

\* A request that arrives carries nothing before it loads.
LEMMA RoleExistenceCheckPreservesInv ==
    ASSUME RoleInv, NEW r \in RoleRequests, NEW n \in Names, NEW in \in RoleWrites,
           RoleExistenceCheck(r, n, in)
    PROVE  RoleInv'
<1>1. rreq \in [RoleRequests -> RoleRequest] /\ rreq[r] \in RoleRequest
    BY DEF RoleInv, RoleTypeOK
<1>2. in \in RoleInput /\ CarriesRole(rreq[r], now) /\ rreq[r].pc = "new"
    BY RoleAssumption DEF RoleInv, RequestsCarryRoles, RoleExistenceCheck
<1> DEFINE q == [rreq[r] EXCEPT !.pc = "load", !.name = n, !.in = in,
                    !.op = IF roles[n] = Absent THEN "create" ELSE "update"]
<1>3. rreq' = [rreq EXCEPT ![r] = q] /\ UNCHANGED <<roles, now>>
    BY <1>1 DEF RoleExistenceCheck
<1>4. /\ q \in RoleRequest /\ q.pc = "load" /\ q.name = n /\ q.in = in
      /\ q.role = rreq[r].role
    BY <1>1, <1>2 DEF RoleRequest
<1> HIDE DEF q
<1>5. CarriesRole(q, now)
    BY <1>2, <1>4 DEF CarriesRole
<1>6. RoleTypeOK' /\ RequestsCarryRoles' /\ RoleWellFormed'
    BY <1>1, <1>3, <1>4, <1>5 DEF RoleInv, RoleTypeOK, RequestsCarryRoles, RoleWellFormed
<1> QED
    BY <1>6 DEF RoleInv

\* What a request that passes its load is about to store.
LEMMA RoleLoadCarries ==
    ASSUME RoleInv, NEW r \in RoleRequests, rreq[r].pc = "load"
    PROVE  /\ RoleBase(r) \in SkyflowRole \cup {Absent}
           /\ RoleMerged(r) \in SkyflowRole
           /\ RoleMerged(r).name = rreq[r].name
           /\ RoleMerged(r).created <= now
           /\ RoleBase(r) # Absent =>
                 RoleBase(r) = roles[rreq[r].name] /\ RoleMerged(r) = RoleMerge(RoleBase(r), rreq[r].in)
           /\ rreq[r].in.ids # Absent => RoleMerged(r).ids = rreq[r].in.ids
           /\ rreq[r].in.ids = Absent =>
                 RoleMerged(r).ids = IF RoleBase(r) = Absent THEN <<>> ELSE RoleBase(r).ids
<1> DEFINE n == rreq[r].name
           base == IF RoleBase(r) = Absent THEN defaultRole(n) ELSE RoleBase(r)
<1>1. n \in Names /\ rreq[r].in \in RoleInput /\ now \in Nat
    BY RoleAssumption DEF RoleInv, RoleTypeOK, RequestsCarryRoles, CarriesRole
<1>2. RoleBase(r) \in {Absent, roles[n]} /\ roles[n] \in SkyflowRole \cup {Absent}
    BY <1>1 DEF RoleInv, RoleTypeOK, RoleBase
<1>3. base \in SkyflowRole /\ base.name = n /\ base.created <= now
  <2>1. CASE RoleBase(r) = Absent
      BY <1>1, <2>1, DefaultRoleFacts
  <2>2. CASE RoleBase(r) # Absent
    <3>1. base = roles[n] /\ roles[n] # Absent /\ roles[n] \in SkyflowRole
        BY <1>2, <2>2
    <3>2. /\ roles[n].name = n
          /\ roles[n].created <= roles[n].updated /\ roles[n].updated <= now
        BY <1>1, <3>1 DEF RoleInv, RoleWellFormed
    <3>3. roles[n].created \in Nat /\ roles[n].updated \in Nat
        BY <3>1 DEF SkyflowRole
    <3>4. roles[n].created <= now
        BY <1>1, <3>2, <3>3
    <3> QED
        BY <3>1, <3>2, <3>4
  <2> QED
      BY <2>1, <2>2
<1>4. RoleMerged(r) = RoleMerge(base, rreq[r].in)
    BY DEF RoleMerged
<1>5. RoleBase(r) = Absent => base.ids = <<>>
    BY <1>1, DefaultRoleFacts
<1>6. RoleBase(r) # Absent => base = RoleBase(r)
    OBVIOUS
<1> HIDE DEF base, n
<1>7. /\ RoleMerged(r) \in SkyflowRole /\ RoleMerged(r).name = n
      /\ RoleMerged(r).created <= now
      /\ rreq[r].in.ids # Absent => RoleMerged(r).ids = rreq[r].in.ids
      /\ rreq[r].in.ids = Absent => RoleMerged(r).ids = base.ids
    BY <1>1, <1>3, <1>4, RoleMergeFacts
<1> QED
    BY <1>2, <1>4, <1>5, <1>6, <1>7 DEF n

\* Loading changes one request only, which then carries what RoleLoadCarries says.
LEMMA RoleLoadPreservesInv ==
    ASSUME RoleInv, NEW r \in RoleRequests, RoleLoad(r)
    PROVE  RoleInv'
<1>1. /\ rreq \in [RoleRequests -> RoleRequest] /\ rreq[r] \in RoleRequest
      /\ CarriesRole(rreq[r], now) /\ now \in Nat
    BY RoleAssumption DEF RoleInv, RoleTypeOK, RequestsCarryRoles
<1> DEFINE q == [rreq[r] EXCEPT !.pc = "save", !.role = RoleMerged(r),
                    !.base = RoleBase(r), !.at = now]
<1>2. rreq' = [rreq EXCEPT ![r] = q] /\ UNCHANGED <<roles, now>>
    BY <1>1 DEF RoleLoad
<1>3. /\ rreq[r].pc = "load" /\ Len(RoleMerged(r).ids) = 1
      /\ RoleBase(r) \in SkyflowRole \cup {Absent} /\ RoleMerged(r) \in SkyflowRole
      /\ RoleMerged(r).name = rreq[r].name /\ RoleMerged(r).created <= now
      /\ RoleBase(r) # Absent => RoleMerged(r) = RoleMerge(RoleBase(r), rreq[r].in)
    BY RoleLoadCarries DEF RoleLoad, ValidRole
<1>4. /\ q \in RoleRequest /\ q.pc = "save" /\ q.name = rreq[r].name /\ q.in = rreq[r].in
      /\ q.role = RoleMerged(r) /\ q.base = RoleBase(r) /\ q.at = now
    BY <1>1, <1>3 DEF RoleRequest
<1> HIDE DEF q
<1>5. CarriesRole(q, now)
    BY <1>1, <1>3, <1>4 DEF CarriesRole
<1>6. RoleTypeOK' /\ RequestsCarryRoles' /\ RoleWellFormed'
    BY <1>1, <1>2, <1>4, <1>5 DEF RoleInv, RoleTypeOK, RequestsCarryRoles, RoleWellFormed
<1> QED
    BY <1>6 DEF RoleInv

\* What a Put leaves in storage is well formed: the role it carries has its own
\* name, one ID, and times in order.
LEMMA PutIsWellFormed ==
    ASSUME RoleInv, NEW r \in RoleRequests, rreq[r].pc = "save",
           NEW t \in rreq[r].at .. now,
           roles' = PutRole(rreq[r].role, t), UNCHANGED now
    PROVE  roles' \in [Names -> SkyflowRole \cup {Absent}] /\ RoleWellFormed'
<1> DEFINE role == rreq[r].role
<1>1. /\ role \in SkyflowRole /\ role.name = rreq[r].name /\ role.name \in Names
      /\ Len(role.ids) = 1 /\ role.created <= rreq[r].at /\ role.created \in Nat
    BY DEF RoleInv, RequestsCarryRoles, CarriesRole, SkyflowRole
<1>2. rreq[r].at \in Nat /\ now \in Nat
    BY RoleAssumption DEF RoleInv, RoleTypeOK, RoleRequest
<1>3. t \in Nat /\ role.created <= t /\ t <= now
    BY <1>1, <1>2
<1>4. roles \in [Names -> SkyflowRole \cup {Absent}]
    BY DEF RoleInv, RoleTypeOK
<1>5. roles' = PutRole(role, t)
    OBVIOUS
<1> HIDE DEF role
<1>6. roles' \in [Names -> SkyflowRole \cup {Absent}]
    BY <1>1, <1>3, <1>4, <1>5, PutRoleFacts
<1>7. ASSUME NEW n \in Names, roles'[n] # Absent
      PROVE  /\ roles'[n].name = n
             /\ Len(roles'[n].ids) = 1
             /\ roles'[n].created <= roles'[n].updated
             /\ roles'[n].updated <= now
  <2>1. CASE n = role.name
      BY <1>1, <1>3, <1>4, <1>5, <2>1, PutRoleFacts
  <2>2. CASE n # role.name
      BY <1>1, <1>3, <1>4, <1>5, <1>7, <2>2, PutRoleFacts DEF RoleInv, RoleWellFormed
  <2> QED
      BY <2>1, <2>2
<1> QED
    BY <1>6, <1>7 DEF RoleWellFormed

\* Removing a role leaves the others as they are.
LEMMA DeleteIsWellFormed ==
    ASSUME RoleInv, NEW n \in Names,
           roles' = [roles EXCEPT ![n] = Absent], UNCHANGED now
    PROVE  roles' \in [Names -> SkyflowRole \cup {Absent}] /\ RoleWellFormed'
BY DEF RoleInv, RoleTypeOK, RoleWellFormed

\* Roles that are left alone stay well formed.
LEMMA SameIsWellFormed ==
    ASSUME RoleInv, UNCHANGED <<roles, now>>
    PROVE  roles' \in [Names -> SkyflowRole \cup {Absent}] /\ RoleWellFormed'
BY DEF RoleInv, RoleTypeOK, RoleWellFormed

\* Times that are in the past stay there.
LEMMA TickPreservesInv ==
    ASSUME RoleInv, Tick
    PROVE  RoleInv'
<1>1. now \in Nat /\ now' \in 0 .. MaxTime /\ now <= now' /\ UNCHANGED <<roles, rreq>>
    BY RoleAssumption DEF RoleInv, RoleTypeOK, Tick
<1>2. RoleTypeOK'
    BY <1>1 DEF RoleInv, RoleTypeOK
<1>3. RequestsCarryRoles'
  <2>1. ASSUME NEW r \in RoleRequests
        PROVE  CarriesRole(rreq[r], now')
    <3>1. CarriesRole(rreq[r], now) /\ rreq[r].at \in Nat /\ now' \in Nat
        BY <1>1, RoleAssumption DEF RoleInv, RequestsCarryRoles, RoleTypeOK, RoleRequest
    <3> QED
        BY <1>1, <3>1 DEF CarriesRole
  <2> QED
      BY <1>1, <2>1 DEF RequestsCarryRoles
<1>4. RoleWellFormed'
  <2>1. ASSUME NEW n \in Names, roles[n] # Absent
        PROVE  roles[n].updated <= now'
    <3>1. roles[n].updated \in Nat /\ roles[n].updated <= now /\ now' \in Nat
        BY <1>1, <2>1, RoleAssumption DEF RoleInv, RoleTypeOK, RoleWellFormed, SkyflowRole
    <3> QED
        BY <1>1, <3>1
  <2> QED
      BY <1>1, <2>1 DEF RoleInv, RoleWellFormed
<1> QED
    BY <1>2, <1>3, <1>4 DEF RoleInv

\* A crash answers requests and leaves storage alone.
LEMMA RoleCrashPreservesInv ==
    ASSUME RoleInv, RoleCrash
    PROVE  RoleInv'
<1>1. \A r \in RoleRequests : rreq'[r] \in {rreq[r], RoleAnswered("failed")}
    BY DEF RoleCrash
<1>2. UNCHANGED <<roles, now>>
    BY DEF RoleCrash
<1>3. RoleTypeOK'
    BY <1>2, RoleAnsweredFacts DEF RoleInv, RoleTypeOK, RoleCrash, Answers
<1>4. RequestsCarryRoles'
    BY <1>1, <1>2, RoleAnsweredFacts DEF RoleInv, RequestsCarryRoles, Answers
<1> QED
    BY <1>2, <1>3, <1>4, SameIsWellFormed DEF RoleInv

\* One case per action.
LEMMA RoleNextPreservesInv == RoleInv /\ [RoleNext]_roleVars => RoleInv'
<1> SUFFICES ASSUME RoleInv, [RoleNext]_roleVars
             PROVE  RoleInv'
    OBVIOUS
<1>1. ASSUME NEW r \in RoleRequests, RoleReject(r)
      PROVE  RoleInv'
    BY <1>1, SameIsWellFormed, RoleAnswerPreservesInv DEF RoleReject, Answers
<1>2. ASSUME NEW r \in RoleRequests, RoleLoad(r)
      PROVE  RoleInv'
    BY <1>2, RoleLoadPreservesInv
<1>3. ASSUME NEW r \in RoleRequests, RoleSave(r)
      PROVE  RoleInv'
    BY <1>3, PutIsWellFormed, RoleAnswerPreservesInv DEF RoleSave, Answers
<1>4. ASSUME NEW r \in RoleRequests, RoleSaveFails(r)
      PROVE  RoleInv'
  <2>1. PICK t \in rreq[r].at .. now : roles' \in {PutRole(rreq[r].role, t), roles}
      BY <1>4 DEF RoleSaveFails, Outcome
  <2>2. roles' \in [Names -> SkyflowRole \cup {Absent}] /\ RoleWellFormed'
      BY <1>4, <2>1, PutIsWellFormed, SameIsWellFormed DEF RoleSaveFails
  <2> QED
      BY <1>4, <2>2, RoleAnswerPreservesInv DEF RoleSaveFails, Answers
<1>5. ASSUME NEW r \in RoleRequests, RoleGetFails(r)
      PROVE  RoleInv'
    BY <1>5, SameIsWellFormed, RoleAnswerPreservesInv DEF RoleGetFails, Answers
<1>6. ASSUME NEW r \in RoleRequests, NEW n \in Names, NEW in \in RoleWrites,
             RoleExistenceCheck(r, n, in)
      PROVE  RoleInv'
    BY <1>6, RoleExistenceCheckPreservesInv
<1>7. ASSUME NEW r \in RoleRequests, NEW n \in Names, RoleRead(r, n)
      PROVE  RoleInv'
  <2>1. PICK answer \in Answers : RoleAnswer(r, answer)
    <3>1. CASE roles[n] = Absent
        BY <1>7, <3>1 DEF RoleRead, Answers
    <3>2. CASE roles[n] # Absent
        BY <1>7, <3>2 DEF RoleRead, Answers
    <3> QED
        BY <3>1, <3>2
  <2> QED
      BY <1>7, <2>1, SameIsWellFormed, RoleAnswerPreservesInv DEF RoleRead
<1>8. ASSUME NEW r \in RoleRequests, NEW n \in Names, RoleDelete(r, n)
      PROVE  RoleInv'
    BY <1>8, DeleteIsWellFormed, RoleAnswerPreservesInv DEF RoleDelete, Answers
<1>9. ASSUME NEW r \in RoleRequests, NEW n \in Names, RoleDeleteFails(r, n)
      PROVE  RoleInv'
  <2>1. roles' \in {[roles EXCEPT ![n] = Absent], roles}
      BY <1>9 DEF RoleDeleteFails, Outcome
  <2>2. roles' \in [Names -> SkyflowRole \cup {Absent}] /\ RoleWellFormed'
      BY <1>9, <2>1, DeleteIsWellFormed, SameIsWellFormed DEF RoleDeleteFails
  <2> QED
      BY <1>9, <2>2, RoleAnswerPreservesInv DEF RoleDeleteFails, Answers
<1>10. ASSUME NEW r \in RoleRequests, RoleList(r)
       PROVE  RoleInv'
    BY <1>10, SameIsWellFormed, RoleAnswerPreservesInv DEF RoleList, Answers
<1>11. CASE Tick
    BY <1>11, TickPreservesInv
<1>12. CASE RoleCrash
    BY <1>12, RoleCrashPreservesInv
<1>13. CASE UNCHANGED roleVars
    BY <1>13 DEF RoleInv, roleVars, RoleTypeOK, RequestsCarryRoles, RoleWellFormed
<1> QED
    BY <1>1, <1>2, <1>3, <1>4, <1>5, <1>6, <1>7, <1>8, <1>9, <1>10, <1>11, <1>12, <1>13
    DEF RoleNext, RoleStep, RoleHandler, RoleArrival

\* The invariant holds in every reachable state.
THEOREM RoleInvariance == RoleSpec => []RoleInv
<1>1. RoleInit => RoleInv
    BY RoleInitInv
<1>2. RoleInv /\ [RoleNext]_roleVars => RoleInv'
    BY RoleNextPreservesInv
<1> QED
    BY <1>1, <1>2, PTL DEF RoleSpec

\* Every variable keeps its type.
THEOREM RoleTypeCorrect == RoleSpec => []RoleTypeOK
<1>1. RoleInv => RoleTypeOK
    BY DEF RoleInv
<1> QED
    BY <1>1, RoleInvariance, PTL

\* Every stored role names itself, grants exactly one ID and has its times in order.
THEOREM RolesAlwaysWellFormed == RoleSpec => []RoleWellFormed
<1>1. RoleInv => RoleWellFormed
    BY DEF RoleInv
<1> QED
    BY <1>1, RoleInvariance, PTL
-----------------------------------------------------------------------------
(* The action properties *)

\* A save that nobody has overtaken keeps the creation time and what the request left
\* out.
LEMMA RoleSaveIsFresh ==
    ASSUME RoleInv, NEW r \in RoleRequests, RoleSave(r), NEW n, n = rreq[r].name,
           rreq[r].base = roles[n], roles[n] # Absent
    PROVE  /\ roles'[n].created = roles[n].created
           /\ rreq[r].in.ids = Absent => roles'[n].ids = roles[n].ids
           /\ rreq[r].in.desc = Absent => roles'[n].desc = roles[n].desc
<1> DEFINE role == rreq[r].role
<1>1. /\ rreq[r].in \in RoleInput /\ role \in SkyflowRole /\ role.name = n /\ n \in Names
      /\ role = RoleMerge(roles[n], rreq[r].in)
    BY DEF RoleInv, RequestsCarryRoles, CarriesRole, RoleSave
<1>2. /\ roles \in [Names -> SkyflowRole \cup {Absent}] /\ roles[n] \in SkyflowRole
      /\ rreq[r].at \in Nat /\ now \in Nat
    BY <1>1, RoleAssumption DEF RoleInv, RoleTypeOK, RoleRequest
<1>3. PICK t \in Nat : roles' = PutRole(role, t)
    BY <1>2 DEF RoleSave
<1> HIDE DEF role
<1>4. roles'[n].created = role.created /\ roles'[n].ids = role.ids /\ roles'[n].desc = role.desc
    BY <1>1, <1>2, <1>3, PutRoleFacts
<1>5. /\ role.created = roles[n].created
      /\ rreq[r].in.ids = Absent => role.ids = roles[n].ids
      /\ rreq[r].in.desc = Absent => role.desc = roles[n].desc
    BY <1>1, <1>2, RoleMergeFacts
<1> QED
    BY <1>4, <1>5

\* RoleSave is the only step that answers a save with a success, so RoleSaveIsFresh does.
LEMMA RoleStepsSaveFresh == RoleInv /\ [RoleNext]_roleVars => FreshRoleSaves
<1> SUFFICES ASSUME RoleInv, [RoleNext]_roleVars, NEW r \in RoleRequests,
                    rreq[r].pc = "save", rreq'[r].pc = "done", rreq'[r].answer = "ok"
             PROVE  RoleSave(r)
    BY RoleSaveIsFresh DEF FreshRoleSaves
<1>1. rreq \in [RoleRequests -> RoleRequest]
    BY DEF RoleInv, RoleTypeOK
<1>2. ASSUME NEW q \in RoleRequests, RoleHandler(q) \/ RoleArrival(q)
      PROVE  RoleSave(r)
  <2>1. q = r
      BY <1>1, <1>2 DEF RoleHandler, RoleArrival, RoleAnswer, RoleReject, RoleLoad, RoleSave,
                RoleSaveFails, RoleGetFails, RoleExistenceCheck, RoleRead, RoleList, RoleDelete,
                RoleDeleteFails
  <2> QED
      BY <1>1, <1>2, <2>1 DEF RoleHandler, RoleArrival, RoleAnswer, RoleReject, RoleLoad,
                RoleSaveFails, RoleGetFails, RoleExistenceCheck, RoleRead, RoleList, RoleDelete,
                RoleDeleteFails, RoleAnswered, NewRoleRequest
<1>3. CASE RoleCrash
    BY <1>1, <1>3 DEF RoleCrash, RoleInFlight, RoleAnswered, NewRoleRequest
<1>4. CASE Tick \/ UNCHANGED roleVars
    BY <1>4 DEF Tick, roleVars
<1> QED
    BY <1>2, <1>3, <1>4 DEF RoleNext, RoleStep

\* A save whose base is still stored is an atomic update of it.
THEOREM FreshRoleSavesAreAtomic == RoleSpec => FreshRoleSaveIsAtomic
<1>1. RoleInv /\ [RoleNext]_roleVars => [FreshRoleSaves]_roleVars
    BY RoleStepsSaveFresh
<1> QED
    BY <1>1, RoleInvariance, PTL DEF RoleSpec, FreshRoleSaveIsAtomic

\* What a role grants, and what a request in flight to it holds, are live.
LEMMA LiveGrantFacts ==
    ASSUME NEW n
    PROVE  /\ roles[n] # Absent => roles[n].ids \in LiveGrants(n)
           /\ \A q \in RoleInFlight : rreq[q].name = n => IDsHeldBy(q) \subseteq LiveGrants(n)
BY DEF LiveGrants

\* A step of request r lets grants live or go, if what the roles hold and what r holds
\* afterwards was live before.
LEMMA GrantStep ==
    ASSUME NEW r \in RoleRequests,
           \A q \in RoleRequests : q # r => rreq'[q] = rreq[q],
           NEW n \in Names,
           roles'[n] # Absent => roles'[n].ids \in LiveGrants(n),
           rreq'[r].pc \notin {"new", "done"} /\ rreq'[r].name = n =>
               IDsHeldBy(r)' \subseteq LiveGrants(n)
    PROVE  LiveGrants(n)' \subseteq LiveGrants(n)
<1>1. ASSUME NEW q \in RoleRequests, rreq'[q].pc \notin {"new", "done"}, rreq'[q].name = n
      PROVE  IDsHeldBy(q)' \subseteq LiveGrants(n)
  <2>1. CASE q = r
      BY <1>1, <2>1
  <2>2. CASE q # r
      BY <1>1, <2>2, LiveGrantFacts DEF RoleInFlight, IDsHeldBy
  <2> QED
      BY <2>1, <2>2
<1>2. ASSUME NEW ids \in LiveGrants(n)'
      PROVE  ids \in LiveGrants(n)
  <2>1. CASE roles'[n] # Absent /\ ids = roles'[n].ids
      BY <2>1
  <2>2. CASE \E q \in RoleRequests : /\ rreq'[q].pc \notin {"new", "done"}
                                     /\ rreq'[q].name = n /\ ids \in IDsHeldBy(q)'
      BY <1>1, <2>2
  <2> QED
      BY <1>2, <2>1, <2>2 DEF LiveGrants, RoleInFlight
<1> QED
    BY <1>2

\* A handler stores and holds nothing but what was live.
LEMMA HandlerKeepsGrants ==
    ASSUME RoleInv, NEW r \in RoleRequests, RoleHandler(r), NEW n \in Names
    PROVE  LiveGrants(n)' \subseteq LiveGrants(n)
<1>1. /\ rreq \in [RoleRequests -> RoleRequest] /\ CarriesRole(rreq[r], now)
      /\ roles \in [Names -> SkyflowRole \cup {Absent}]
    BY DEF RoleInv, RoleTypeOK, RequestsCarryRoles
<1>2. ASSUME NEW answer, RoleAnswer(r, answer),
             roles'[n] # Absent => roles'[n].ids \in LiveGrants(n)
      PROVE  LiveGrants(n)' \subseteq LiveGrants(n)
    BY <1>1, <1>2, GrantStep DEF RoleAnswer, RoleAnswered, NewRoleRequest
<1>3. CASE RoleReject(r) \/ RoleGetFails(r)
    BY <1>2, <1>3, LiveGrantFacts DEF RoleReject, RoleGetFails
<1>4. CASE RoleLoad(r)
  <2> DEFINE m == rreq[r].name
  <2>1. rreq[r].pc = "load" /\ Len(RoleMerged(r).ids) = 1 /\ UNCHANGED roles
      BY <1>4 DEF RoleLoad, ValidRole
  <2>2. r \in RoleInFlight /\ IDsHeldBy(r) = {rreq[r].in.ids} \ {Absent}
      BY <1>1, <2>1 DEF RoleInFlight, CarriesRole, IDsHeldBy
  <2>3. RoleMerged(r) \in SkyflowRole /\ RoleMerged(r).ids \in LiveGrants(m)
    <3>1. CASE rreq[r].in.ids # Absent
        BY <2>1, <2>2, <3>1, RoleLoadCarries, LiveGrantFacts
    <3>2. CASE rreq[r].in.ids = Absent
      <4>1. RoleBase(r) # Absent
          BY <2>1, <3>2, RoleLoadCarries
      <4> QED
          BY <2>1, <3>2, <4>1, RoleLoadCarries, LiveGrantFacts
    <3> QED
        BY <3>1, <3>2
  <2>4. /\ rreq'[r].role = RoleMerged(r) /\ rreq'[r].name = m
        /\ \A q \in RoleRequests : q # r => rreq'[q] = rreq[q]
      BY <1>1, <1>4 DEF RoleLoad, RoleRequest
  <2>5. IDsHeldBy(r)' = {RoleMerged(r).ids}
      BY <2>3, <2>4, RoleAssumption DEF IDsHeldBy
  <2> HIDE DEF m
  <2> QED
      BY <2>1, <2>3, <2>4, <2>5, GrantStep, LiveGrantFacts
<1>5. ASSUME rreq[r].pc = "save", NEW t, roles' = PutRole(rreq[r].role, t)
      PROVE  roles'[n] # Absent => roles'[n].ids \in LiveGrants(n)
  <2>1. /\ rreq[r].role \in SkyflowRole /\ rreq[r].role # Absent
        /\ rreq[r].role.name = rreq[r].name /\ rreq[r].name \in Names
      BY <1>1, <1>5, RoleAssumption DEF CarriesRole
  <2>2. rreq[r].role.ids \in LiveGrants(rreq[r].name)
      BY <1>5, <2>1, LiveGrantFacts DEF RoleInFlight, IDsHeldBy
  <2>3. CASE n = rreq[r].name
    <3>1. roles'[n] = [rreq[r].role EXCEPT !.updated = t]
        BY <1>1, <1>5, <2>1, <2>3 DEF PutRole
    <3>2. roles'[n].ids = rreq[r].role.ids
        BY <2>1, <3>1 DEF SkyflowRole
    <3> QED
        BY <2>2, <2>3, <3>2
  <2>4. CASE n # rreq[r].name
      BY <1>1, <1>5, <2>1, <2>4, LiveGrantFacts DEF PutRole
  <2> QED
      BY <2>3, <2>4
<1>6. CASE RoleSave(r)
    BY <1>2, <1>5, <1>6 DEF RoleSave
<1>7. CASE RoleSaveFails(r)
  <2>1. CASE UNCHANGED roles
      BY <1>2, <1>7, <2>1, LiveGrantFacts DEF RoleSaveFails
  <2>2. CASE ~UNCHANGED roles
      BY <1>2, <1>5, <1>7, <2>2 DEF RoleSaveFails, Outcome
  <2> QED
      BY <2>1, <2>2
<1> QED
    BY <1>3, <1>4, <1>6, <1>7 DEF RoleHandler

\* Only an existence check that lets a write in adds to what a role may grant.
LEMMA RoleStepsGrantByRequests == RoleInv /\ [RoleNext]_roleVars => GrantedByRequests
<1> SUFFICES ASSUME RoleInv, [RoleNext]_roleVars, NEW n \in Names,
                    NEW ids \in LiveGrants(n)' \ LiveGrants(n)
             PROVE  \E r \in RoleRequests : /\ rreq[r].pc = "new" /\ rreq'[r].pc = "load"
                                            /\ rreq'[r].name = n /\ rreq'[r].in.ids = ids
    BY DEF GrantedByRequests
<1>1. /\ rreq \in [RoleRequests -> RoleRequest]
      /\ roles \in [Names -> SkyflowRole \cup {Absent}]
    BY DEF RoleInv, RoleTypeOK
<1>2. ASSUME NEW r \in RoleRequests, RoleHandler(r)
      PROVE  FALSE
    BY <1>2, HandlerKeepsGrants
<1>3. ASSUME NEW r \in RoleRequests, NEW m \in Names, NEW in \in RoleWrites,
             RoleExistenceCheck(r, m, in)
      PROVE  /\ rreq[r].pc = "new" /\ rreq'[r].pc = "load"
             /\ rreq'[r].name = n /\ rreq'[r].in.ids = ids
  <2>1. /\ rreq[r].pc = "new" /\ rreq'[r].pc = "load" /\ rreq'[r].name = m /\ rreq'[r].in = in
        /\ rreq'[r].role = rreq[r].role /\ roles' = roles
        /\ \A q \in RoleRequests : q # r => rreq'[q] = rreq[q]
      BY <1>1, <1>3 DEF RoleExistenceCheck, RoleRequest
  <2>2. rreq[r].role = Absent
      BY <2>1 DEF RoleInv, RequestsCarryRoles, CarriesRole
  <2>3. IDsHeldBy(r)' = {in.ids} \ {Absent}
      BY <2>1, <2>2 DEF IDsHeldBy
  <2>4. ~(IDsHeldBy(r)' \subseteq LiveGrants(n)) /\ m = n
      BY <2>1, GrantStep, LiveGrantFacts
  <2>5. ids \in IDsHeldBy(r)'
    <3>1. ~(roles'[n] # Absent /\ ids = roles'[n].ids)
        BY <2>1, LiveGrantFacts
    <3>2. PICK q \in RoleRequests : /\ rreq'[q].pc \notin {"new", "done"}
                                    /\ rreq'[q].name = n /\ ids \in IDsHeldBy(q)'
        BY <3>1 DEF LiveGrants, RoleInFlight
    <3>3. q = r
        BY <2>1, <3>2, LiveGrantFacts DEF RoleInFlight, IDsHeldBy
    <3> QED
        BY <3>2, <3>3
  <2> QED
      BY <2>1, <2>3, <2>4, <2>5
<1>4. ASSUME NEW r \in RoleRequests, NEW answer, RoleAnswer(r, answer),
             roles'[n] \in {roles[n], Absent}
      PROVE  FALSE
    BY <1>1, <1>4, GrantStep, LiveGrantFacts DEF RoleAnswer, RoleAnswered, NewRoleRequest
<1>5. ASSUME NEW r \in RoleRequests, NEW m \in Names,
             RoleRead(r, m) \/ RoleDelete(r, m) \/ RoleDeleteFails(r, m)
      PROVE  FALSE
    BY <1>1, <1>4, <1>5 DEF RoleRead, RoleDelete, RoleDeleteFails, Outcome
<1>6. ASSUME NEW r \in RoleRequests, RoleList(r)
      PROVE  FALSE
    BY <1>4, <1>6 DEF RoleList
<1>7. CASE RoleCrash
  <2>1. RoleInFlight' = {} /\ roles' = roles
      BY <1>1, <1>7 DEF RoleCrash, RoleInFlight, RoleAnswered, NewRoleRequest
  <2>2. LiveGrants(n)' \subseteq LiveGrants(n)
      BY <2>1 DEF LiveGrants
  <2> QED
      BY <2>2
<1>8. CASE Tick \/ UNCHANGED roleVars
  <2>1. LiveGrants(n)' = LiveGrants(n)
      BY <1>8 DEF Tick, roleVars, LiveGrants, RoleInFlight, IDsHeldBy
  <2> QED
      BY <2>1
<1> QED
    BY <1>2, <1>3, <1>5, <1>6, <1>7, <1>8 DEF RoleNext, RoleStep, RoleArrival

\* A role is granted an ID that it did not have, and that no request in flight to it
\* held, only by a new request to that very role that names the ID.
THEOREM GrantsComeFromRequests == RoleSpec => GrantsOnlyFromRequests
<1>1. RoleInv /\ [RoleNext]_roleVars => [GrantedByRequests]_roleVars
    BY RoleStepsGrantByRequests
<1> QED
    BY <1>1, RoleInvariance, PTL DEF RoleSpec, GrantsOnlyFromRequests
-----------------------------------------------------------------------------
(* The roles paths implement AtMostOnce *)

RoleValues == {Absent} \cup {role \in SkyflowRole : ValidRole(role)}

RolePhases == [r \in RoleRequests |-> RolePhase(rreq[r])]

\* A step of one request changes its phase only.
LEMMA RoleOnePhaseChanges ==
    ASSUME RoleInv, NEW r \in RoleRequests, NEW q, rreq' = [rreq EXCEPT ![r] = q]
    PROVE  RolePhases' = [RolePhases EXCEPT ![r] = RolePhase(q)]
BY DEF RoleInv, RoleTypeOK, RolePhases

\* An answered request is in the phase that its answer names.
LEMMA RoleAnswerPhase ==
    ASSUME NEW answer
    PROVE  RolePhase(RoleAnswered(answer)) =
               IF answer \in {"ok", "failed"} THEN answer ELSE "declined"
BY DEF RolePhase, RoleAnswered, NewRoleRequest

\* Every entry holds a role with one ID, or nothing.
LEMMA RolesAreValues == RoleInv => roles \in [Names -> RoleValues]
BY DEF RoleInv, RoleTypeOK, RoleWellFormed, RoleValues, ValidRole

\* A Put or a Delete changes one entry.
LEMMA OneRoleChanges ==
    ASSUME RoleInv, RoleInv', NEW n \in Names, NEW value,
           roles' = [roles EXCEPT ![n] = value]
    PROVE  RoleStore!ChangeOne
<1>1. roles' = [roles EXCEPT ![n] = roles'[n]]
    BY DEF RoleInv, RoleTypeOK
<1>2. roles'[n] \in RoleValues
    BY RolesAreValues DEF RoleInv, RoleTypeOK, RoleWellFormed, RoleValues, ValidRole
<1> QED
    BY <1>1, <1>2 DEF RoleStore!ChangeOne, RoleValues

\* The initial states map to initial states.
LEMMA RoleStoreInit == RoleInit => RoleStore!Init
<1> SUFFICES ASSUME RoleInit PROVE RoleStore!Init
    OBVIOUS
<1>1. roles \in [Names -> RoleValues]
    BY RoleInitInv, RolesAreValues
<1>2. RolePhases = [r \in RoleRequests |-> "idle"]
    BY DEF RoleInit, RolePhases, RolePhase, NewRoleRequest
<1> QED
    BY <1>1, <1>2 DEF RoleStore!Init, RoleValues, RolePhases

\* An answer that leaves the roles alone.
LEMMA RoleAnswerOnly ==
    ASSUME RoleInv, NEW r \in RoleRequests, NEW answer \in Answers, RoleAnswer(r, answer),
           UNCHANGED roles,
           \/ answer # "ok" /\ rreq[r].pc \in {"new", "load", "save"}
           \/ answer = "ok" /\ rreq[r].pc = "new"
    PROVE  RoleStore!Next
<1>1. RolePhases' = [RolePhases EXCEPT ![r] =
          IF answer \in {"ok", "failed"} THEN answer ELSE "declined"]
    BY RoleOnePhaseChanges, RoleAnswerPhase DEF RoleAnswer
<1>2. /\ RolePhases[r] \in {"idle", "pending"}
      /\ answer = "ok" => RolePhases[r] = "idle"
    BY DEF RolePhases, RolePhase
<1>3. CASE answer = "ok"
    BY <1>1, <1>2, <1>3 DEF RoleStore!Next, RoleStore!Complete, RoleStore!Pass, RolePhases
<1>4. CASE answer = "failed"
    BY <1>1, <1>2, <1>4 DEF RoleStore!Next, RoleStore!Fail, RoleStore!Pass, RolePhases
<1>5. CASE answer \notin {"ok", "failed"}
    BY <1>1, <1>2, <1>5 DEF RoleStore!Next, RoleStore!Decline, RoleStore!Pass, RolePhases
<1> QED
    BY <1>3, <1>4, <1>5

\* An answer that comes with a changed role.
LEMMA RoleAnswerWithChange ==
    ASSUME RoleInv, NEW r \in RoleRequests, NEW answer \in {"ok", "failed"},
           RoleAnswer(r, answer), RoleStore!ChangeOne, rreq[r].pc \in {"new", "load", "save"}
    PROVE  RoleStore!Next
<1>1. RolePhases' = [RolePhases EXCEPT ![r] = answer]
    BY RoleOnePhaseChanges, RoleAnswerPhase DEF RoleAnswer
<1>2. RolePhases[r] \in {"idle", "pending"}
    BY DEF RolePhases, RolePhase
<1>3. CASE answer = "ok"
    BY <1>1, <1>2, <1>3 DEF RoleStore!Next, RoleStore!Complete, RoleStore!Pass, RolePhases
<1>4. CASE answer = "failed"
    BY <1>1, <1>2, <1>4 DEF RoleStore!Next, RoleStore!Fail, RoleStore!Pass, RolePhases
<1> QED
    BY <1>3, <1>4

\* A Put of the role that a request carries.
LEMMA PutChangesOne ==
    ASSUME RoleInv, RoleInv', NEW r \in RoleRequests, rreq[r].pc = "save",
           NEW t, roles' = PutRole(rreq[r].role, t)
    PROVE  RoleStore!ChangeOne
<1>1. rreq[r].role.name \in Names
    BY DEF RoleInv, RequestsCarryRoles, CarriesRole
<1> QED
    BY <1>1, OneRoleChanges DEF PutRole

\* Every step of RolePath is a step of AtMostOnce, or changes neither storage nor a phase.
LEMMA RoleStepIsStoreStep ==
    ASSUME RoleInv, RoleInv', [RoleNext]_roleVars
    PROVE  [RoleStore!Next]_(RoleStore!storeVars)
<1>1. ASSUME NEW r \in RoleRequests, RoleReject(r)
      PROVE  RoleStore!Next
    BY <1>1, RoleAnswerOnly DEF RoleReject, Answers
<1>2. ASSUME NEW r \in RoleRequests, RoleLoad(r)
      PROVE  UNCHANGED <<roles, RolePhases>>
  <2> DEFINE q == [rreq[r] EXCEPT !.pc = "save", !.role = RoleMerged(r),
                      !.base = RoleBase(r), !.at = now]
  <2>1. rreq' = [rreq EXCEPT ![r] = q] /\ rreq[r].pc = "load" /\ q.pc = "save"
      BY <1>2 DEF RoleLoad, RoleInv, RoleTypeOK, RoleRequest
  <2> HIDE DEF q
  <2>2. RolePhases[r] = "pending" /\ RolePhase(q) = "pending"
      BY <2>1 DEF RolePhases, RolePhase
  <2>3. RolePhases' = RolePhases
      BY <2>1, <2>2, RoleOnePhaseChanges DEF RolePhases
  <2> QED
      BY <1>2, <2>3 DEF RoleLoad
<1>3. ASSUME NEW r \in RoleRequests, RoleSave(r)
      PROVE  RoleStore!Next
    BY <1>3, PutChangesOne, RoleAnswerWithChange DEF RoleSave
<1>4. ASSUME NEW r \in RoleRequests, RoleSaveFails(r)
      PROVE  RoleStore!Next
  <2>1. CASE UNCHANGED roles
      BY <1>4, <2>1, RoleAnswerOnly DEF RoleSaveFails, Answers
  <2>2. CASE ~UNCHANGED roles
      BY <1>4, <2>2, PutChangesOne, RoleAnswerWithChange DEF RoleSaveFails, Outcome
  <2> QED
      BY <2>1, <2>2
<1>5. ASSUME NEW r \in RoleRequests, RoleGetFails(r)
      PROVE  RoleStore!Next
    BY <1>5, RoleAnswerOnly DEF RoleGetFails, Answers
<1>6. ASSUME NEW r \in RoleRequests, NEW n \in Names, NEW in \in RoleWrites,
             RoleExistenceCheck(r, n, in)
      PROVE  RoleStore!Next
  <2> DEFINE q == [rreq[r] EXCEPT !.pc = "load", !.name = n, !.in = in,
                      !.op = IF roles[n] = Absent THEN "create" ELSE "update"]
  <2>1. rreq' = [rreq EXCEPT ![r] = q] /\ rreq[r].pc = "new" /\ q.pc = "load"
      BY <1>6 DEF RoleExistenceCheck, RoleInv, RoleTypeOK, RoleRequest
  <2> HIDE DEF q
  <2>2. RolePhases[r] = "idle" /\ RolePhase(q) = "pending"
      BY <2>1 DEF RolePhases, RolePhase
  <2>3. RolePhases' = [RolePhases EXCEPT ![r] = "pending"]
      BY <2>1, <2>2, RoleOnePhaseChanges
  <2> QED
      BY <1>6, <2>2, <2>3
      DEF RoleExistenceCheck, RoleStore!Next, RoleStore!Receive, RoleStore!Pass, RolePhases
<1>7. ASSUME NEW r \in RoleRequests, NEW n \in Names, RoleRead(r, n)
      PROVE  RoleStore!Next
    BY <1>7, RoleAnswerOnly DEF RoleRead, Answers
<1>8. ASSUME NEW r \in RoleRequests, NEW n \in Names, RoleDelete(r, n)
      PROVE  RoleStore!Next
    BY <1>8, OneRoleChanges, RoleAnswerWithChange DEF RoleDelete
<1>9. ASSUME NEW r \in RoleRequests, NEW n \in Names, RoleDeleteFails(r, n)
      PROVE  RoleStore!Next
  <2>1. CASE UNCHANGED roles
      BY <1>9, <2>1, RoleAnswerOnly DEF RoleDeleteFails, Answers
  <2>2. CASE ~UNCHANGED roles
      BY <1>9, <2>2, OneRoleChanges, RoleAnswerWithChange DEF RoleDeleteFails, Outcome
  <2> QED
      BY <2>1, <2>2
<1>10. ASSUME NEW r \in RoleRequests, RoleList(r)
       PROVE  RoleStore!Next
    BY <1>10, RoleAnswerOnly DEF RoleList, Answers
<1>11. CASE Tick
    BY <1>11 DEF Tick, RoleStore!storeVars
<1>12. CASE RoleCrash
  <2>1. \A r \in RoleRequests : RolePhase(rreq'[r]) =
            IF RolePhases[r] \in {"pending", "applied"} THEN "failed" ELSE RolePhases[r]
    <3>1. ASSUME NEW r \in RoleRequests
          PROVE  rreq[r].pc \in {"new", "load", "save", "done"}
        BY DEF RoleInv, RoleTypeOK, RoleRequest
    <3>2. ASSUME NEW r \in RoleRequests
          PROVE  RolePhases[r] = "pending" <=> r \in RoleInFlight
        BY <3>1 DEF RolePhases, RolePhase, RoleInFlight
    <3>3. \A r \in RoleRequests : RolePhases[r] # "applied"
        BY DEF RolePhases, RolePhase
    <3> QED
        BY <1>12, <3>2, <3>3, RoleAnswerPhase DEF RoleCrash, RolePhases
  <2>2. RolePhases' = [r \in RoleRequests |->
            IF RolePhases[r] \in {"pending", "applied"} THEN "failed" ELSE RolePhases[r]]
      BY <2>1 DEF RolePhases
  <2> QED
      BY <1>12, <2>2 DEF RoleCrash, RoleStore!Next, RoleStore!Lose, RolePhases
<1>13. CASE UNCHANGED roleVars
    BY <1>13 DEF roleVars, RoleStore!storeVars
<1> QED
    BY <1>1, <1>2, <1>3, <1>4, <1>5, <1>6, <1>7, <1>8, <1>9, <1>10, <1>11, <1>12, <1>13
    DEF RoleNext, RoleStep, RoleHandler, RoleArrival, RoleStore!storeVars, RolePhases

\* The roles paths implement AtMostOnce.
THEOREM RolesAreAtMostOnce == RoleSpec => RoleIsAtMostOnce
<1>1. RoleInit => RoleStore!Init
    BY RoleStoreInit
<1>2. RoleInv /\ RoleInv' /\ [RoleNext]_roleVars => [RoleStore!Next]_(RoleStore!storeVars)
    BY RoleStepIsStoreStep
<1> QED
    BY <1>1, <1>2, RoleInvariance, PTL DEF RoleSpec, RoleIsAtMostOnce, RoleStore!Spec
=============================================================================
