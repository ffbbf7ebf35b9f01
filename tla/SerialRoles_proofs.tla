-------------------------- MODULE SerialRoles_proofs --------------------------
(***************************************************************************)
(* Proofs about SerialRoles, for every set of requests, names, role IDs    *)
(* and inputs, every bound on the clock, with and without storage faults.  *)
(***************************************************************************)
EXTENDS SerialRoles, RolePath_proofs

-----------------------------------------------------------------------------
(* The inductive invariant *)

\* A request keeps its base while the entry of its role stays or is deleted.
LEMMA BaseStaysStored ==
    ASSUME NEW q, RoleBaseIsStored(q),
           q.pc \in {"load", "save"} => roles'[q.name] \in {roles[q.name], Absent}
    PROVE  RoleBaseIsStored(q)'
BY DEF RoleBaseIsStored

\* The answer to a request, with entries unchanged or gone.
LEMMA RoleAnswerPreservesSerial ==
    ASSUME SerialRoleInv, RoleInv', OneWriterPerRole', NEW r \in RoleRequests, NEW answer,
           RoleAnswer(r, answer), \A n \in Names : roles'[n] \in {roles[n], Absent}
    PROVE  SerialRoleInv'
<1>1. ASSUME NEW q \in RoleRequests
      PROVE  RoleBaseIsStored(rreq[q])'
  <2>1. rreq \in [RoleRequests -> RoleRequest]
      BY DEF SerialRoleInv, RoleInv, RoleTypeOK
  <2>2. CASE q = r
      BY <2>1, <2>2 DEF RoleAnswer, RoleAnswered, NewRoleRequest, RoleBaseIsStored
  <2>3. CASE q # r
    <3>1. rreq'[q] = rreq[q]
        BY <2>1, <2>3 DEF RoleAnswer
    <3>2. rreq[q].pc \in {"load", "save"} => rreq[q].name \in Names
        BY DEF SerialRoleInv, RoleInv, RequestsCarryRoles, CarriesRole
    <3>3. RoleBaseIsStored(rreq[q])
        BY DEF SerialRoleInv
    <3> QED
        BY <3>1, <3>2, <3>3 DEF RoleBaseIsStored
  <2> QED
      BY <2>2, <2>3
<1> QED
    BY <1>1 DEF SerialRoleInv

\* The Put of a request changes the entry of its role, which no other request in
\* flight has to do with.
LEMMA PutPreservesSerial ==
    ASSUME SerialRoleInv, RoleInv', OneWriterPerRole', NEW r \in RoleRequests, NEW answer,
           rreq[r].pc = "save", RoleAnswer(r, answer),
           NEW t \in Nat, roles' = PutRole(rreq[r].role, t)
    PROVE  SerialRoleInv'
<1>1. /\ rreq \in [RoleRequests -> RoleRequest]
      /\ roles \in [Names -> SkyflowRole \cup {Absent}]
      /\ rreq[r].role \in SkyflowRole /\ rreq[r].role.name = rreq[r].name
    BY DEF SerialRoleInv, RoleInv, RoleTypeOK, RequestsCarryRoles, CarriesRole
<1>2. \A n \in Names : n # rreq[r].name => roles'[n] = roles[n]
    BY <1>1, PutRoleFacts
<1>3. ASSUME NEW q \in RoleRequests
      PROVE  RoleBaseIsStored(rreq[q])'
  <2>1. CASE q = r
      BY <1>1, <2>1 DEF RoleAnswer, RoleAnswered, NewRoleRequest, RoleBaseIsStored
  <2>2. CASE q # r
    <3>1. rreq'[q] = rreq[q]
        BY <1>1, <2>2 DEF RoleAnswer
    <3>2. rreq[q].pc \in {"load", "save"} =>
              rreq[q].name \in Names /\ rreq[q].name # rreq[r].name
        BY <2>2 DEF SerialRoleInv, RoleInv, RequestsCarryRoles, CarriesRole,
                    OneWriterPerRole, RoleInFlight
    <3>3. RoleBaseIsStored(rreq[q])
        BY DEF SerialRoleInv
    <3> QED
        BY <1>2, <3>1, <3>2, <3>3 DEF RoleBaseIsStored
  <2> QED
      BY <2>1, <2>2
<1> QED
    BY <1>3 DEF SerialRoleInv

\* What a request loads is what is stored, last updated before it loads.
LEMMA RoleLoadPreservesSerial ==
    ASSUME SerialRoleInv, RoleInv', OneWriterPerRole', NEW r \in RoleRequests, RoleLoad(r)
    PROVE  SerialRoleInv'
<1>1. /\ rreq[r].pc = "load" /\ rreq'[r].pc = "save" /\ rreq'[r].name = rreq[r].name
      /\ rreq'[r].base = RoleBase(r) /\ rreq'[r].at = now
      /\ \A q \in RoleRequests : q # r => rreq'[q] = rreq[q]
      /\ roles' = roles
    BY DEF RoleLoad, SerialRoleInv, RoleInv, RoleTypeOK, RoleRequest
<1>2. rreq[r].name \in Names
    BY <1>1 DEF SerialRoleInv, RoleInv, RequestsCarryRoles, CarriesRole
<1>3. RoleBase(r) = roles[rreq[r].name]
    BY <1>1 DEF SerialRoleInv, RoleBaseIsStored, RoleBase
<1>4. RoleBase(r) # Absent => RoleBase(r).updated <= now
    BY <1>2, <1>3 DEF SerialRoleInv, RoleInv, RoleWellFormed
<1>5. RoleBaseIsStored(rreq[r])'
    BY <1>1, <1>3, <1>4 DEF RoleBaseIsStored
<1>6. ASSUME NEW q \in RoleRequests, q # r
      PROVE  RoleBaseIsStored(rreq[q])'
    BY <1>1, <1>6 DEF SerialRoleInv, RoleBaseIsStored
<1> QED
    BY <1>5, <1>6 DEF SerialRoleInv

\* One case per action.
LEMMA NextPreservesSerialRoles ==
    SerialRoleInv /\ [RoleNext /\ OneWriterPerRole']_roleVars => SerialRoleInv'
<1> SUFFICES ASSUME SerialRoleInv, [RoleNext /\ OneWriterPerRole']_roleVars
             PROVE  SerialRoleInv'
    OBVIOUS
<1>1. RoleInv'
    BY RoleNextPreservesInv DEF SerialRoleInv
<1>2. CASE UNCHANGED roleVars
  <2>1. OneWriterPerRole' /\ \A r \in RoleRequests : RoleBaseIsStored(rreq[r])'
      BY <1>2 DEF SerialRoleInv, roleVars, OneWriterPerRole, RoleInFlight, RoleBaseIsStored
  <2> QED
      BY <1>1, <2>1 DEF SerialRoleInv
<1>3. CASE RoleNext /\ OneWriterPerRole'
  <2> USE <1>1, <1>3
  <2>1. roles \in [Names -> SkyflowRole \cup {Absent}]
      BY DEF SerialRoleInv, RoleInv, RoleTypeOK
  <2>2. ASSUME NEW r \in RoleRequests, RoleReject(r) \/ RoleGetFails(r) \/ RoleList(r)
        PROVE  SerialRoleInv'
      BY <2>2, RoleAnswerPreservesSerial DEF RoleReject, RoleGetFails, RoleList
  <2>3. ASSUME NEW r \in RoleRequests, NEW n \in Names,
               RoleRead(r, n) \/ RoleDelete(r, n) \/ RoleDeleteFails(r, n)
        PROVE  SerialRoleInv'
    <3>1. \E answer : RoleAnswer(r, answer)
        BY <2>3 DEF RoleRead, RoleDelete, RoleDeleteFails
    <3>2. \A m \in Names : roles'[m] \in {roles[m], Absent}
        BY <2>1, <2>3 DEF RoleRead, RoleDelete, RoleDeleteFails, Outcome
    <3> QED
        BY <3>1, <3>2, RoleAnswerPreservesSerial
  <2>4. ASSUME NEW r \in RoleRequests, RoleLoad(r) PROVE SerialRoleInv'
      BY <2>4, RoleLoadPreservesSerial
  <2>5. ASSUME NEW r \in RoleRequests, RoleSave(r) \/ RoleSaveFails(r)
        PROVE  SerialRoleInv'
    <3>1. rreq[r].at .. now \subseteq Nat
        BY RoleAssumption DEF SerialRoleInv, RoleInv, RoleTypeOK, RoleRequest
    <3>2. PICK t \in Nat : roles' \in {PutRole(rreq[r].role, t), roles}
        BY <2>5, <3>1 DEF RoleSave, RoleSaveFails, Outcome
    <3>3. rreq[r].pc = "save" /\ \E answer : RoleAnswer(r, answer)
        BY <2>5 DEF RoleSave, RoleSaveFails
    <3> QED
        BY <3>2, <3>3, PutPreservesSerial, RoleAnswerPreservesSerial
  <2>6. ASSUME NEW r \in RoleRequests, NEW n \in Names, NEW in \in RoleWrites,
               RoleExistenceCheck(r, n, in)
        PROVE  SerialRoleInv'
    <3>1. /\ rreq'[r].pc = "load" /\ rreq'[r].name = n /\ roles' = roles
          /\ rreq'[r].op = IF roles[n] = Absent THEN "create" ELSE "update"
          /\ \A q \in RoleRequests : q # r => rreq'[q] = rreq[q]
        BY <2>6 DEF RoleExistenceCheck, SerialRoleInv, RoleInv, RoleTypeOK, RoleRequest
    <3>2. \A q \in RoleRequests : RoleBaseIsStored(rreq[q])'
        BY <3>1 DEF SerialRoleInv, RoleBaseIsStored
    <3> QED
        BY <3>2 DEF SerialRoleInv
  <2>7. CASE Tick
      BY <2>7 DEF Tick, SerialRoleInv, RoleBaseIsStored
  <2>8. CASE RoleCrash
    <3>1. /\ \A q \in RoleRequests : rreq'[q].pc \in {"new", "done"}
          /\ roles' = roles
        BY <2>8 DEF RoleCrash, RoleInFlight, RoleAnswered, NewRoleRequest
    <3> QED
        BY <3>1 DEF SerialRoleInv, RoleBaseIsStored
  <2> QED
      BY <2>2, <2>3, <2>4, <2>5, <2>6, <2>7, <2>8
      DEF RoleNext, RoleStep, RoleHandler, RoleArrival
<1> QED
    BY <1>2, <1>3

-----------------------------------------------------------------------------
(* No lost update *)

\* What a request puts while its base is stored is the merge into it.
LEMMA PutsSuccessor ==
    ASSUME SerialRoleInv, NEW r \in RoleRequests, rreq[r].pc = "save",
           NEW t \in rreq[r].at .. now, roles' = PutRole(rreq[r].role, t),
           NEW n \in Names, roles[n] # Absent, roles'[n] # roles[n]
    PROVE  /\ n = rreq[r].name /\ t \in roles[n].updated .. now
           /\ roles'[n] = [RoleMerge(roles[n], rreq[r].in) EXCEPT !.updated = t]
<1>1. /\ roles \in [Names -> SkyflowRole \cup {Absent}]
      /\ rreq[r].at \in Nat /\ now \in Nat
      /\ CarriesRole(rreq[r], now) /\ RoleBaseIsStored(rreq[r])
    BY RoleAssumption
    DEF SerialRoleInv, RoleInv, RoleTypeOK, RequestsCarryRoles, RoleRequest
<1>2. rreq[r].role.name = rreq[r].name /\ rreq[r].role \in SkyflowRole
    BY <1>1 DEF CarriesRole
<1>3. n = rreq[r].name
    BY <1>1, <1>2, PutRoleFacts
<1>4. rreq[r].base = roles[n]
    BY <1>1, <1>3 DEF RoleBaseIsStored
<1>5. rreq[r].role = RoleMerge(roles[n], rreq[r].in)
    BY <1>1, <1>4 DEF CarriesRole
<1>6. roles[n].updated <= rreq[r].at /\ roles[n].updated \in Nat
    BY <1>1, <1>4 DEF RoleBaseIsStored, SkyflowRole
<1>7. t \in roles[n].updated .. now
    BY <1>1, <1>6
<1>8. roles'[n] = [rreq[r].role EXCEPT !.updated = t]
    BY <1>1, <1>2, <1>3 DEF PutRole
<1> QED
    BY <1>3, <1>5, <1>7, <1>8

\* Only a save stores a role.
LEMMA RoleStepsBuildOnStored == SerialRoleInv /\ [RoleNext]_roleVars => RoleBuildsOnStored
<1> SUFFICES ASSUME SerialRoleInv, [RoleNext]_roleVars,
                    NEW n \in Names, roles[n] # Absent, roles'[n] \notin {roles[n], Absent}
             PROVE  \E r \in RoleRequests, t \in roles[n].updated .. now :
                        /\ rreq[r].pc = "save" /\ rreq[r].name = n
                        /\ roles'[n] = [RoleMerge(roles[n], rreq[r].in) EXCEPT !.updated = t]
    BY DEF RoleBuildsOnStored
<1>1. ~UNCHANGED roleVars /\ ~RoleCrash /\ ~Tick
    BY DEF roleVars, RoleCrash, Tick
<1>2. PICK r \in RoleRequests : RoleHandler(r) \/ RoleArrival(r)
    BY <1>1 DEF RoleNext, RoleStep
<1>3. roles \in [Names -> SkyflowRole \cup {Absent}]
    BY DEF SerialRoleInv, RoleInv, RoleTypeOK
<1>4. RoleSave(r) \/ RoleSaveFails(r)
    BY <1>2, <1>3 DEF RoleHandler, RoleArrival, RoleReject, RoleLoad, RoleGetFails,
                RoleExistenceCheck, RoleRead, RoleList, RoleDelete, RoleDeleteFails, Outcome
<1>5. PICK t \in rreq[r].at .. now : roles' = PutRole(rreq[r].role, t)
    BY <1>4 DEF RoleSave, RoleSaveFails, Outcome
<1>6. rreq[r].pc = "save"
    BY <1>4 DEF RoleSave, RoleSaveFails
<1> QED
    BY <1>5, <1>6, PutsSuccessor

-----------------------------------------------------------------------------
(* What holds of operators who keep to their rules *)

\* Operators who keep to a rule are operators: what holds of the roles paths holds.
THEOREM OperatorsAreClients == OperatedSpec => RoleSpec
<1>1. OperatedInit => RoleInit
    BY DEF OperatedInit
<1>2. [OperatedNext]_operatedVars => [RoleNext]_roleVars
    BY DEF OperatedNext, operatedVars
<1> QED
    BY <1>1, <1>2, PTL DEF OperatedSpec, RoleSpec

\* The invariant holds in every state that such operators can reach.
THEOREM OperatedInvariance == OperatedSpec => []OperatedInv
<1>1. OperatedInit => OperatedInv
  <2>1. RoleInit => RoleInv
      BY RoleInitInv
  <2>2. RoleInit => /\ OneWriterPerRole
                    /\ \A r \in RoleRequests : RoleBaseIsStored(rreq[r])
      BY DEF RoleInit, OneWriterPerRole, RoleInFlight, RoleBaseIsStored, NewRoleRequest
  <2> QED
      BY <2>1, <2>2 DEF OperatedInit, OperatedInv, SerialRoleInv
<1>2. ASSUME OperatedInv, [OperatedNext]_operatedVars
      PROVE  OperatedInv'
  <2>1. operators' = operators
      BY <1>2 DEF OperatedNext, operatedVars
  <2>2. operators = "serial" => [RoleNext /\ OneWriterPerRole']_roleVars
      BY <1>2 DEF OperatedNext, operatedVars
  <2> QED
      BY <1>2, <2>1, <2>2, NextPreservesSerialRoles DEF OperatedInv
<1> QED
    BY <1>1, <1>2, PTL DEF OperatedSpec

\* If each role is written one at a time, a stored role is replaced only by an update
\* of that very role.
THEOREM RoleUpdatesNeverLost == OperatedSpec => NoRoleUpdateLost
<1>1. OperatedInv /\ [OperatedNext]_operatedVars =>
          [operators = "serial" => RoleBuildsOnStored]_roleVars
  <2> SUFFICES ASSUME OperatedInv, [OperatedNext]_operatedVars, operators = "serial"
               PROVE  RoleBuildsOnStored
      OBVIOUS
  <2>1. SerialRoleInv /\ [RoleNext]_roleVars
      BY DEF OperatedInv, OperatedNext, operatedVars
  <2> QED
      BY <2>1, RoleStepsBuildOnStored
<1> QED
    BY <1>1, OperatedInvariance, PTL DEF OperatedSpec, NoRoleUpdateLost
=============================================================================
