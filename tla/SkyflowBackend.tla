--------------------------- MODULE SkyflowBackend ---------------------------
(***************************************************************************)
(* The secrets engine of one mount: the config, roles, creds and health    *)
(* paths that backend/backend.go registers, serving requests at the same   *)
(* time over one storage view.  The backend caches nothing (invalidate     *)
(* only logs), so a crash or a plugin reload loses the handlers in flight  *)
(* and nothing else.                                                       *)
(***************************************************************************)
EXTENDS TokenPath, HealthPath

backendVars == <<config, history, creq, accepted, waived, reported,
                 roles, now, rreq, treq, hreq>>

\* The credentials that config writes bring in a step.
ArrivingCredentials ==
    UNION {Supplied(creq'[r].in) : r \in
              {q \in ConfigRequests : creq[q].pc = "new" /\ creq'[q].pc = "load"}}

BackendInit == ConfigInit /\ RoleInit /\ TokenInit /\ HealthInit

ConfigPathStep ==
    /\ ConfigStep
    /\ treq' = [t \in TokenRequests |->
                   [treq[t] EXCEPT !.dead = @ \ ArrivingCredentials]]
    /\ UNCHANGED roleVars /\ UNCHANGED hreq

RolePathStep == RoleStep /\ UNCHANGED configVars /\ UNCHANGED <<treq, hreq>>

TokenPathStep ==
    TokenStep /\ UNCHANGED configVars /\ UNCHANGED roleVars /\ UNCHANGED hreq

HealthPathStep ==
    HealthStep /\ UNCHANGED configVars /\ UNCHANGED roleVars /\ UNCHANGED treq

\* The plugin process dies, or Vault reloads the plugin.
Crash == ConfigCrash /\ RoleCrash /\ TokenCrash /\ UNCHANGED hreq

BackendNext ==
    ConfigPathStep \/ RolePathStep \/ TokenPathStep \/ HealthPathStep \/ Crash

BackendSpec == BackendInit /\ [][BackendNext]_backendVars
-----------------------------------------------------------------------------
(* Fairness.  A goroutine that can run is run, and storage calls return (with
   an error, perhaps: the error ends the request).  The Skyflow SDK may never
   reply, and nobody need make a request. *)

ConfigLocal(r) == ConfigReject(r) \/ ConfigLoad(r) \/ ConfigSave(r) \/ ConfigSaveHistory(r)

RoleLocal(r) == RoleReject(r) \/ RoleLoad(r) \/ RoleSave(r)

HandlersRun ==
    /\ \A r \in ConfigRequests :
          WF_backendVars(ConfigLocal(r) /\ UNCHANGED roleVars /\ UNCHANGED <<treq, hreq>>)
    /\ \A r \in RoleRequests :
          WF_backendVars(RoleLocal(r) /\ UNCHANGED configVars /\ UNCHANGED <<treq, hreq>>)
    /\ \A t \in TokenRequests :
          WF_backendVars(TokenLocal(t) /\ UNCHANGED configVars /\ UNCHANGED roleVars
                           /\ UNCHANGED hreq)

FairBackendSpec == BackendSpec /\ HandlersRun

\* The Skyflow SDK replies to every call.
SkyflowReplies ==
    /\ \A r \in ConfigRequests :
          WF_backendVars((CredentialsAccepted(r) \/ CredentialsRefused(r))
                           /\ UNCHANGED roleVars /\ UNCHANGED <<treq, hreq>>)
    /\ \A t \in TokenRequests :
          WF_backendVars(TokenReply(t) /\ UNCHANGED configVars /\ UNCHANGED roleVars
                           /\ UNCHANGED hreq)

Waiting(pc) == pc \notin {"new", "done"}

\* A Skyflow call that hangs holds up its own request only: every other request
\* in flight, on any path, is answered or reaches a Skyflow call of its own.
HungSkyflowBlocksNoOne ==
    /\ \A r \in ConfigRequests :
          Waiting(creq[r].pc) ~> creq[r].pc \in {"validate", "done"}
    /\ \A r \in RoleRequests : Waiting(rreq[r].pc) ~> rreq[r].pc = "done"
    /\ \A t \in TokenRequests : Waiting(treq[t].pc) ~> treq[t].pc \in {"sdk", "done"}

\* If Skyflow replies, every request that is received is answered.
EveryRequestAnswered ==
    SkyflowReplies =>
        /\ \A r \in ConfigRequests : Waiting(creq[r].pc) ~> creq[r].pc = "done"
        /\ \A r \in RoleRequests : Waiting(rreq[r].pc) ~> rreq[r].pc = "done"
        /\ \A t \in TokenRequests : Waiting(treq[t].pc) ~> treq[t].pc = "done"
-----------------------------------------------------------------------------
(* Refinement: what the composition promises *)

\* A token request as its client and Skyflow see it.
AskOf(q) ==
    [phase |-> IF q.pc = "new" THEN "idle"
               ELSE IF q.pc # "done" THEN "pending"
               ELSE IF q.token = Absent THEN "refused" ELSE "issued",
     scope |-> IF q.pc \in {"config", "sdk"} THEN q.ids ELSE Absent,
     may   |-> IF q.pc \in {"config", "sdk"} THEN Credentials \ q.dead ELSE {},
     token |-> q.token]

Grants == [n \in Names |-> IF roles[n] = Absent THEN Absent ELSE roles[n].ids]

SingleIDs == {ids \in Seq(RoleIDs) : Len(ids) = 1}

TokenStore == INSTANCE TokenService WITH
    Requests <- TokenRequests,
    Roles <- Names,
    Signers <- Credentials,
    Scopes <- SingleIDs,
    None <- Absent,
    usable <- LiveCredentials,
    granted <- Grants,
    ask <- [t \in TokenRequests |-> AskOf(treq[t])]

\* The mount implements TokenService: whatever the operators do between the two
\* reads of a token handler and Skyflow's reply, the token is scoped to what one
\* role granted when it was asked for, and signed with a credential that was usable
\* since then; refused, lost and answered requests get none afterwards.
TokensAreAuthorised == TokenStore!Spec
-----------------------------------------------------------------------------
(* The inductive invariant of the composition *)

\* A token request carries one role ID and a credential that was live after it
\* arrived; the credentials it holds to be dead still are.
CarriesLive(q, live) ==
    /\ q.dead \cap live = {}
    /\ q.pc # "done" => q.token = Absent
    /\ q.pc \in {"config", "sdk"} => q.ids \in Seq(RoleIDs) /\ Len(q.ids) = 1
    /\ q.pc = "sdk" => q.cred \in Credentials /\ q.cred \notin q.dead
    /\ q.token # Absent => q.token.cred \notin q.dead /\ Len(q.token.ids) = 1

TokensCarryLive == \A t \in TokenRequests : CarriesLive(treq[t], LiveCredentials)

\* What a token request waits for Skyflow with has been vetted, and so has what
\* signed its token.
CarriesVetted(q, vetted) ==
    /\ q.pc = "sdk" => q.cred \in vetted
    /\ q.token # Absent => q.token.cred \in vetted

TokensCarryVetted == \A t \in TokenRequests : CarriesVetted(treq[t], accepted \cup waived)

BackendInv == ConfigInv /\ RoleInv /\ TokenTypeOK /\ TokensCarryLive
=============================================================================
