---------------------------- MODULE TokenService ----------------------------
(***************************************************************************)
(* What the secrets engine promises to those who get tokens from it, and   *)
(* to Skyflow: a token is scoped to what the role granted when the token   *)
(* was asked for, and it is signed with a credential that was usable at    *)
(* some moment between the request and its answer.  Operators change roles *)
(* and credentials as they like in the meantime; a request is answered     *)
(* once, and a request that was refused or lost has got no token.          *)
(***************************************************************************)
CONSTANTS
    Requests,  \* the requests for a token
    Roles,     \* the names of roles
    Signers,   \* the credentials that can sign
    Scopes,    \* what a role may grant
    None       \* no such role, no scope, no token

VARIABLES
    usable,   \* the credentials that are stored, or that a write may still store
    granted,  \* granted[n]: what role n grants, or None
    ask       \* ask[t]: how far request t has come

serviceVars == <<usable, granted, ask>>

\* may: the credentials that have been usable since the request was received.
Ask(phase, scope, may, token) ==
    [phase |-> phase, scope |-> scope, may |-> may, token |-> token]

Idle == Ask("idle", None, {}, None)

Refused == Ask("refused", None, {}, None)

Issued(token) == Ask("issued", None, {}, token)

\* Operators write and delete configurations and roles; what becomes usable may
\* sign for the requests that are waiting.
Manage ==
    /\ usable' \subseteq Signers
    /\ granted' \in [Roles -> Scopes \cup {None}]
    /\ ask' = [t \in Requests |-> IF ask[t].phase = "pending"
                                  THEN [ask[t] EXCEPT !.may = @ \cup usable']
                                  ELSE ask[t]]

Receive(t, n) ==
    /\ ask[t].phase = "idle" /\ granted[n] # None
    /\ ask' = [ask EXCEPT ![t] = Ask("pending", granted[n], usable, None)]
    /\ UNCHANGED <<usable, granted>>

Issue(t) ==
    /\ ask[t].phase = "pending"
    /\ \E c \in ask[t].may :
          ask' = [ask EXCEPT ![t] = Issued([cred |-> c, ids |-> ask[t].scope])]
    /\ UNCHANGED <<usable, granted>>

Refuse(t) ==
    /\ ask[t].phase \in {"idle", "pending"}
    /\ ask' = [ask EXCEPT ![t] = Refused]
    /\ UNCHANGED <<usable, granted>>

\* The process dies: writes that were under way store nothing more.
Lose ==
    /\ usable' \subseteq usable /\ UNCHANGED granted
    /\ ask' = [t \in Requests |-> IF ask[t].phase = "pending" THEN Refused ELSE ask[t]]

Init ==
    /\ usable \subseteq Signers
    /\ granted \in [Roles -> Scopes \cup {None}]
    /\ ask = [t \in Requests |-> Idle]

Next ==
    \/ Manage \/ Lose
    \/ \E t \in Requests : Issue(t) \/ Refuse(t) \/ \E n \in Roles : Receive(t, n)

Spec == Init /\ [][Next]_serviceVars
=============================================================================
