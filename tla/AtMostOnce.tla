----------------------------- MODULE AtMostOnce -----------------------------
(***************************************************************************)
(* What a path of the secrets engine promises its clients about storage,   *)
(* whatever it does inside: each request changes at most one entry, at     *)
(* most once, between its receipt and its answer, and to a value that the  *)
(* path accepts.  An error answer from the path means that the request has *)
(* changed nothing; a failure means that it may have.                      *)
(*                                                                         *)
(*   "idle"      not received                                              *)
(*   "pending"   received, storage not changed by it                       *)
(*   "applied"   received, and its change is in storage                    *)
(*   "ok"        told of a success                                         *)
(*   "declined"  told of an error found in the request, or of what it read *)
(*   "failed"    told of a failure                                         *)
(***************************************************************************)
CONSTANTS
    Requests,  \* the requests
    Keys,      \* the storage entries
    Values     \* what an entry may hold, the mark of an absent entry included

VARIABLES
    store,     \* store[k]: what entry k holds
    phase      \* phase[r]: how far request r has come

storeVars == <<store, phase>>

Pass(r, from, to) == phase[r] \in from /\ phase' = [phase EXCEPT ![r] = to]

\* One entry gets an acceptable value; nothing else changes.
ChangeOne == \E k \in Keys : /\ store' = [store EXCEPT ![k] = store'[k]]
                             /\ store'[k] \in Values

Receive(r) == Pass(r, {"idle"}, "pending") /\ UNCHANGED store

Apply(r) == Pass(r, {"pending"}, "applied") /\ ChangeOne

Confirm(r) == Pass(r, {"applied"}, "ok") /\ UNCHANGED store

\* A request whose change and answer are one step, or that has nothing to change.
Complete(r) ==
    \/ Pass(r, {"idle", "pending"}, "ok") /\ ChangeOne
    \/ Pass(r, {"idle"}, "ok") /\ UNCHANGED store

Decline(r) == Pass(r, {"idle", "pending"}, "declined") /\ UNCHANGED store

Fail(r) == Pass(r, {"idle", "pending"}, "failed") /\ (ChangeOne \/ UNCHANGED store)

\* The process dies: its clients are told of a failure, storage stays.
Lose ==
    /\ phase' = [r \in Requests |->
                    IF phase[r] \in {"pending", "applied"} THEN "failed" ELSE phase[r]]
    /\ UNCHANGED store

Init == phase = [r \in Requests |-> "idle"] /\ store \in [Keys -> Values]

Next ==
    \/ \E r \in Requests : \/ Receive(r) \/ Apply(r) \/ Confirm(r)
                           \/ Complete(r) \/ Decline(r) \/ Fail(r)
    \/ Lose

Spec == Init /\ [][Next]_storeVars
=============================================================================
