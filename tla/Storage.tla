------------------------------- MODULE Storage -------------------------------
(***************************************************************************)
(* The view of Vault's logical.Storage that every handler of the plugin    *)
(* works through.  Storage is external to the plugin: each Get, Put and    *)
(* Delete is atomic, nothing is locked between two of them, and any of     *)
(* them may return an error.  A Put or Delete that returns an error may    *)
(* still have reached the storage backend (a deadline that expires after   *)
(* the write was replicated), so both outcomes are allowed.                *)
(***************************************************************************)

CONSTANTS
    Absent,         \* no storage entry; also: a field the request does not carry
    Empty,          \* the empty string
    Descriptions,   \* values of the "description" field, the empty one included
    StorageFaults   \* whether storage calls may return errors

ASSUME StorageAssumption ==
    /\ Empty \in Descriptions
    /\ Absent \notin Descriptions
    /\ StorageFaults \in BOOLEAN

\* What a key holds after a Put or Delete that may not have been applied.
Outcome(applied, new, old) == IF applied THEN new ELSE old

\* The answer a handler gives: "ok", ErrorResponse(...) ("rejected"), a Go
\* error ("failed"), an empty response ("notFound"), the two credentials_type
\* values of a read, or nothing yet ("none").
Answers == {"none", "ok", "rejected", "failed", "notFound", "file_path", "json"}
=============================================================================
