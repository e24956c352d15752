---------------------------- MODULE MessageRows ----------------------------
(***************************************************************************)
(* The messages table of the hub, seen through the column that its         *)
(* delivery protocol runs on: processing_state.  Each action below is one  *)
(* SQL statement of server/index.ts; PostgreSQL runs a statement on one    *)
(* row atomically, so a statement is a single step and everything that     *)
(* happens between two statements of a handler is left to the modules that *)
(* extend this one.                                                        *)
(***************************************************************************)

CONSTANT Msgs              \* identities of messages, one table row each

VARIABLE row               \* row[m]: is m stored, and in which state

(***************************************************************************)
(* validStates of PUT /api/service/messages/:id/state.                     *)
(***************************************************************************)
ValidStates == {"received", "processing", "done", "failed", "not-sent",
                "timeout", "cancelled"}

\* The states from which a message may still be cancelled.
Active == {"received", "processing"}

\* The states in which nobody is working on the message any more.
Terminal == ValidStates \ Active

\* "absent": no such row.  "null": stored, processing_state IS NULL.
Unclaimed == {"absent", "null"}

RowState == ValidStates \cup Unclaimed

RowsInit == row = [m \in Msgs |-> "absent"]

(***************************************************************************)
(* INSERT INTO messages: the new row has no processing state.              *)
(***************************************************************************)
InsertRow(m) ==
    /\ row[m] = "absent"
    /\ row' = [row EXCEPT ![m] = "null"]

(***************************************************************************)
(* UPDATE ... SET processing_state = s WHERE id = m: no condition on the   *)
(* state the row is in.                                                    *)
(***************************************************************************)
WriteRow(m, s) ==
    /\ row[m] # "absent"
    /\ row' = [row EXCEPT ![m] = s]

(***************************************************************************)
(* UPDATE ... SET 'received' WHERE id = m AND processing_state IS NULL.    *)
(***************************************************************************)
ClaimRow(m) ==
    /\ row[m] = "null"
    /\ row' = [row EXCEPT ![m] = "received"]

(***************************************************************************)
(* UPDATE ... SET 'cancelled' WHERE id = m AND processing_state IN         *)
(* ('received', 'processing').                                             *)
(***************************************************************************)
CancelRow(m) ==
    /\ row[m] \in Active
    /\ row' = [row EXCEPT ![m] = "cancelled"]
=============================================================================
