--------------------------- MODULE MCMessageState ---------------------------
(***************************************************************************)
(* Instance of MessageState for TLC: three requests in flight on one       *)
(* message.  No statement touches two rows, so that one message is enough. *)
(***************************************************************************)
EXTENDS MessageState, TLC

Symmetry == Permutations(Reqs)
=============================================================================
