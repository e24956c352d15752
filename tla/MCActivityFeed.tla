--------------------------- MODULE MCActivityFeed ---------------------------
(***************************************************************************)
(* Instance of ActivityFeed for TLC: two instants to a millisecond, so     *)
(* that a page can end within one.                                         *)
(***************************************************************************)
EXTENDS ActivityFeed
=============================================================================
