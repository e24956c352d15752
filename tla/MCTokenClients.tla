-------------------------- MODULE MCTokenClients --------------------------
(***************************************************************************)
(* Instance of TokenClients for TLC.                                       *)
(***************************************************************************)
EXTENDS TokenClients
=============================================================================
