---------------------------- MODULE MCHubGateway ----------------------------
(***************************************************************************)
(* Instances of HubGateway for TLC: all messages are of one session, which *)
(* is where they compete (sessions share only the set of cancelled ids).   *)
(***************************************************************************)
EXTENDS HubGateway

OneSession == [m \in Msgs |-> CHOOSE s \in Sessions : TRUE]
=============================================================================
