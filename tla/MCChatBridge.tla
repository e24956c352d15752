---------------------------- MODULE MCChatBridge ----------------------------
(***************************************************************************)
(* Instance of ChatBridge for TLC.  Bridges and messages are               *)
(* interchangeable, but the run checks liveness, for which symmetry is not *)
(* sound.                                                                  *)
(***************************************************************************)
EXTENDS ChatBridge
=============================================================================
