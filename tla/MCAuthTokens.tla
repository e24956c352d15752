---------------------------- MODULE MCAuthTokens ----------------------------
(***************************************************************************)
(* Instances of AuthTokens for TLC.  Requests, tokens and sessions are     *)
(* interchangeable.                                                        *)
(***************************************************************************)
EXTENDS AuthTokens, TLC

Symmetry == Permutations(Reqs) \cup Permutations(Tokens) \cup Permutations(Sessions)
=============================================================================
