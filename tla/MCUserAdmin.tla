---------------------------- MODULE MCUserAdmin ----------------------------
(***************************************************************************)
(* Three accounts, two of which have one address, so that one can be       *)
(* created while the other exists or is being created or deleted.          *)
(***************************************************************************)
EXTENDS UserAdmin, TLC

CONSTANTS u1, u2, u3, r1, r2

MCUsers == {u1, u2, u3}
MCSameMail == [u \in MCUsers |-> IF u = u1 THEN {u1} ELSE {u2, u3}]
MCReqs == {r1, r2}

Alike == Permutations({u2, u3}) \cup Permutations(MCReqs)
=============================================================================
