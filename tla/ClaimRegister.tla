--------------------------- MODULE ClaimRegister ---------------------------
(***************************************************************************)
(* What PUT /api/service/messages/:id/state promises for state=received,   *)
(* without rows, requests or statements: every message carries one grant.  *)
(* The grant is open until somebody takes it; a taker is either told so    *)
(* ("granted", the answer claimed=true) or is lost before the answer       *)
(* ("closed"); a message whose state was advanced by another path is       *)
(* closed without having been granted.  A grant never reopens.             *)
(***************************************************************************)
CONSTANT Msgs

VARIABLE grant

Grant == {"open", "taken", "granted", "closed"}

Init == grant = [m \in Msgs |-> "open"]

Move(m, from, to) ==
    /\ grant[m] = from
    /\ grant' = [grant EXCEPT ![m] = to]

Take(m)  == Move(m, "open", "taken")
Tell(m)  == Move(m, "taken", "granted")
Close(m) == Move(m, "open", "closed")

\* A restart forgets every taker that has not been told yet.
Forget ==
    grant' = [m \in Msgs |-> IF grant[m] = "taken" THEN "closed" ELSE grant[m]]

Next ==
    \/ \E m \in Msgs : Take(m) \/ Tell(m) \/ Close(m)
    \/ Forget

Spec == Init /\ [][Next]_grant
=============================================================================
