---------------------------- MODULE TokenChains ----------------------------
(***************************************************************************)
(* What refresh tokens promise, without tokens, requests or statements.  A *)
(* login starts a chain; while the chain is usable its holder may come     *)
(* back for the next link ("passing"), which makes it usable again.  A     *)
(* chain that has ended (logout, change of password, expiry, a failure on  *)
(* the way) never becomes usable again.                                    *)
(***************************************************************************)
CONSTANT Chains

VARIABLE state

State == {"none", "usable", "passing", "ended"}

Init == state = [c \in Chains |-> "none"]

Move(c, from, to) ==
    /\ state[c] = from
    /\ state' = [state EXCEPT ![c] = to]

Start(c)  == Move(c, "none", "usable")
Pass(c)   == Move(c, "usable", "passing")
Resume(c) == Move(c, "passing", "usable")

End(S) ==
    /\ \A c \in S : state[c] \in {"usable", "passing"}
    /\ state' = [c \in Chains |-> IF c \in S THEN "ended" ELSE state[c]]

Next ==
    \/ \E c \in Chains : Start(c) \/ Pass(c) \/ Resume(c)
    \/ \E S \in SUBSET Chains : End(S)

Spec == Init /\ [][Next]_state
=============================================================================
