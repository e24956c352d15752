---------------------------- MODULE SerialWorker ----------------------------
(***************************************************************************)
(* What the gateway's per-session queues promise, without queues, requests *)
(* or failures: a session serves one message at a time, and a message is   *)
(* taken up at most once, ever.  A crash abandons what is being served; it *)
(* does not make a message eligible again.                                 *)
(***************************************************************************)
CONSTANTS Msgs, Sessions, SessionOf

VARIABLE served    \* served[m]: "not yet", "now" or "past"

Serving(s) == {m \in Msgs : SessionOf[m] = s /\ served[m] = "now"}

Init == served = [m \in Msgs |-> "not yet"]

Begin(m) ==
    /\ served[m] = "not yet"
    /\ Serving(SessionOf[m]) = {}
    /\ served' = [served EXCEPT ![m] = "now"]

End(m) ==
    /\ served[m] = "now"
    /\ served' = [served EXCEPT ![m] = "past"]

\* Some of the waiting messages and everything that is served is given up.
Abandon ==
    \E lost \in SUBSET {m \in Msgs : served[m] = "not yet"} :
        served' = [m \in Msgs |-> IF m \in lost \/ served[m] = "now"
                                  THEN "past" ELSE served[m]]

Next ==
    \/ \E m \in Msgs : Begin(m) \/ End(m)
    \/ Abandon

Spec == Init /\ [][Next]_served
=============================================================================
