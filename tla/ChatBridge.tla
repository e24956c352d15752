----------------------------- MODULE ChatBridge -----------------------------
(***************************************************************************)
(* scripts/chat-bridge-webhook.ts: bridges that hand the messages of users *)
(* to the agent's webhook.  Every running bridge is told of every message; *)
(* they agree on who forwards it through the claim of the hub.  A bridge   *)
(* may crash between any two steps, and any HTTP request may fail before   *)
(* or after it has taken effect; the bridge then gives the message up      *)
(* (handleInboundMessage throws) and nothing retries it.                   *)
(***************************************************************************)
EXTENDS MessageRows, Naturals

CONSTANTS
    Bridges,       \* bridge processes
    MaxFaults      \* bound: failing requests, lost links, crashes

ASSUME FaultAssumption == MaxFaults \in Nat

VARIABLES
    phase,     \* phase[b][m]: where handleInboundMessage(m) stands in bridge b
    online,    \* bridges with a connected socket
    handed,    \* handed[m]: times the webhook has been given m
    faults     \* faults that may still happen

vars == <<row, phase, online, handed, faults>>

\* "told": the event is on the socket.  "claiming", "forwarding": the request
\* is under way.  The others are the ends of the handler.
Busy == {"told", "claiming", "forwarding"}
Phases == Busy \cup {"idle", "forwarded", "skipped", "failed"}

TypeOK ==
    /\ row \in [Msgs -> RowState]
    /\ phase \in [Bridges -> [Msgs -> Phases]]
    /\ online \subseteq Bridges
    /\ handed \in [Msgs -> Nat]
    /\ faults \in 0..MaxFaults

Init ==
    /\ RowsInit
    /\ phase = [b \in Bridges |-> [m \in Msgs |-> "idle"]]
    /\ online = Bridges
    /\ handed = [m \in Msgs |-> 0]
    /\ faults = MaxFaults

At(b, m, p) == phase[b][m] = p
Goto(b, m, p) == phase' = [phase EXCEPT ![b][m] = p]
Fault == faults > 0 /\ faults' = faults - 1

-----------------------------------------------------------------------------
(***************************************************************************)
(* The hub stores a message and tells every connected worker.              *)
(***************************************************************************)
Post(m) ==
    /\ InsertRow(m)
    /\ phase' = [b \in Bridges |->
                   IF b \in online THEN [phase[b] EXCEPT ![m] = "told"] ELSE phase[b]]
    /\ UNCHANGED <<online, handed, faults>>

\* The event handler runs up to the answer of its PUT of 'received'.
Receive(b, m) ==
    /\ At(b, m, "told")
    /\ Goto(b, m, "claiming")
    /\ UNCHANGED <<row, online, handed, faults>>

(***************************************************************************)
(* The claim.  Its answer is claimed=true if the UPDATE hit the row, and   *)
(* claimed=false if the row had a state; or the request fails, before or   *)
(* after the UPDATE.                                                       *)
(***************************************************************************)
HeedlessWon(b, m) ==
    /\ At(b, m, "claiming")
    /\ row' = [row EXCEPT ![m] = "received"]
    /\ Goto(b, m, "forwarding")
    /\ UNCHANGED <<online, handed, faults>>

Won(b, m) ==
    /\ At(b, m, "claiming")
    /\ ClaimRow(m)
    /\ Goto(b, m, "forwarding")
    /\ UNCHANGED <<online, handed, faults>>

SkipAlways(b, m) ==
    /\ At(b, m, "claiming")
    /\ Goto(b, m, "skipped")
    /\ UNCHANGED <<row, online, handed, faults>>

\* "Skipped duplicate claim": another bridge has the message.
Skip(b, m) ==
    /\ At(b, m, "claiming")
    /\ row[m] \notin Unclaimed
    /\ Goto(b, m, "skipped")
    /\ UNCHANGED <<row, online, handed, faults>>

ClaimFails(b, m) ==
    /\ At(b, m, "claiming") /\ Fault
    /\ \/ ClaimRow(m)
       \/ UNCHANGED row
    /\ Goto(b, m, "failed")
    /\ UNCHANGED <<online, handed>>

(***************************************************************************)
(* forwardFn: the webhook takes the message, or the request fails before   *)
(* or after that.                                                          *)
(***************************************************************************)
HandOver(m) == handed' = [handed EXCEPT ![m] = @ + 1]

ForwardAndRetry(b, m) ==
    /\ At(b, m, "forwarding")
    /\ HandOver(m)
    /\ \/ Goto(b, m, "forwarded") /\ UNCHANGED faults
       \/ UNCHANGED phase /\ Fault
    /\ UNCHANGED <<row, online>>

DropForward(b, m) ==
    /\ At(b, m, "forwarding")
    /\ handed' = handed
    /\ Goto(b, m, "forwarded")
    /\ UNCHANGED <<row, online, faults>>

Forward(b, m) ==
    /\ At(b, m, "forwarding")
    /\ HandOver(m)
    /\ Goto(b, m, "forwarded")
    /\ UNCHANGED <<row, online, faults>>

ForwardFails(b, m) ==
    /\ At(b, m, "forwarding") /\ Fault
    /\ \/ HandOver(m)
       \/ UNCHANGED handed
    /\ Goto(b, m, "failed")
    /\ UNCHANGED <<row, online>>

(***************************************************************************)
(* A lost connection loses the events under way, a crash every handler of  *)
(* the bridge as well.  Messages posted until the bridge is back are not   *)
(* announced to it later.                                                  *)
(***************************************************************************)
Offline(b, losing) ==
    /\ b \in online /\ Fault
    /\ online' = online \ {b}
    /\ phase' = [phase EXCEPT ![b] =
                   [m \in Msgs |-> IF phase[b][m] \in losing THEN "failed" ELSE phase[b][m]]]
    /\ UNCHANGED <<row, handed>>

LoseLink(b) == Offline(b, {"told"})
Crash(b) == Offline(b, Busy)

Return(b) ==
    /\ b \notin online
    /\ online' = online \cup {b}
    /\ UNCHANGED <<row, phase, handed, faults>>

Handle(b, m) ==
    \/ Receive(b, m) \/ Won(b, m) \/ Skip(b, m) \/ ClaimFails(b, m)
    \/ Forward(b, m) \/ ForwardFails(b, m)

Next ==
    \/ \E m \in Msgs : Post(m)
    \/ \E b \in Bridges, m \in Msgs : Handle(b, m)
    \/ \E b \in Bridges : LoseLink(b) \/ Crash(b) \/ Return(b)

Spec == Init /\ [][Next]_vars

\* A bridge that is up runs its handlers, and requests that do not fail are
\* answered.
Fairness == \A b \in Bridges, m \in Msgs :
    WF_vars(Receive(b, m) \/ Won(b, m) \/ Skip(b, m) \/ Forward(b, m))

FairSpec == Spec /\ Fairness

-----------------------------------------------------------------------------
(***************************************************************************)
(* "atomically claims inbound messages ... and forwards only when          *)
(* claimed=true" (README.md): however many bridges listen, crash and lose  *)
(* requests, the agent is given no message twice.                          *)
(***************************************************************************)
HandedAtMostOnce == \A m \in Msgs : handed[m] <= 1

(***************************************************************************)
(* A message is not passed over by everybody: when it has been announced   *)
(* and no bridge is busy with it any more, it was handed over, or nobody   *)
(* was there, or some bridge failed on it (and never merely skipped it).   *)
(***************************************************************************)
NotPassedOver ==
    \A m \in Msgs :
        (\E b \in Bridges : phase[b][m] = "skipped") =>
            \E b \in Bridges : phase[b][m] \in {"forwarding", "forwarded", "failed"}

(***************************************************************************)
(* Every message that reaches a bridge is handed to the agent, unless a    *)
(* fault hits it: the claim blocks nobody for ever.                        *)
(***************************************************************************)
EventuallyHanded ==
    \A m \in Msgs :
        (\E b \in Bridges : phase[b][m] = "told")
            ~> (handed[m] = 1 \/ \E b \in Bridges : phase[b][m] = "failed")
=============================================================================
