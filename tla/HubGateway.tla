----------------------------- MODULE HubGateway -----------------------------
(***************************************************************************)
(* openclaw-extension/src/gateway.ts at work on the messages table of the  *)
(* hub.  A message of a user reaches the gateway over its socket, is       *)
(* claimed, waits in the queue of its session, is handed to the agent      *)
(* ("dispatched"), may be answered, and is marked with a terminal state.   *)
(* Users cancel messages meanwhile, the socket drops, HTTP requests fail   *)
(* and the gateway crashes and is started again.                           *)
(*                                                                         *)
(* A PUT of the gateway is one step: its UPDATE, and the gateway going on  *)
(* with the answer.  What happens between the two elsewhere can as well    *)
(* happen after the step, because the gateway reads nothing in between.    *)
(* The gateway hears of a cancellation through the 'message-state' event,  *)
(* which for a message of a conversation is sent to the room of that       *)
(* conversation only, and the gateway is in the room 'agent'.              *)
(***************************************************************************)
EXTENDS MessageRows, Naturals, Sequences, FiniteSets

CONSTANTS
    Sessions,       \* session keys: account, conversation and sender
    SessionOf,      \* the session of each message
    ConvMsgs,       \* messages that carry a conversation id
    CancelCap,      \* bound of cancelledMessageIds (100 in the code)
    CleanupLimit,   \* page size of cleanupStaleProcessing (100 in the code)
    MaxReplies,     \* bound: answers the agent gives to one message
    MaxFailures,    \* bound: failing HTTP requests
    MaxLosses,      \* bound: losses of the socket
    MaxCrashes      \* bound: crashes of the gateway

ASSUME SessionAssumption ==
    /\ SessionOf \in [Msgs -> Sessions]
    /\ ConvMsgs \subseteq Msgs
    \* the conversation is part of the session key
    /\ \A m, n \in Msgs : SessionOf[m] = SessionOf[n] => (m \in ConvMsgs <=> n \in ConvMsgs)

ASSUME BoundAssumption ==
    /\ CancelCap \in Nat \ {0} /\ CleanupLimit \in Nat \ {0}
    /\ MaxReplies \in Nat /\ MaxFailures \in Nat /\ MaxLosses \in Nat /\ MaxCrashes \in Nat

VARIABLES
    inbox,      \* 'message' events on the socket of the gateway
    hints,      \* 'message-state' events "cancelled" on that socket
    work,       \* work[m]: how far the handler of m has come
    queue,      \* queue[s]: the promise chain of a session, running item first
    cancelled,  \* cancelledMessageIds, oldest first
    delivered,  \* delivered[m]: the variable of that name in the handler of m
    verdict,    \* verdict[m]: terminalState, once it is decided
    replies,    \* replies[m]: answers to m stored in the hub
    heard,      \* history: cancellations it was told of, until the eviction of their ids
    mode,       \* the gateway process: "up", "down", "listing", "cleaning"
    stale,      \* messages cleanupStaleProcessing has still to time out
    linked,     \* the socket is connected
    budget      \* faults that may still happen

gateway == <<work, queue, cancelled, delivered, verdict>>
process == <<mode, stale, linked>>
vars == <<row, inbox, hints, gateway, replies, heard, process, budget>>

Phases == {"none", "claiming", "queued", "starting", "echoing", "running",
           "sending", "ending", "over", "unsaved", "lost"}

\* The body of enqueueSessionWork's callback is executing.
Working == {"starting", "echoing", "running", "sending", "ending"}

Faults == [failures : 0..MaxFailures, losses : 0..MaxLosses, crashes : 0..MaxCrashes]

TypeOK ==
    /\ row \in [Msgs -> RowState]
    /\ inbox \subseteq Msgs /\ hints \subseteq Msgs /\ heard \subseteq Msgs
    /\ work \in [Msgs -> Phases]
    /\ queue \in [Sessions -> Seq(Msgs)]
    /\ cancelled \in Seq(Msgs) /\ Len(cancelled) <= CancelCap
    /\ delivered \in [Msgs -> BOOLEAN]
    /\ verdict \in [Msgs -> Terminal \cup {"open"}]
    /\ replies \in [Msgs -> Nat]
    /\ mode \in {"up", "down", "listing", "cleaning"}
    /\ stale \subseteq Msgs
    /\ linked \in BOOLEAN
    /\ budget \in Faults

Init ==
    /\ RowsInit
    /\ inbox = {} /\ hints = {} /\ heard = {}
    /\ work = [m \in Msgs |-> "none"]
    /\ queue = [s \in Sessions |-> <<>>]
    /\ cancelled = <<>>
    /\ delivered = [m \in Msgs |-> FALSE]
    /\ verdict = [m \in Msgs |-> "open"]
    /\ replies = [m \in Msgs |-> 0]
    /\ mode = "up" /\ stale = {} /\ linked = TRUE
    /\ budget = [failures |-> MaxFailures, losses |-> MaxLosses, crashes |-> MaxCrashes]

InSet(m) == \E i \in 1..Len(cancelled) : cancelled[i] = m

\* cancelledMessageIds.delete: an id is in it once.
Without(seq, m) ==
    IF \E i \in 1..Len(seq) : seq[i] = m
    THEN LET i == CHOOSE i \in 1..Len(seq) : seq[i] = m
         IN  SubSeq(seq, 1, i - 1) \o SubSeq(seq, i + 1, Len(seq))
    ELSE seq

Move(m, from, to) == work[m] = from /\ work' = [work EXCEPT ![m] = to]
Spend(fault) == budget[fault] > 0 /\ budget' = [budget EXCEPT ![fault] = @ - 1]
NoFault == UNCHANGED budget

\* The callback of m has ended: the next one in the chain may run.
Dequeue(m) == queue' = [queue EXCEPT ![SessionOf[m]] = Tail(@)]

-----------------------------------------------------------------------------
(***************************************************************************)
(* The hub and its users.                                                  *)
(***************************************************************************)
\* Socket event 'message': the row, then the broadcast to the room 'agent'.
UserSends(m) ==
    /\ InsertRow(m)
    /\ inbox' = IF linked THEN inbox \cup {m} ELSE inbox
    /\ UNCHANGED <<hints, gateway, replies, heard, process, budget>>

\* The rooms of a 'message-state' event: conv:<id>, or everybody without an id.
ToldAgent(m) == hints' = IF linked /\ m \notin ConvMsgs THEN hints \cup {m} ELSE hints

\* Socket event 'cancel-message'.
UserCancelsAnything(m) ==
    /\ WriteRow(m, "cancelled")
    /\ ToldAgent(m)
    /\ UNCHANGED <<inbox, gateway, replies, heard, process, budget>>

UserCancels(m) ==
    /\ CancelRow(m)
    /\ ToldAgent(m)
    /\ UNCHANGED <<inbox, gateway, replies, heard, process, budget>>

(***************************************************************************)
(* setHubMessageState(m, s): the PUT as the server runs it.  A PUT of      *)
(* 'received' changes the row only if it is unclaimed, one of 'cancelled'  *)
(* only if it is active (409 otherwise); the others always change it.      *)
(***************************************************************************)
Put(m, s) ==
    LET applies == CASE s = "received"  -> row[m] = "null"
                     [] s = "cancelled" -> row[m] \in Active
                     [] OTHER           -> row[m] # "absent"
    IN  /\ row' = IF applies THEN [row EXCEPT ![m] = s] ELSE row
        /\ IF applies /\ s = "cancelled" THEN ToldAgent(m) ELSE UNCHANGED hints

(***************************************************************************)
(* The request fails, before it took effect or after it (the answer is     *)
(* lost): the gateway logs it and goes on.                                 *)
(***************************************************************************)
PutFails(m, s) ==
    /\ Spend("failures")
    /\ \/ Put(m, s)
       \/ UNCHANGED <<row, hints>>

-----------------------------------------------------------------------------
(***************************************************************************)
(* The gateway: its socket handlers.                                       *)
(***************************************************************************)
ReceiveMessage(m) ==
    /\ linked /\ m \in inbox
    /\ inbox' = inbox \ {m}
    /\ Move(m, "none", "claiming")
    /\ UNCHANGED <<row, hints, queue, cancelled, delivered, verdict, replies, heard,
                   process, budget>>

(***************************************************************************)
(* cancelledMessageIds.add, and the eviction of the oldest id beyond the   *)
(* bound.  The set keeps the place of an id that is already in it.         *)
(***************************************************************************)
Added(m) == IF InSet(m) THEN cancelled ELSE Append(cancelled, m)
Overfull(m) == Len(Added(m)) > CancelCap

AddCancelled(m) == cancelled' = IF Overfull(m) THEN Tail(Added(m)) ELSE Added(m)

HearCancel(m) ==
    /\ linked /\ m \in hints
    /\ hints' = hints \ {m}
    /\ AddCancelled(m)
    /\ heard' = (heard \cup {m}) \ (IF Overfull(m) THEN {Head(Added(m))} ELSE {})
    /\ UNCHANGED <<row, inbox, work, queue, delivered, verdict, replies, process, budget>>

(***************************************************************************)
(* The claim is answered, whether claimed or not, or has failed: in every  *)
(* case the message is put at the end of the chain of its session.         *)
(***************************************************************************)
Enqueue(m) ==
    /\ Move(m, "claiming", "queued")
    /\ \/ Put(m, "received") /\ NoFault
       \/ PutFails(m, "received")
    /\ queue' = [queue EXCEPT ![SessionOf[m]] = Append(@, m)]
    /\ UNCHANGED <<inbox, cancelled, delivered, verdict, replies, heard, process>>

(***************************************************************************)
(* The chain reaches m: the callback starts, and honours a cancellation it *)
(* has been told of.                                                       *)
(***************************************************************************)
AtHead(m) == queue[SessionOf[m]] # <<>> /\ Head(queue[SessionOf[m]]) = m

StartAnywhere(m) ==
    /\ IF InSet(m) THEN Move(m, "queued", "echoing") ELSE Move(m, "queued", "starting")
    /\ cancelled' = Without(cancelled, m)
    /\ UNCHANGED <<row, inbox, hints, queue, delivered, verdict, replies, heard,
                   process, budget>>

Start(m) ==
    /\ AtHead(m)
    /\ IF InSet(m) THEN Move(m, "queued", "echoing") ELSE Move(m, "queued", "starting")
    /\ cancelled' = Without(cancelled, m)
    /\ UNCHANGED <<row, inbox, hints, queue, delivered, verdict, replies, heard,
                   process, budget>>

EchoCancelled(m) ==
    /\ Move(m, "echoing", "over")
    /\ \/ Put(m, "cancelled") /\ NoFault
       \/ PutFails(m, "cancelled")
    /\ Dequeue(m)
    /\ UNCHANGED <<inbox, cancelled, delivered, verdict, replies, heard, process>>

MarkProcessing(m) ==
    /\ Move(m, "starting", "running")
    /\ \/ Put(m, "processing") /\ NoFault
       \/ PutFails(m, "processing")
    /\ UNCHANGED <<inbox, queue, cancelled, delivered, verdict, replies, heard, process>>

(***************************************************************************)
(* The callback "deliver": the agent has an answer.  It is not sent if the *)
(* message is known to be cancelled by now.                                *)
(***************************************************************************)
DeliverAnyway(m) ==
    /\ replies[m] < MaxReplies
    /\ Move(m, "running", "sending")
    /\ UNCHANGED <<row, inbox, hints, queue, cancelled, delivered, verdict, replies,
                   heard, process, budget>>

Deliver(m) ==
    /\ replies[m] < MaxReplies
    /\ ~InSet(m)
    /\ Move(m, "running", "sending")
    /\ UNCHANGED <<row, inbox, hints, queue, cancelled, delivered, verdict, replies,
                   heard, process, budget>>

\* sendToHub is answered; it fails before or after the answer is stored.
StoreReply(m) == replies' = [replies EXCEPT ![m] = @ + 1]

Sent(m) ==
    /\ Move(m, "sending", "running")
    /\ \/ /\ StoreReply(m)
          /\ delivered' = [delivered EXCEPT ![m] = TRUE]
          /\ NoFault
       \/ Spend("failures") /\ StoreReply(m) /\ UNCHANGED delivered
       \/ Spend("failures") /\ UNCHANGED <<replies, delivered>>
    /\ UNCHANGED <<row, inbox, hints, queue, cancelled, verdict, heard, process>>

(***************************************************************************)
(* dispatchInboundReplyWithBase returns, or throws (failed).  The terminal *)
(* state: delivered first, then failed, then cancelled, else timeout.      *)
(***************************************************************************)
FailedFirst(m, failed) ==
    IF failed THEN "failed"
    ELSE IF delivered[m] THEN "done"
    ELSE IF InSet(m) THEN "cancelled"
    ELSE "timeout"

TimeoutAsDone(m, failed) ==
    IF failed THEN "failed" ELSE IF InSet(m) THEN "cancelled" ELSE "done"

TerminalState(m, failed) ==
    IF delivered[m] THEN "done"
    ELSE IF failed THEN "failed"
    ELSE IF InSet(m) THEN "cancelled"
    ELSE "timeout"

EndDispatch(m, failed) ==
    /\ Move(m, "running", "ending")
    /\ verdict' = [verdict EXCEPT ![m] = TerminalState(m, failed)]
    /\ cancelled' = Without(cancelled, m)
    /\ UNCHANGED <<row, inbox, hints, queue, delivered, replies, heard, process, budget>>

MarkAndStay(m) ==
    /\ \/ Move(m, "ending", "over") /\ Put(m, verdict[m]) /\ NoFault /\ Dequeue(m)
       \/ Move(m, "ending", "unsaved") /\ PutFails(m, verdict[m]) /\ UNCHANGED queue
    /\ UNCHANGED <<inbox, cancelled, delivered, verdict, replies, heard, process>>

MarkTerminal(m) ==
    /\ \/ Move(m, "ending", "over") /\ Put(m, verdict[m]) /\ NoFault
       \/ Move(m, "ending", "unsaved") /\ PutFails(m, verdict[m])
    /\ Dequeue(m)
    /\ UNCHANGED <<inbox, cancelled, delivered, verdict, replies, heard, process>>

-----------------------------------------------------------------------------
(***************************************************************************)
(* Faults.  A lost socket loses the events sent to it; queued and running  *)
(* work goes on.  A crash loses everything the gateway had in memory.      *)
(***************************************************************************)
LoseLink ==
    /\ linked /\ Spend("losses")
    /\ linked' = FALSE
    /\ inbox' = {} /\ hints' = {}
    /\ UNCHANGED <<row, gateway, replies, heard, mode, stale>>

Relink ==
    /\ mode = "up" /\ ~linked
    /\ linked' = TRUE
    /\ UNCHANGED <<row, inbox, hints, gateway, replies, heard, mode, stale, budget>>

Crash ==
    /\ Spend("crashes")
    /\ mode' = "down" /\ linked' = FALSE /\ stale' = {}
    /\ inbox' = {} /\ hints' = {} /\ cancelled' = <<>>
    /\ work' = [m \in Msgs |-> IF work[m] \in {"none", "over", "unsaved"}
                               THEN work[m] ELSE "lost"]
    /\ queue' = [s \in Sessions |-> <<>>]
    /\ UNCHANGED <<row, delivered, verdict, replies, heard>>

(***************************************************************************)
(* The start: list what is "processing" (one page), time each out, and     *)
(* only then connect the socket.                                           *)
(***************************************************************************)
Boot ==
    /\ mode = "down" /\ mode' = "listing"
    /\ UNCHANGED <<row, inbox, hints, gateway, replies, heard, stale, linked, budget>>

ListStale ==
    LET found == {m \in Msgs : row[m] = "processing"}
        page  == {p \in SUBSET found : IF Cardinality(found) <= CleanupLimit
                                       THEN p = found
                                       ELSE Cardinality(p) = CleanupLimit}
    IN  /\ mode = "listing" /\ mode' = "cleaning"
        /\ \/ stale' \in page /\ NoFault
           \/ stale' = {} /\ Spend("failures")
        /\ UNCHANGED <<row, inbox, hints, gateway, replies, heard, linked>>

ForgetStale(m) ==
    /\ m \in stale
    /\ stale' = stale \ {m}
    /\ UNCHANGED <<row, inbox, hints, budget, gateway, replies, heard, mode, linked>>

TimeOutStale(m) ==
    /\ m \in stale
    /\ stale' = stale \ {m}
    /\ \/ Put(m, "timeout") /\ NoFault
       \/ PutFails(m, "timeout")
    /\ UNCHANGED <<inbox, gateway, replies, heard, mode, linked>>

ConnectEarly ==
    /\ mode = "cleaning"
    /\ mode' = "up" /\ linked' = TRUE
    /\ UNCHANGED <<row, inbox, hints, gateway, replies, heard, stale, budget>>

Connect ==
    /\ mode = "cleaning" /\ stale = {}
    /\ mode' = "up" /\ linked' = TRUE
    /\ UNCHANGED <<row, inbox, hints, gateway, replies, heard, stale, budget>>

-----------------------------------------------------------------------------
Users == \E m \in Msgs : UserSends(m) \/ UserCancels(m)

Handle(m) ==
    \/ ReceiveMessage(m) \/ HearCancel(m) \/ Enqueue(m)
    \/ Start(m) \/ EchoCancelled(m) \/ MarkProcessing(m)
    \/ Deliver(m) \/ Sent(m) \/ (\E failed \in BOOLEAN : EndDispatch(m, failed))
    \/ MarkTerminal(m)

Process ==
    \/ LoseLink \/ Relink \/ Crash
    \/ Boot \/ ListStale \/ (\E m \in Msgs : TimeOutStale(m)) \/ Connect

Next == Users \/ (\E m \in Msgs : Handle(m)) \/ Process

Spec == Init /\ [][Next]_vars

(***************************************************************************)
(* The event loop of the gateway runs every handler that can run, the hub  *)
(* answers requests, the agent ends every dispatch, and the gateway is     *)
(* restarted by its supervisor.  Users owe nothing, and the agent need not *)
(* answer.                                                                 *)
(***************************************************************************)
Fairness ==
    /\ \A m \in Msgs :
          /\ WF_vars(ReceiveMessage(m)) /\ WF_vars(HearCancel(m)) /\ WF_vars(Enqueue(m))
          /\ WF_vars(Start(m)) /\ WF_vars(EchoCancelled(m)) /\ WF_vars(MarkProcessing(m))
          /\ WF_vars(Sent(m)) /\ WF_vars(\E failed \in BOOLEAN : EndDispatch(m, failed))
          /\ WF_vars(MarkTerminal(m)) /\ WF_vars(TimeOutStale(m))
    /\ WF_vars(Relink) /\ WF_vars(Boot) /\ WF_vars(ListStale) /\ WF_vars(Connect)

FairSpec == Spec /\ Fairness

-----------------------------------------------------------------------------
(***************************************************************************)
(* "messages on the same conversation must be dispatched serially so the   *)
(* second one waits for the first to finish" (gateway.ts): two messages of *)
(* a session are never between their turn and their terminal state at the  *)
(* same time, whatever fails, is cancelled or is restarted.                *)
(***************************************************************************)
SerialSessions ==
    \A m, n \in Msgs :
        SessionOf[m] = SessionOf[n] /\ {work[m], work[n]} \subseteq Working => m = n

(***************************************************************************)
(* The user is shown "done" only for a message that has been answered.     *)
(***************************************************************************)
DoneOnlyIfReplied == \A m \in Msgs : row[m] = "done" => replies[m] > 0

(***************************************************************************)
(* "if response was sent, state is done regardless of what happened after" *)
(* (gateway.ts): when the handler of an answered message has ended and its *)
(* last PUT got through, the hub says done, although users may cancel the  *)
(* message and the agent may fail at any time.                             *)
(***************************************************************************)
AnsweredIsDone == \A m \in Msgs : work[m] = "over" /\ delivered[m] => row[m] = "done"

(***************************************************************************)
(* With one gateway, done, failed and timeout are final, although no PUT   *)
(* checks the state it overwrites: the cancel of the user is guarded, a    *)
(* message has one handler, and the clean-up ends before the socket        *)
(* connects, so it meets no message that is being handled.                 *)
(***************************************************************************)
TerminalIsFinal ==
    [][\A m \in Msgs : row[m] \in {"done", "failed", "timeout"} => row'[m] = row[m]]_vars

(***************************************************************************)
(* "Skip delivery if message was cancelled" (gateway.ts): once the gateway *)
(* has been told of a cancellation, it sends no further answer to that     *)
(* message, in whatever order the event, the queue and earlier answers     *)
(* come; as long as its id has not been evicted from cancelledMessageIds.  *)
(***************************************************************************)
SilentAfterCancel ==
    [][\A m \in Msgs : m \in heard /\ work[m] # "sending" => work'[m] # "sending"]_vars

(***************************************************************************)
(* "Honour cancellation that happened while queued" (gateway.ts): the turn *)
(* of a message that was cancelled in the queue, with no event about it    *)
(* still under way, does not start a dispatch.                             *)
(***************************************************************************)
QueuedCancelSkipped ==
    [][\A m \in Msgs :
          work[m] = "queued" /\ row[m] = "cancelled" /\ m \notin hints
          => work'[m] # "starting"]_vars

(***************************************************************************)
(* The queues implement the one-at-a-time, at-most-once service.           *)
(***************************************************************************)
ServedOf(m) == CASE work[m] \in {"none", "claiming", "queued"} -> "not yet"
                 [] work[m] \in Working -> "now"
                 [] OTHER -> "past"

Service == INSTANCE SerialWorker WITH served <- [m \in Msgs |-> ServedOf(m)]

ImplementsSerialWorker == Service!Spec

(***************************************************************************)
(* No session gets stuck: a message that waits in a queue gets its turn    *)
(* and leaves the queue, unless the gateway crashes, even if every PUT     *)
(* fails and predecessors fail.                                            *)
(***************************************************************************)
QueueDrains ==
    \A m \in Msgs : (work[m] = "queued") ~> (work[m] \in {"over", "unsaved", "lost"})

(***************************************************************************)
(* "Clean up stale processing messages from previous gateway sessions"     *)
(* (gateway.ts): as long as no request fails, no message is shown as       *)
(* processing for ever, although the gateway may crash while it works on   *)
(* it, or while it cleans up.                                              *)
(***************************************************************************)
ProcessingEnds ==
    \A m \in Msgs :
        (row[m] = "processing")
            ~> (row[m] # "processing" \/ budget.failures < MaxFailures)
=============================================================================
