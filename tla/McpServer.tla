----------------------------- MODULE McpServer -----------------------------
(***************************************************************************)
(* The MCP server (server/mcp-server.ts): an agent reads the chat from a   *)
(* buffer that a socket fills, and sends by the socket, or else by a       *)
(* request, or else as an activity.  The hub (server/index.ts) never       *)
(* acknowledges what comes by the socket, so every such call is answered   *)
(* with success after two seconds.  The other tools make one request each. *)
(***************************************************************************)
EXTENDS Naturals, Sequences, SequencesExt

CONSTANTS
    Sends,         \* calls of send_message
    BufferSize,    \* MAX_BUFFER_SIZE (100)
    SocketLimit,   \* messages the hub takes from a socket in a minute (30)
    MaxReceived,   \* bound: messages of others
    MaxFaults      \* bound: lost links, failing requests, minutes

ASSUME McpAssumption ==
    BufferSize \in Nat \ {0} /\ SocketLimit \in Nat /\ MaxReceived \in Nat /\ MaxFaults \in Nat

VARIABLES
    conn,          \* the socket: "up", "down", or "dead" once it has given up
    received,      \* messages received, numbered 1..received
    buffer,        \* messageBuffer
    returned,      \* history: what chat_listen has returned, in order
    dropped,       \* history: received and dropped unread
    call,          \* call[s]: where send_message s stands
    inFlight,      \* sends on the socket
    taken,         \* messages the hub has taken from this socket in this minute
    stored,        \* history: sends that became messages
    noted,         \* history: sends that became activities
    lostSends,     \* history: sends by the socket that were lost
    others, faults \* what is left of the bounds

listening == <<received, buffer, returned, dropped>>
sending == <<inFlight, taken, stored, noted, lostSends>>
mcpVars == <<conn, listening, call, sending, others, faults>>

McpTypeOK ==
    /\ conn \in {"up", "down", "dead"}
    /\ received \in Nat /\ dropped \subseteq 1..received
    /\ buffer \in Seq(1..received) /\ Len(buffer) <= BufferSize
    /\ returned \in Seq(1..received)
    /\ call \in [Sends -> {"new", "socket", "post", "activity", "success", "error"}]
    /\ inFlight \subseteq Sends /\ taken \in 0..SocketLimit
    /\ stored \subseteq Sends /\ noted \subseteq Sends /\ lostSends \subseteq Sends
    /\ others \in 0..MaxReceived /\ faults \in 0..MaxFaults

McpInit ==
    /\ conn = "down" /\ received = 0 /\ buffer = <<>> /\ returned = <<>> /\ dropped = {}
    /\ call = [s \in Sends |-> "new"] /\ inFlight = {} /\ taken = 0
    /\ stored = {} /\ noted = {} /\ lostSends = {}
    /\ others = MaxReceived /\ faults = MaxFaults

Goto(s, pc) == call' = [call EXCEPT ![s] = pc]
Fault == faults > 0 /\ faults' = faults - 1

-----------------------------------------------------------------------------
(***************************************************************************)
(* The socket.  After five failed attempts, or when the hub refuses the    *)
(* token it was made with, it stays closed.                                *)
(***************************************************************************)
SocketConnect ==
    /\ conn = "down" /\ conn' = "up" /\ taken' = 0
    /\ UNCHANGED <<listening, call, inFlight, stored, noted, lostSends, others, faults>>

Disconnect ==
    /\ conn = "up" /\ conn' = "down" /\ Fault
    /\ inFlight' = {} /\ lostSends' = lostSends \cup inFlight
    /\ UNCHANGED <<listening, call, taken, stored, noted, others>>

GiveUp ==
    /\ conn = "down" /\ conn' = "dead" /\ Fault
    /\ UNCHANGED <<listening, call, sending, others>>

KeepAll(all) == buffer' = all /\ UNCHANGED dropped

\* socketClient.on('message'): appended, and the oldest dropped beyond the size.
Buffer(all) ==
    /\ buffer' = SubSeq(all, Max({1, Len(all) - BufferSize + 1}), Len(all))
    /\ dropped' = dropped \cup (ToSet(all) \ ToSet(buffer'))

Receive ==
    /\ received' = received + 1
    /\ Buffer(Append(buffer, received'))
    /\ UNCHANGED returned

\* io.emit: the sender's own message comes back to it, if it has a link.
Broadcast == IF conn = "up" THEN Receive ELSE UNCHANGED listening

OthersWrite ==
    /\ others > 0 /\ others' = others - 1
    /\ Broadcast
    /\ UNCHANGED <<conn, call, sending, faults>>

(***************************************************************************)
(* chat_listen: an error without a link; else what was received after the  *)
(* given time (after message k; 0 if none is given), and the buffer is     *)
(* emptied.  The buffer is in the order of received_at, so that what its   *)
(* filter leaves is all from the first such message on.                    *)
(***************************************************************************)
Since(k) ==
    LET first == SelectInSeq(buffer, LAMBDA n : n > k)
    IN  IF first = 0 THEN <<>> ELSE SubSeq(buffer, first, Len(buffer))

ListenAndKeep(k) ==
    /\ conn = "up" /\ buffer # <<>>
    /\ returned' = returned \o Since(k)
    /\ UNCHANGED <<conn, received, buffer, dropped, call, sending, others, faults>>

ChatListen(k) ==
    /\ conn = "up" /\ buffer # <<>>
    /\ returned' = returned \o Since(k)
    /\ buffer' = <<>>
    /\ dropped' = dropped \cup {n \in ToSet(buffer) : n <= k}
    /\ UNCHANGED <<conn, received, call, sending, others, faults>>

-----------------------------------------------------------------------------
(***************************************************************************)
(* send_message.  There never is an acknowledgment: the timer answers.     *)
(***************************************************************************)
Send(s) ==
    /\ call[s] = "new"
    /\ IF conn = "up" THEN Goto(s, "socket") /\ inFlight' = inFlight \cup {s}
                      ELSE Goto(s, "post") /\ UNCHANGED inFlight
    /\ UNCHANGED <<conn, listening, taken, stored, noted, lostSends, others, faults>>

WaitForAck(s) ==
    /\ call[s] = "socket" /\ s \in stored
    /\ Goto(s, "success")
    /\ UNCHANGED <<conn, listening, sending, others, faults>>

TimeOut(s) ==
    /\ call[s] = "socket"
    /\ Goto(s, "success")
    /\ UNCHANGED <<conn, listening, sending, others, faults>>

\* The hub stores the message and emits it: to everybody, or to its conversation only.
StoreSent(s) ==
    /\ stored' = stored \cup {s}
    /\ Broadcast \/ UNCHANGED listening

(***************************************************************************)
(* The hub's handler: the limit counts what it takes, whatever becomes of  *)
(* it.  What it cannot store is lost; the error event is only logged.      *)
(***************************************************************************)
TakeSent(s) ==
    /\ s \in inFlight /\ inFlight' = inFlight \ {s}
    /\ IF taken >= SocketLimit THEN UNCHANGED taken ELSE taken' = taken + 1
    /\ \/ taken < SocketLimit /\ StoreSent(s) /\ UNCHANGED <<lostSends, faults>>
       \/ /\ lostSends' = lostSends \cup {s} /\ UNCHANGED <<stored, listening>>
          /\ IF taken >= SocketLimit THEN UNCHANGED faults ELSE Fault
    /\ UNCHANGED <<conn, call, noted, others>>

MinuteEnds ==
    /\ taken > 0 /\ taken' = 0 /\ Fault
    /\ UNCHANGED <<conn, listening, call, inFlight, stored, noted, lostSends, others>>

\* POST /api/service/messages; the request may fail, before or after the message is stored.
Post(s) ==
    /\ call[s] = "post"
    /\ \/ Goto(s, "success") /\ StoreSent(s) /\ UNCHANGED faults
       \/ Goto(s, "activity") /\ Fault /\ (StoreSent(s) \/ UNCHANGED <<stored, listening>>)
    /\ UNCHANGED <<conn, inFlight, taken, noted, lostSends, others>>

\* The final fallback, POST /api/service/activities.
Note(s) ==
    /\ call[s] = "activity"
    /\ \/ Goto(s, "success") /\ noted' = noted \cup {s} /\ UNCHANGED faults
       \/ Goto(s, "error") /\ Fault /\ UNCHANGED noted
    /\ UNCHANGED <<conn, listening, inFlight, taken, stored, lostSends, others>>

-----------------------------------------------------------------------------
Answer(s) == TimeOut(s) \/ Post(s) \/ Note(s)

McpNext ==
    \/ SocketConnect \/ Disconnect \/ GiveUp \/ OthersWrite \/ MinuteEnds
    \/ \E k \in 0..received : ChatListen(k)
    \/ \E s \in Sends : Send(s) \/ Answer(s) \/ TakeSent(s)

McpSpec == McpInit /\ [][McpNext]_mcpVars

\* Timers fire, requests end, and the hub handles what it has been sent.
McpFairSpec == McpSpec /\ \A s \in Sends : WF_mcpVars(Answer(s)) /\ WF_mcpVars(TakeSent(s))

-----------------------------------------------------------------------------
(***************************************************************************)
(* "Returns buffered messages received since last call" (mcp-server.ts):   *)
(* what the socket has received is returned once and in order, waits in    *)
(* the buffer, or was dropped, beyond the size or before the time given.   *)
(***************************************************************************)
HeardOnce ==
    /\ \A i, j \in DOMAIN returned : i < j => returned[i] < returned[j]
    /\ ToSet(returned) \cup ToSet(buffer) \cup dropped = 1..received
    /\ ToSet(returned) \cap (ToSet(buffer) \cup dropped) = {}

(***************************************************************************)
(* Every call of send_message ends, although nobody acknowledges: with an  *)
(* error, or with a success, and then the text has become a message or an  *)
(* activity, or else it went by the socket and was lost.                   *)
(***************************************************************************)
SendsEnd ==
    \A s \in Sends :
        call[s] # "new" ~> \/ call[s] = "error"
                           \/ call[s] = "success" /\ s \in stored \cup noted \cup lostSends
=============================================================================
