--------------------------- MODULE MessageState ---------------------------
(***************************************************************************)
(* The server's two ways to change the state of a message, with any number *)
(* of them in flight at once: the HTTP handler of                          *)
(* PUT /api/service/messages/:id/state and the socket event                *)
(* 'cancel-message'.  A handler runs up to an await (a query on the pool), *)
(* other handlers run, and it goes on with what the query returned: every  *)
(* statement and every emit is a step of its own.                          *)
(***************************************************************************)
EXTENDS MessageRows, Naturals

CONSTANT Reqs              \* slots for requests being handled

VARIABLES
    req,        \* req[r]: where the handler in slot r stands
    wins,       \* wins[m]: answers claimed=true to state=received, so far
    ui,         \* ui[m]: the state the sockets of the room were last told
    blurred     \* blurred[m]: the last change overlapped an announcement, or was never told

vars == <<row, req, wins, ui, blurred>>

Idle == [pc |-> "idle"]

\* The awaits of the two handlers, named for the statement they wait for.
Query == {"check", "claim", "lookup", "update", "cancel"}

Request == [pc : Query \cup {"emit"}, m : Msgs, s : ValidStates]

TypeOK ==
    /\ row \in [Msgs -> RowState]
    /\ req \in [Reqs -> Request \cup {Idle}]
    /\ wins \in [Msgs -> Nat]
    /\ ui \in [Msgs -> RowState]
    /\ blurred \in [Msgs -> BOOLEAN]

Init ==
    /\ RowsInit
    /\ req = [r \in Reqs |-> Idle]
    /\ wins = [m \in Msgs |-> 0]
    /\ ui = [m \in Msgs |-> "absent"]
    /\ blurred = [m \in Msgs |-> FALSE]

At(r, pc) == req[r].pc = pc
Goto(r, pc) == req' = [req EXCEPT ![r].pc = pc]
Finish(r) == req' = [req EXCEPT ![r] = Idle]

\* Slot r has changed the row of m and has not announced it yet.
Announcing(r, m) == At(r, "emit") /\ req[r].m = m

-----------------------------------------------------------------------------
(***************************************************************************)
(* A message is stored and broadcast; it has no state yet.                 *)
(***************************************************************************)
Insert(m) ==
    /\ InsertRow(m)
    /\ ui' = [ui EXCEPT ![m] = "null"]
    /\ UNCHANGED <<req, wins, blurred>>

(***************************************************************************)
(* The handler of the PUT has parsed the id and validated the state, and   *)
(* issues its first query.  Any service client may put any valid state.    *)
(***************************************************************************)
FirstQuery(s) == CASE s = "cancelled" -> "check"
                   [] s = "received"  -> "claim"
                   [] OTHER           -> "update"

PutState(r, m, s) ==
    /\ At(r, "idle")
    /\ req' = [req EXCEPT ![r] = [pc |-> FirstQuery(s), m |-> m, s |-> s]]
    /\ UNCHANGED <<row, wins, ui, blurred>>

(***************************************************************************)
(* The socket event of a user who gives up on a message.                   *)
(***************************************************************************)
SocketCancel(r, m) ==
    /\ At(r, "idle")
    /\ req' = [req EXCEPT ![r] = [pc |-> "cancel", m |-> m, s |-> "cancelled"]]
    /\ UNCHANGED <<row, wins, ui, blurred>>

(***************************************************************************)
(* SELECT processing_state before a PUT of 'cancelled': 404 or 409 unless  *)
(* the message is active, and otherwise on to the unconditional UPDATE.    *)
(***************************************************************************)
CheckNothing(r) ==
    /\ At(r, "check")
    /\ Goto(r, "update")
    /\ UNCHANGED <<row, wins, ui, blurred>>

CheckCancel(r) ==
    /\ At(r, "check")
    /\ IF row[req[r].m] \in Active THEN Goto(r, "update") ELSE Finish(r)
    /\ UNCHANGED <<row, wins, ui, blurred>>

(***************************************************************************)
(* The row has changed, and its new state waits to be announced.  Other    *)
(* announcements of the message may be under way, and then nobody knows    *)
(* which one the room hears last; a change that meets none settles it.     *)
(***************************************************************************)
Changed(r) ==
    /\ Goto(r, "emit")
    /\ blurred' = [blurred EXCEPT ![req[r].m] =
                      \E q \in Reqs : Announcing(q, req[r].m)]
    /\ UNCHANGED <<wins, ui>>

(***************************************************************************)
(* The atomic claim; a caller that does not get the row looks it up, to    *)
(* tell "no such message" from "claimed by another".                       *)
(***************************************************************************)
ClaimUnconditionally(r) ==
    /\ At(r, "claim")
    /\ WriteRow(req[r].m, "received")
    /\ Changed(r)

Claim(r) ==
    /\ At(r, "claim")
    /\ \/ ClaimRow(req[r].m) /\ Changed(r)
       \/ row[req[r].m] # "null" /\ Goto(r, "lookup")
          /\ UNCHANGED <<row, wins, ui, blurred>>

\* SELECT after a lost claim: 404, or claimed=false.  Nothing is announced.
Lookup(r) ==
    /\ At(r, "lookup")
    /\ Finish(r)
    /\ UNCHANGED <<row, wins, ui, blurred>>

\* The unconditional UPDATE of the other states; 404 without a row.
Update(r) ==
    /\ At(r, "update")
    /\ \/ WriteRow(req[r].m, req[r].s) /\ Changed(r)
       \/ row[req[r].m] = "absent" /\ Finish(r)
          /\ UNCHANGED <<row, wins, ui, blurred>>

\* The guarded UPDATE of the socket event; nothing happens without a row.
CancelAnything(r) ==
    /\ At(r, "cancel")
    /\ WriteRow(req[r].m, "cancelled")
    /\ Changed(r)

CancelUpdate(r) ==
    /\ At(r, "cancel")
    /\ \/ CancelRow(req[r].m) /\ Changed(r)
       \/ row[req[r].m] \notin Active /\ Finish(r)
          /\ UNCHANGED <<row, wins, ui, blurred>>

(***************************************************************************)
(* Emit 'message-state' to the room and answer the caller.                 *)
(***************************************************************************)
AnswerSilently(r) ==
    /\ At(r, "emit")
    /\ Finish(r)
    /\ wins' = [wins EXCEPT ![req[r].m] = @ + IF req[r].s = "received" THEN 1 ELSE 0]
    /\ UNCHANGED <<row, ui, blurred>>

Emit(r) ==
    /\ At(r, "emit")
    /\ Finish(r)
    /\ ui' = [ui EXCEPT ![req[r].m] = req[r].s]
    /\ wins' = [wins EXCEPT ![req[r].m] = @ + IF req[r].s = "received" THEN 1 ELSE 0]
    /\ UNCHANGED <<row, blurred>>

\* The statement r waits for changes the row.
Writes(r) ==
    \/ At(r, "claim") /\ ClaimRow(req[r].m)
    \/ At(r, "update") /\ WriteRow(req[r].m, req[r].s)
    \/ At(r, "cancel") /\ CancelRow(req[r].m)

(***************************************************************************)
(* A query fails, before it took effect or after it (the connection is     *)
(* lost, the answer does not arrive): the handler ends with a 500, and a   *)
(* change it made is neither answered nor announced.                       *)
(***************************************************************************)
QueryFails(r) ==
    /\ req[r].pc \in Query
    /\ Finish(r)
    /\ \/ UNCHANGED <<row, blurred>>
       \/ Writes(r) /\ blurred' = [blurred EXCEPT ![req[r].m] = TRUE]
    /\ UNCHANGED <<wins, ui>>

(***************************************************************************)
(* The process stops (SIGTERM, crash) and is started again: handlers and   *)
(* announcements in flight are gone, the table stays.                      *)
(***************************************************************************)
Restart ==
    /\ req' = [r \in Reqs |-> Idle]
    /\ blurred' = [m \in Msgs |-> blurred[m] \/ \E r \in Reqs : Announcing(r, m)]
    /\ UNCHANGED <<row, wins, ui>>

Step(r) ==
    \/ CheckCancel(r) \/ Claim(r) \/ Lookup(r) \/ Update(r) \/ CancelUpdate(r)
    \/ Emit(r) \/ QueryFails(r)

Next ==
    \/ \E m \in Msgs : Insert(m)
    \/ \E r \in Reqs, m \in Msgs : SocketCancel(r, m)
    \/ \E r \in Reqs, m \in Msgs, s \in ValidStates : PutState(r, m, s)
    \/ \E r \in Reqs : Step(r)
    \/ Restart

Spec == Init /\ [][Next]_vars

-----------------------------------------------------------------------------
(***************************************************************************)
(* "claim is atomic and only the first caller gets claimed=true"           *)
(* (server/index.ts, description of the PUT): however the requests         *)
(* interleave, fail or are cut off by a restart, no message is answered    *)
(* claimed=true to two callers of state=received.                          *)
(***************************************************************************)
ClaimedOnce == \A m \in Msgs : wins[m] <= 1

(***************************************************************************)
(* A message nobody has claimed is never cancelled (409, "rejects cancel   *)
(* for message with no processing state"), although the check of the PUT   *)
(* and its UPDATE are two statements and other requests run in between.    *)
(***************************************************************************)
NoUnclaimedCancel ==
    [][\A m \in Msgs : row[m] \in Unclaimed => row'[m] # "cancelled"]_vars

(***************************************************************************)
(* When no announcement of a message is under way, the sockets of its room *)
(* know its state, unless the last change overlapped an announcement       *)
(* (their order is not that of the UPDATEs) or was swallowed by a restart  *)
(* or a failing query.  The next change that meets no other puts the room  *)
(* right again, whatever was lost before.                                  *)
(***************************************************************************)
RoomInStep ==
    \A m \in Msgs :
        \/ blurred[m]
        \/ \E r \in Reqs : Announcing(r, m)
        \/ ui[m] = row[m]

(***************************************************************************)
(* The claim protocol implements the one-shot grant of ClaimRegister.      *)
(***************************************************************************)
Holding(m) == \E r \in Reqs : Announcing(r, m) /\ req[r].s = "received"

GrantOf(m) ==
    IF row[m] \in Unclaimed THEN "open"
    ELSE IF wins[m] > 0 THEN "granted"
    ELSE IF Holding(m) THEN "taken"
    ELSE "closed"

Register == INSTANCE ClaimRegister WITH grant <- [m \in Msgs |-> GrantOf(m)]

ImplementsRegister == Register!Spec
=============================================================================
