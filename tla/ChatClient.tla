---------------------------- MODULE ChatClient ----------------------------
(***************************************************************************)
(* One conversation as a browser shows it (client/src/App.tsx) next to the *)
(* tables it is stored in (server/index.ts).  The browser merges two       *)
(* sources that race: the events of its socket, announced by the handlers  *)
(* after their statements and lost while there is no link, and a reload    *)
(* every 30 seconds that reads the messages, then their reactions, and     *)
(* arrives some time later.  What the user types goes up the socket, or    *)
(* waits in a queue until there is one.                                    *)
(***************************************************************************)
EXTENDS MessageRows, Naturals, Sequences, FiniteSets, SequencesExt

CONSTANTS
    Typed, Replies, Foreign,  \* messages of the user, of the agent, of other conversations
    Reloads,                  \* slots for reloads in flight
    Page,                     \* limit=50 of the reload
    Limit,                    \* messages per minute and socket (30)
    PutStates,                \* states the worker of the conversation puts
    MaxEvents                 \* bound: what users, workers and faults do altogether

ASSUME ChatAssumption ==
    /\ Msgs = Typed \cup Replies \cup Foreign
    /\ Typed \cap Replies = {} /\ Foreign \cap (Typed \cup Replies) = {}
    /\ Page \in Nat /\ Limit \in Nat /\ PutStates \subseteq ValidStates
    /\ MaxEvents \in Nat

VARIABLES
    \* The hub; row is declared in MessageRows.
    table,       \* the stored messages, newest first
    reacted,     \* the messages that carry the user's reaction
    inserting,   \* messages whose handler is waiting for its INSERT
    announcing,  \* events of what is stored, on their way to the room
    asked,       \* reaction requests on their way, [m, op]
    \* The socket.
    linked,      \* the browser is connected and in the room
    up,          \* messages on the wire
    count,       \* messages taken from this socket in this minute
    \* The browser.
    user,        \* /auth/me has answered
    pending,     \* pendingMessagesRef
    shown,       \* messages, newest first
    states,      \* messageStates; "null" where it has no entry
    marks,       \* marks[m]: entries of messageReactions for m
    reload,      \* reload[i]: where the reload in slot i stands
    \* History and budgets.
    typed,       \* what the user has sent off
    lost,        \* typed messages the link, the limit or the database has dropped
    left         \* what may still happen that nobody has to do

hub == <<row, table, reacted, inserting, announcing, asked>>
wire == <<linked, up, count>>
view == <<shown, states, marks>>
rest == <<typed, lost, left>>
vars == <<hub, wire, user, pending, view, reload, rest>>

NoReload == [pc |-> "idle", all |-> FALSE, rows |-> <<>>, st |-> <<>>, re |-> {}]

Event == [type : {"message", "reaction", "reaction-remove"}, m : Msgs]
         \cup [type : {"message-state"}, m : Msgs, s : ValidStates]

TypeOK ==
    /\ row \in [Msgs -> RowState]
    /\ table \in Seq(Msgs) /\ reacted \subseteq Msgs /\ inserting \subseteq Typed
    /\ announcing \in Seq(Event)
    /\ asked \in Seq([m : Msgs, op : {"add", "remove"}])
    /\ linked \in BOOLEAN /\ up \in Seq(Typed) /\ count \in 0..Limit
    /\ user \in BOOLEAN /\ pending \in Seq(Typed)
    /\ shown \in Seq(Msgs) /\ states \in [Msgs -> ValidStates \cup {"null"}]
    /\ marks \in [Msgs -> Nat]
    /\ \A i \in Reloads :
          /\ reload[i].pc \in {"idle", "messages", "reactions", "answer"}
          /\ reload[i].all \in BOOLEAN /\ reload[i].rows \in Seq(Msgs)
          /\ reload[i].re \subseteq Msgs
    /\ typed \subseteq Typed /\ lost \subseteq Typed
    /\ left \in 0..MaxEvents

Init ==
    /\ RowsInit
    /\ table = <<>> /\ reacted = {} /\ inserting = {} /\ announcing = <<>> /\ asked = <<>>
    /\ linked = FALSE /\ up = <<>> /\ count = 0
    /\ user = FALSE /\ pending = <<>>
    /\ shown = <<>> /\ states = [m \in Msgs |-> "null"] /\ marks = [m \in Msgs |-> 0]
    /\ reload = [i \in Reloads |-> NoReload]
    /\ typed = {} /\ lost = {}
    /\ left = MaxEvents

Spend == left > 0 /\ left' = left - 1

-----------------------------------------------------------------------------
(***************************************************************************)
(* The user: types, and clicks on the reaction of a message.               *)
(***************************************************************************)
SendMessage(m) ==
    /\ m \in Typed \ typed /\ Spend
    /\ typed' = typed \cup {m}
    /\ IF linked
       THEN up' = Append(up, m) /\ UNCHANGED pending
       ELSE pending' = Append(pending, m) /\ UNCHANGED up
    /\ UNCHANGED <<hub, linked, count, user, view, reload, lost>>

ToggleReaction(m) ==
    /\ user /\ Contains(shown, m)
    /\ Spend
    /\ asked' = Append(asked, [m |-> m, op |-> IF marks[m] > 0 THEN "remove" ELSE "add"])
    /\ UNCHANGED <<row, table, reacted, inserting, announcing, wire, user, pending, view,
                   reload, typed, lost>>

\* GET /auth/me has answered, and the effect that depends on it runs.
LearnUser ==
    /\ ~user /\ user' = TRUE
    /\ UNCHANGED <<hub, wire, pending, view, reload, rest>>

-----------------------------------------------------------------------------
(***************************************************************************)
(* The link.  'connect' flushes the queue; the server gives a new socket a *)
(* new counter.  What is on the wire is lost with the link.                *)
(***************************************************************************)
FlushOne ==
    /\ up' = IF pending = <<>> THEN <<>> ELSE <<Head(pending)>>
    /\ pending' = IF pending = <<>> THEN <<>> ELSE Tail(pending)

FlushAndKeep == up' = pending /\ UNCHANGED pending

Flush == up' = pending /\ pending' = <<>>

Connect ==
    /\ user /\ ~linked /\ linked' = TRUE
    /\ Flush
    /\ count' = 0
    /\ UNCHANGED <<hub, user, view, reload, rest>>

Disconnected(gone) ==
    /\ linked' = FALSE /\ up' = <<>> /\ count' = 0
    /\ lost' = lost \cup Range(up) \cup gone

LoseLink ==
    /\ linked /\ Spend
    /\ Disconnected({})
    /\ UNCHANGED <<hub, user, pending, view, reload, typed>>

\* The hub stops with all its handlers; tables stay, reloads end in an error.
Restart ==
    /\ Spend
    /\ Disconnected(inserting)
    /\ inserting' = {} /\ announcing' = <<>> /\ asked' = <<>>
    /\ reload' = [i \in Reloads |-> NoReload]
    /\ UNCHANGED <<row, table, reacted, user, pending, view, typed>>

-----------------------------------------------------------------------------
(***************************************************************************)
(* The socket handler of 'message': the limit, the INSERT, the emit.       *)
(***************************************************************************)
TakeOneMore ==
    /\ up # <<>>
    /\ up' = Tail(up)
    /\ IF count > Limit
       THEN lost' = lost \cup {Head(up)} /\ UNCHANGED <<inserting, count>>
       ELSE inserting' = inserting \cup {Head(up)} /\ count' = count + 1 /\ UNCHANGED lost
    /\ UNCHANGED <<row, table, reacted, announcing, asked, linked, user, pending, view,
                   reload, typed, left>>

TakeMessage ==
    /\ up # <<>>
    /\ up' = Tail(up)
    /\ IF count >= Limit
       THEN lost' = lost \cup {Head(up)} /\ UNCHANGED <<inserting, count>>
       ELSE inserting' = inserting \cup {Head(up)} /\ count' = count + 1 /\ UNCHANGED lost
    /\ UNCHANGED <<row, table, reacted, announcing, asked, linked, user, pending, view,
                   reload, typed, left>>

MinutePasses ==
    /\ count > 0 /\ count' = 0 /\ Spend
    /\ UNCHANGED <<hub, linked, up, user, pending, view, reload, typed, lost>>

\* A statement has stored a change; the handler has yet to emit e.
Announce(e) == announcing' = Append(announcing, e)

Store(m) ==
    /\ InsertRow(m)
    /\ table' = <<m>> \o table

InsertMessage(m) ==
    /\ m \in inserting
    /\ Store(m)
    /\ inserting' = inserting \ {m}
    /\ Announce([type |-> "message", m |-> m])
    /\ UNCHANGED <<reacted, asked, wire, user, pending, view, reload, rest>>

InsertFails(m) ==
    /\ m \in inserting /\ Spend
    /\ inserting' = inserting \ {m}
    /\ lost' = lost \cup {m}
    /\ UNCHANGED <<row, table, reacted, announcing, asked, wire, user, pending, view, reload,
                   typed>>

(***************************************************************************)
(* POST /api/service/messages: an answer of the agent, or a message of     *)
(* another conversation, which is announced to another room.               *)
(***************************************************************************)
ServiceMessage(m) ==
    /\ m \notin Typed /\ Spend
    /\ Store(m)
    /\ IF m \in Replies THEN Announce([type |-> "message", m |-> m]) ELSE UNCHANGED announcing
    /\ UNCHANGED <<reacted, inserting, asked, wire, user, pending, view, reload, typed, lost>>

\* The UPDATEs of a message's state, with the event that follows each of them.
ChangeState(m, s) ==
    /\ m \notin Foreign /\ row[m] # s
    /\ Spend
    /\ WriteRow(m, s)
    /\ Announce([type |-> "message-state", m |-> m, s |-> s])
    /\ UNCHANGED <<table, reacted, inserting, asked, wire, user, pending, view, reload, typed,
                   lost>>

(***************************************************************************)
(* POST and DELETE of a reaction: 409 and 404 change nothing and announce  *)
(* nothing, and the browser ignores the answer.                            *)
(***************************************************************************)
AddReaction(k, m) ==
    /\ k \in DOMAIN asked /\ asked[k] = [m |-> m, op |-> "add"]
    /\ asked' = RemoveAt(asked, k)
    /\ IF m \in reacted
       THEN UNCHANGED <<reacted, announcing>>
       ELSE reacted' = reacted \cup {m} /\ Announce([type |-> "reaction", m |-> m])
    /\ UNCHANGED <<row, table, inserting, wire, user, pending, view, reload, rest>>

RemoveReaction(k, m) ==
    /\ k \in DOMAIN asked /\ asked[k] = [m |-> m, op |-> "remove"]
    /\ asked' = RemoveAt(asked, k)
    /\ IF m \notin reacted
       THEN UNCHANGED <<reacted, announcing>>
       ELSE reacted' = reacted \ {m} /\ Announce([type |-> "reaction-remove", m |-> m])
    /\ UNCHANGED <<row, table, inserting, wire, user, pending, view, reload, rest>>

-----------------------------------------------------------------------------
(***************************************************************************)
(* An event reaches the browser: a message goes on top of the list, a      *)
(* state replaces the known one, a reaction is appended, a removed one is  *)
(* filtered out.                                                           *)
(***************************************************************************)
Hear(e) ==
    /\ shown' = IF e.type = "message" THEN <<e.m>> \o shown ELSE shown
    /\ states' = IF e.type = "message-state" THEN [states EXCEPT ![e.m] = e.s] ELSE states
    /\ marks' = CASE e.type = "reaction" -> [marks EXCEPT ![e.m] = @ + 1]
                  [] e.type = "reaction-remove" -> [marks EXCEPT ![e.m] = 0]
                  [] OTHER -> marks

(***************************************************************************)
(* A handler has its result, emits, and the browser hears it, if it is in  *)
(* the room.  Handlers wait for their statements on different connections, *)
(* so that any event may go first; the wire adds a delay and keeps the     *)
(* order, which the delay of the handlers covers.                          *)
(***************************************************************************)
Emit(k) ==
    /\ k \in DOMAIN announcing
    /\ announcing' = RemoveAt(announcing, k)
    /\ IF linked THEN Hear(announcing[k]) ELSE UNCHANGED view
    /\ UNCHANGED <<row, table, reacted, inserting, asked, wire, user, pending, reload, rest>>

(***************************************************************************)
(* fetchData: without a user it asks for the messages of everybody.        *)
(***************************************************************************)
StartReload(i) ==
    /\ reload[i].pc = "idle"
    /\ reload' = [reload EXCEPT ![i] = [NoReload EXCEPT !.pc = "messages", !.all = ~user]]
    /\ UNCHANGED <<hub, wire, user, pending, view, rest>>

\* GET /api/messages, first statement: the newest rows with their states.
Newest(all) ==
    LET mine == {k \in DOMAIN table : all \/ table[k] \notin Foreign}
        Nth(n) == CHOOSE k \in mine : Cardinality({j \in mine : j <= k}) = n
    IN  [n \in 1..Min({Cardinality(mine), Page}) |-> table[Nth(n)]]

SelectMessages(i) ==
    /\ reload[i].pc = "messages"
    /\ LET rows == Newest(reload[i].all) IN
       reload' = [reload EXCEPT ![i].rows = rows, ![i].st = [m \in Range(rows) |-> row[m]],
                                ![i].pc = IF rows = <<>> THEN "answer" ELSE "reactions"]
    /\ UNCHANGED <<hub, wire, user, pending, view, rest>>

\* Its second statement: the reactions of these rows.
SelectReactions(i) ==
    /\ reload[i].pc = "reactions"
    /\ reload' = [reload EXCEPT ![i].re = reacted \cap Range(reload[i].rows), ![i].pc = "answer"]
    /\ UNCHANGED <<hub, wire, user, pending, view, rest>>

(***************************************************************************)
(* The answer replaces the list, unless it says the same; states and       *)
(* reactions are merged into what is known: a message without a state, or  *)
(* without reactions, keeps the entry it has.                              *)
(***************************************************************************)
ReplacedIfLonger(rows) == IF Len(shown) = Len(rows) THEN shown ELSE rows

Replaced(rows) == rows

MergeNothing(st) == states

MergeStates(st) ==
    [m \in Msgs |-> IF m \in DOMAIN st /\ st[m] # "null" THEN st[m] ELSE states[m]]

KeepReactions(re) == marks

MergeReactions(re) == [m \in Msgs |-> IF m \in re THEN 1 ELSE marks[m]]

FinishReload(i) ==
    /\ reload[i].pc = "answer"
    /\ reload' = [reload EXCEPT ![i] = NoReload]
    /\ shown' = Replaced(reload[i].rows)
    /\ states' = MergeStates(reload[i].st)
    /\ marks' = MergeReactions(reload[i].re)
    /\ UNCHANGED <<hub, wire, user, pending, rest>>

FailReload(i) ==
    /\ reload[i].pc # "idle" /\ Spend
    /\ reload' = [reload EXCEPT ![i] = NoReload]
    /\ UNCHANGED <<hub, wire, user, pending, view, typed, lost>>

-----------------------------------------------------------------------------
Reload(i) == StartReload(i) \/ SelectMessages(i) \/ SelectReactions(i) \/ FinishReload(i)

React(k) == \E m \in Msgs : AddReaction(k, m) \/ RemoveReaction(k, m)

Next ==
    \/ \E m \in Msgs :
          \/ SendMessage(m) \/ ToggleReaction(m) \/ InsertMessage(m) \/ InsertFails(m)
          \/ ServiceMessage(m) \/ \E s \in PutStates : ChangeState(m, s)
    \/ \E k \in DOMAIN announcing : Emit(k)
    \/ \E k \in DOMAIN asked : React(k)
    \/ \E i \in Reloads : Reload(i) \/ FailReload(i)
    \/ LearnUser \/ Connect \/ LoseLink \/ Restart
    \/ TakeMessage \/ MinutePasses

Spec == Init /\ [][Next]_vars

(***************************************************************************)
(* The machines go on: the browser gets to know its user, reconnects (its  *)
(* socket retries for ever), handles its events and reloads every 30       *)
(* seconds; the hub's handlers go on when their statements return.  Nobody *)
(* has to type, to click, or to answer, and nothing has to fail.           *)
(***************************************************************************)
Fairness ==
    /\ WF_vars(LearnUser) /\ WF_vars(Connect) /\ WF_vars(TakeMessage)
    /\ \A m \in Msgs : WF_vars(InsertMessage(m))
    /\ WF_vars(Emit(1)) /\ WF_vars(React(1))
    /\ \A i \in Reloads : WF_vars(Reload(i))

FairSpec == Spec /\ Fairness

-----------------------------------------------------------------------------
(***************************************************************************)
(* What the user has sent off is in exactly one place: waiting for a link, *)
(* on the wire, in a handler, stored once, or dropped by the link, by the  *)
(* limit or by the database.  Reconnecting neither repeats nor forgets     *)
(* one.                                                                    *)
(***************************************************************************)
Copies(m, seq) == Cardinality({k \in DOMAIN seq : seq[k] = m})

OnePlace ==
    \A m \in Typed :
        Copies(m, pending) + Copies(m, up) + Copies(m, table)
        + (IF m \in inserting THEN 1 ELSE 0) + (IF m \in lost THEN 1 ELSE 0)
        = IF m \in typed THEN 1 ELSE 0

(***************************************************************************)
(* What the user sends off is stored in the end, or has been dropped.      *)
(***************************************************************************)
Arrives == \A m \in Typed : m \in typed ~> (row[m] # "absent" \/ m \in lost)

(***************************************************************************)
(* However events, lost links and late answers have mixed up the browser's *)
(* lists, in the end (when nothing changes any more) the reloads have put  *)
(* them right: it shows the newest page of its own conversation and        *)
(* nothing else, in the order of the table, with the states of the table,  *)
(* and every reaction stored for a message on the page once.  (A reaction  *)
(* that was removed may stay: a reload read before the removal, or a       *)
(* removal announced while there was no link, leaves it.)                  *)
(***************************************************************************)
PageSettles ==
    <>[](/\ shown = Newest(FALSE)
         /\ \A m \in Range(shown) : states[m] = row[m]
         /\ \A m \in reacted \cap Range(shown) : marks[m] = 1)
=============================================================================
