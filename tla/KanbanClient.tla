---------------------------- MODULE KanbanClient ----------------------------
(***************************************************************************)
(* The kanban board in a browser (client/src/components/KanbanBoard.tsx)   *)
(* in front of the server's (KanbanOrder), next to other clients.          *)
(*                                                                         *)
(* A drop changes the list on the screen at once and is sent to the        *)
(* server; only a failure makes the board load again.  The dialogs send    *)
(* first and load afterwards.  Nothing else is ever announced to a board,  *)
(* and a load reads the columns one after another.                         *)
(***************************************************************************)
EXTENDS KanbanOrder, SequencesExt

CONSTANTS
    Calls,         \* slots for the handlers of this board in flight
    ColumnOrder,   \* the columns in the order a load reads them
    MaxOthers,     \* bound: requests of other clients
    MaxFaults      \* bound: requests or answers the network loses

\* Where a handler may stand, other than at the server in the slot of a request.
Waits == {"idle", "sent", "load", "ok", "failed"}

ASSUME ColumnAssumption ==
    /\ ColumnOrder \in Seq(Columns) /\ Range(ColumnOrder) = Columns
    /\ Reqs \cap Waits = {}
    /\ {MaxOthers, MaxFaults} \subseteq Nat

VARIABLES
    screen,     \* "loading", "board", or "error", which nothing clears
    shown,      \* shown[c]: the tasks of column c from top to bottom
    call,       \* call[k]: where the handler in slot k stands
    sure,       \* history: what can be said of the screen, one of the levels below
    others,     \* requests other clients may still make
    faults      \* requests or answers that may still get lost

board == <<screen, shown>>
budget == <<others, faults>>
client == <<board, call, sure, budget>>

\* Nothing is certain once handlers overlapped, others wrote or the answer to a dialog was
\* lost; drops leave the order open, until the next load.
Nothing == 0
ColumnsOnly == 1
Everything == 2

Quiet == [pc |-> "idle", kind |-> "load", t |-> NoTask, c |-> Nowhere, x |-> NoTask,
          lists |-> <<>>, fresh |-> FALSE]

Loading == [Quiet EXCEPT !.pc = "load"]

\* "at" r: the server's slot r works on it.
Stages == Waits \cup Reqs

BoardTypeOK ==
    /\ TypeOK
    /\ screen \in {"loading", "board", "error"}
    /\ \A c \in Columns : Range(shown[c]) \subseteq Tasks
    /\ \A k \in Calls :
          /\ call[k].pc \in Stages
          /\ call[k].kind \in {"load", "drop", "save", "delete"}
          /\ Len(call[k].lists) <= Len(ColumnOrder)
    /\ \A k, l \in Calls : call[k].pc \in Reqs /\ call[k].pc = call[l].pc => k = l
    /\ sure \in Nothing..Everything
    /\ others \in 0..MaxOthers /\ faults \in 0..MaxFaults

\* Some tasks have been created, one after another, when the board is mounted and
\* fetchKanbanData runs.
Created ==
    /\ made \in 0..MaxTasks
    /\ \E c \in [1..made -> Columns] : col = [t \in Tasks |-> IF t <= made THEN c[t] ELSE Nowhere]
    /\ pos = [t \in Tasks |-> IF t <= made THEN Gap * Cardinality({u \in In(col[t]) : u <= t}) ELSE 0]
    /\ req = [r \in Reqs |-> Idle]
    /\ loose = {} /\ alone = {} /\ raced = FALSE
    /\ left = MaxRequests

BoardInit ==
    /\ Created
    /\ screen = "loading" /\ shown = [c \in Columns |-> <<>>]
    /\ \E k \in Calls : call = [l \in Calls |-> IF l = k THEN Loading ELSE Quiet]
    /\ sure = Everything
    /\ others = MaxOthers /\ faults = MaxFaults

Is(k, pc) == call[k].pc = pc
ServerIdle == \A r \in Reqs : At(r, "idle")
Alone(k) == ServerIdle /\ \A l \in Calls \ {k} : Is(l, "idle")

\* Whatever is being loaded may be out of date.
Stale(calls) == [k \in Calls |-> [calls[k] EXCEPT !.fresh = FALSE]]

-----------------------------------------------------------------------------
(***************************************************************************)
(* What the user does.                                                     *)
(***************************************************************************)
Asks(kind, t, c, x) == [Quiet EXCEPT !.pc = "sent", !.kind = kind, !.t = t, !.c = c, !.x = x]

Send(k, q, level) ==
    /\ screen = "board" /\ Is(k, "idle")
    /\ left > Cardinality({l \in Calls : Is(l, "sent")})
    /\ call' = Stale([call EXCEPT ![k] = q])
    /\ sure' = IF Alone(k) THEN Min({sure, level}) ELSE Nothing
    /\ UNCHANGED <<vars, screen, budget>>

\* findColumnForTask: the first column that shows it.
ColumnOf(t) == ColumnOrder[Min({i \in DOMAIN ColumnOrder : t \in Range(shown[ColumnOrder[i]])})]
OnScreen == UNION {Range(shown[c]) : c \in Columns}
PlaceOf(t, c) == CHOOSE i \in DOMAIN shown[c] : shown[c][i] = t

\* A filter: the elements at the n-th of the places kept, one after another.
Kept(list, t) == {i \in DOMAIN list : list[i] # t}
Nth(S, n) == CHOOSE i \in S : Cardinality({j \in S : j <= i}) = n
Without(list, t) == [n \in 1..Cardinality(Kept(list, t)) |-> list[Nth(Kept(list, t), n)]]

(***************************************************************************)
(* handleDragEnd over a task x of the same column: taken out, then put in  *)
(* at the index x had, plus one if x was below: before an x above it, and  *)
(* one further than after an x below it.  The server is asked for the      *)
(* place after x in either case, and the list is not loaded again.         *)
(***************************************************************************)
DropBeside(k, t, x) ==
    LET c    == ColumnOf(t)
        to   == PlaceOf(x, c) + IF PlaceOf(x, c) < PlaceOf(t, c) THEN 0 ELSE 1
        rest == RemoveAt(shown[c], PlaceOf(t, c))
    IN  /\ Send(k, Asks("drop", t, c, x), ColumnsOnly)
        /\ ColumnOf(x) = c
        /\ shown' = [shown EXCEPT ![c] = InsertAt(rest, Min({to, Len(rest) + 1}), t)]

(***************************************************************************)
(* Over another column or a task of it: at its end.  The server is told    *)
(* the column only.  Over its own column: a request without an effect.     *)
(***************************************************************************)
DropAcross(k, t, c) ==
    /\ Send(k, Asks("drop", t, c, NoTask), ColumnsOnly)
    /\ shown' = IF ColumnOf(t) = c THEN shown
                ELSE [shown EXCEPT ![ColumnOf(t)] = Without(@, t), ![c] = Append(@, t)]

\* handleSaveTask: a new task, or an edited one that stays or goes to column c.
Save(k, t, c) ==
    /\ Send(k, Asks("save", t, c, NoTask), Everything)
    /\ UNCHANGED shown

\* handleDeleteTask.
Delete(k, t) ==
    /\ Send(k, Asks("delete", t, Nowhere, NoTask), Everything)
    /\ UNCHANGED shown

-----------------------------------------------------------------------------
(***************************************************************************)
(* On the server: a request reaches it, its handler takes a step, another  *)
(* client makes a request.                                                 *)
(***************************************************************************)
Reach(k) ==
    LET q == call[k]
    IN  /\ Is(k, "sent")
        /\ \E r \in Reqs :
              \/ /\ q.kind # "delete"
                 /\ IF q.t = NoTask THEN CreateTask(r, q.c) ELSE PutTask(r, q.t, q.c, q.x, TRUE, Unset)
                 /\ call' = [call EXCEPT ![k].pc = r]
              \/ /\ q.kind = "delete" /\ DeleteTask(r, q.t)
                 /\ call' = [call EXCEPT ![k].pc = "ok"]
              \/ /\ q.kind = "delete" /\ col[q.t] = Nowhere /\ UNCHANGED vars
                 /\ call' = [call EXCEPT ![k].pc = "failed"]
    /\ UNCHANGED <<board, sure, budget>>

\* The answer is 404 if there was no such task.
Work(r) ==
    /\ Step(r)
    /\ LET answer == IF At(r, "update") /\ col[req[r].t] = Nowhere THEN "failed" ELSE "ok"
       IN  call' = [k \in Calls |-> IF Is(k, r) /\ At(r, "idle")' THEN [call[k] EXCEPT !.pc = answer]
                                    ELSE call[k]]
    /\ UNCHANGED <<board, sure, budget>>

Others ==
    /\ others > 0 /\ others' = others - 1
    /\ \E r \in Reqs : Request(r)
    /\ call' = Stale(call)
    /\ sure' = Nothing
    /\ UNCHANGED <<board, faults>>

-----------------------------------------------------------------------------
(***************************************************************************)
(* The answer.  After a drop: nothing, or a load if it failed.  After a    *)
(* dialog: a load, or a message and nothing else if it failed.             *)
(***************************************************************************)
KeepDropped(k) ==
    /\ \/ Is(k, "ok") /\ call' = [call EXCEPT ![k] = IF @.kind = "drop" THEN Quiet ELSE Loading]
       \/ Is(k, "failed") /\ call' = [call EXCEPT ![k] = Quiet]
    /\ UNCHANGED <<vars, board, sure, budget>>

Answer(k) ==
    /\ \/ Is(k, "ok") /\ call' = [call EXCEPT ![k] = IF @.kind = "drop" THEN Quiet ELSE Loading]
       \/ Is(k, "failed") /\ call' = [call EXCEPT ![k] = IF @.kind = "drop" THEN Loading ELSE Quiet]
    /\ UNCHANGED <<vars, board, sure, budget>>

\* GET /api/kanban: one SELECT per column.
ReadColumn(k) ==
    LET n == Len(call[k].lists)
    IN  /\ Is(k, "load") /\ n < Len(ColumnOrder)
        /\ call' = [call EXCEPT ![k].lists = Append(@, Shown(ColumnOrder[n + 1])),
                                ![k].fresh = IF n = 0 THEN Alone(k) ELSE @]
        /\ UNCHANGED <<vars, board, sure, budget>>

Listed(lists) == [c \in Columns |-> lists[CHOOSE i \in DOMAIN ColumnOrder : ColumnOrder[i] = c]]

Load(k) ==
    LET q == call[k]
    IN  /\ Is(k, "load") /\ Len(q.lists) = Len(ColumnOrder)
        /\ shown' = Listed(q.lists)
        /\ screen' = IF screen = "loading" THEN "board" ELSE screen
        /\ sure' = IF q.fresh THEN Everything ELSE Nothing
        /\ call' = [call EXCEPT ![k] = Quiet]
        /\ UNCHANGED <<vars, budget>>

(***************************************************************************)
(* The network loses a request or its answer: the handler's catch.  A      *)
(* server that got the request works on all the same.                      *)
(***************************************************************************)
Lose(k) ==
    /\ faults > 0 /\ faults' = faults - 1
    /\ \/ /\ call[k].pc \in {"sent", "ok"} \cup Reqs
          /\ call' = [call EXCEPT ![k].pc = "failed"]
          /\ sure' = IF call[k].kind = "drop" \/ Is(k, "sent") THEN sure ELSE Nothing
          /\ UNCHANGED screen
       \/ /\ Is(k, "load")
          /\ call' = [call EXCEPT ![k] = Quiet]
          /\ screen' = "error"
          /\ UNCHANGED sure
    /\ UNCHANGED <<vars, shown, others>>

-----------------------------------------------------------------------------
User(k) ==
    \/ \E t \in OnScreen :
          \/ \E x \in OnScreen : DropBeside(k, t, x)
          \/ \E c \in Columns : DropAcross(k, t, c) \/ Save(k, t, c)
          \/ Delete(k, t)
    \/ \E c \in Columns : Save(k, NoTask, c)

BoardNext ==
    \/ \E k \in Calls : User(k) \/ Reach(k) \/ Answer(k) \/ ReadColumn(k) \/ Load(k) \/ Lose(k)
    \/ \E r \in Reqs : Work(r)
    \/ Others

BoardSpec == BoardInit /\ [][BoardNext]_<<vars, client>>

-----------------------------------------------------------------------------
(***************************************************************************)
(* When nothing is under way, the handlers of this board did not overlap   *)
(* and nobody else wrote, every column shows the tasks the server has in   *)
(* it, in the server's order if there was no drop since the last load:     *)
(* through moves that fail before or after they took effect, answers that  *)
(* get lost, tasks that are gone and loads in several reads.               *)
(***************************************************************************)
Settled == screen = "board" /\ ServerIdle /\ \A k \in Calls : Is(k, "idle")

BoardTrue ==
    Settled => \A c \in Columns :
        /\ sure >= ColumnsOnly => Range(shown[c]) = In(c) /\ Len(shown[c]) = Cardinality(In(c))
        /\ sure = Everything => shown[c] = Shown(c)
=============================================================================
