---------------------------- MODULE KanbanOrder ----------------------------
(***************************************************************************)
(* The order of the tasks on the kanban board: server/index.ts keeps a     *)
(* sparse position per task, computes a new one between two neighbours,    *)
(* and renumbers a column when two positions have come too close.          *)
(*                                                                         *)
(* A handler is a chain of statements on the pool, each of them a step.    *)
(* The transaction of the reorder endpoint is one step.  The renumbering   *)
(* function is two: its loop reads the tasks of the column when it starts, *)
(* and what it writes becomes visible when it commits.                     *)
(***************************************************************************)
EXTENDS Integers, Sequences, FiniteSets, FiniteSetsExt

CONSTANTS
    Reqs,          \* slots for requests in flight
    Columns,
    MaxTasks,      \* bound: tasks that are ever created
    MaxRequests,   \* bound: requests that are ever made
    Gap,           \* POSITION_GAP (1000000)
    Threshold,     \* REBALANCE_THRESHOLD (100)
    Given          \* positions clients ask for explicitly

Tasks == 1..MaxTasks       \* ids, in the order of creation
Nowhere == "no column"
Unset == -1                \* no position given
NoTask == 0

ASSUME GapAssumption ==
    /\ Threshold \in Nat /\ Gap \in Nat /\ 2 <= Threshold /\ Threshold <= Gap
    /\ Given \subseteq Nat /\ MaxTasks \in Nat /\ MaxRequests \in Nat
    /\ Nowhere \notin Columns

VARIABLES
    col,        \* col[t]: column of t, Nowhere before its creation and after its deletion
    pos,        \* pos[t]: its position
    made,       \* tasks created so far
    req,        \* req[r]: where the handler in slot r stands
    loose,      \* history: columns with a bare position and no check of the gaps since
    alone,      \* history: slots that renumber with nobody else in flight since they checked
    raced,      \* history: two requests have been in flight at the same time
    left        \* requests that may still be made

vars == <<col, pos, made, req, loose, alone, raced, left>>

NoPlan == [t \in Tasks |-> Unset]

Idle == [pc |-> "idle", t |-> NoTask, c |-> Nowhere, x |-> NoTask, after |-> FALSE,
         p |-> Unset, plan |-> NoPlan]

RequestType ==
    [pc : {"idle", "insert", "update", "check", "list", "write"},
     t : Tasks \cup {NoTask}, c : Columns \cup {Nowhere}, x : Tasks \cup {NoTask},
     after : BOOLEAN, p : Nat \cup {Unset}, plan : [Tasks -> Nat \cup {Unset}]]

TypeOK ==
    /\ col \in [Tasks -> Columns \cup {Nowhere}]
    /\ pos \in [Tasks -> Nat]
    /\ made \in 0..MaxTasks
    /\ req \in [Reqs -> RequestType]
    /\ loose \subseteq Columns
    /\ alone \subseteq Reqs /\ raced \in BOOLEAN
    /\ left \in 0..MaxRequests

Init ==
    /\ col = [t \in Tasks |-> Nowhere]
    /\ pos = [t \in Tasks |-> 0]
    /\ made = 0
    /\ req = [r \in Reqs |-> Idle]
    /\ loose = {} /\ alone = {} /\ raced = FALSE
    /\ left = MaxRequests

In(c) == {t \in Tasks : col[t] = c}
On == {t \in Tasks : col[t] # Nowhere}

-----------------------------------------------------------------------------
(***************************************************************************)
(* calculateNewPosition.  One SELECT reads the position of the target and  *)
(* the nearest ones below and above it in the column; a target that is     *)
(* gone counts as position 0 without neighbours.                           *)
(***************************************************************************)
AtTop(c) == (IF In(c) = {} THEN Gap ELSE Min({pos[t] : t \in In(c)})) - Gap

AtEnd(c) == (IF In(c) = {} THEN 0 ELSE Max({pos[t] : t \in In(c)})) + Gap

BesideNextBelow(c, x, after) ==
    LET here  == IF col[x] = Nowhere THEN 0 ELSE pos[x]
        below == {pos[u] : u \in {v \in In(c) : col[x] # Nowhere /\ pos[v] < here}}
    IN  IF below = {} THEN here + Gap ELSE (Max(below) + here) \div 2

Beside(c, x, after) ==
    LET here  == IF col[x] = Nowhere THEN 0 ELSE pos[x]
        below == {pos[u] : u \in {v \in In(c) : col[x] # Nowhere /\ pos[v] < here}}
        above == {pos[u] : u \in {v \in In(c) : col[x] # Nowhere /\ pos[v] > here}}
    IN  IF after
        THEN IF above = {} THEN here + Gap ELSE (here + Min(above)) \div 2
        ELSE IF below = {} THEN here \div 2 ELSE (Max(below) + here) \div 2

(***************************************************************************)
(* ORDER BY position; tasks at the same position are told apart by their   *)
(* ids, as the renumbering does.                                           *)
(***************************************************************************)
Before(p, S, t) == {u \in S : p[u] < p[t] \/ (p[u] = p[t] /\ u < t)}

Shown(c) ==
    [i \in 1..Cardinality(In(c)) |->
        CHOOSE t \in In(c) : Cardinality(Before(pos, In(c), t)) = i - 1]

\* "Check if any adjacent gap is too small".
CrowdedIfTied(S, p) == \E t, u \in S : t # u /\ p[t] = p[u]

Crowded(S, p) == \E t, u \in S : t # u /\ p[t] <= p[u] /\ p[u] - p[t] < Threshold

\* rebalance_column_positions: 0, gap, 2 * gap, ... in the order shown.
RenumberDescending(S, p) == [t \in S |-> Cardinality({u \in S : t \in Before(p, S, u)}) * Gap]

Renumber(S, p) == [t \in S |-> Cardinality(Before(p, S, t)) * Gap]

-----------------------------------------------------------------------------
At(r, pc) == req[r].pc = pc

Over(new, old) == [t \in Tasks |-> IF t \in DOMAIN new THEN new[t] ELSE old[t]]

\* A request comes in: no slot that is in flight is alone any more.
Arrive(r) ==
    /\ At(r, "idle") /\ left > 0
    /\ left' = left - 1
    /\ alone' = {} /\ raced' = (raced \/ \E q \in Reqs : ~At(q, "idle"))

Begin(r, q) == Arrive(r) /\ req' = [req EXCEPT ![r] = q]

Goto(r, pc) == req' = [req EXCEPT ![r].pc = pc] /\ UNCHANGED <<left, raced>>
Finish(r) == req' = [req EXCEPT ![r] = Idle] /\ UNCHANGED <<left, raced>>

(***************************************************************************)
(* POST /api/kanban/tasks: SELECT MAX(position), then INSERT.  The gaps    *)
(* are not checked.                                                        *)
(***************************************************************************)
CreateTask(r, c) ==
    /\ Begin(r, [Idle EXCEPT !.pc = "insert", !.c = c, !.p = AtEnd(c)])
    /\ UNCHANGED <<col, pos, made, loose>>

Insert(r) ==
    /\ At(r, "insert") /\ made < MaxTasks
    /\ made' = made + 1
    /\ col' = [col EXCEPT ![made'] = req[r].c]
    /\ pos' = [pos EXCEPT ![made'] = req[r].p]
    /\ Finish(r)
    /\ UNCHANGED <<loose, alone>>

(***************************************************************************)
(* PUT /api/kanban/tasks/:id with any of columnName, targetTaskId with     *)
(* insertAfter, and position.  A target counts only together with a        *)
(* column; without either, an explicit position is taken as it is.         *)
(***************************************************************************)
PutTask(r, t, c, x, after, p) ==
    /\ Begin(r, [pc |-> "update", t |-> t, c |-> c, x |-> x, after |-> after,
                 p |-> IF x # NoTask /\ c # Nowhere THEN Beside(c, x, after) ELSE p,
                 plan |-> NoPlan])
    /\ UNCHANGED <<col, pos, made, loose>>

\* The UPDATE; without a row the answer is 404.
Update(r) ==
    LET q == req[r]
    IN  /\ At(r, "update")
        /\ IF col[q.t] = Nowhere
           THEN Finish(r) /\ UNCHANGED <<col, pos, loose>>
           ELSE /\ col' = IF q.c = Nowhere THEN col ELSE [col EXCEPT ![q.t] = q.c]
                /\ pos' = IF q.p = Unset THEN pos ELSE [pos EXCEPT ![q.t] = q.p]
                /\ loose' = IF q.c = Nowhere /\ q.p # Unset THEN loose \cup {col[q.t]} ELSE loose
                /\ IF q.c = Nowhere THEN Finish(r) ELSE Goto(r, "check")
        /\ UNCHANGED <<made, alone>>

(***************************************************************************)
(* checkAndRebalanceIfNeeded, for the column the request names.            *)
(***************************************************************************)
Check(r) ==
    /\ At(r, "check")
    /\ IF Crowded(In(req[r].c), pos)
       THEN /\ Goto(r, "list") /\ UNCHANGED loose
            /\ alone' = IF \A q \in Reqs \ {r} : At(q, "idle") THEN {r} ELSE alone
       ELSE Finish(r) /\ loose' = loose \ {req[r].c} /\ UNCHANGED alone
    /\ UNCHANGED <<col, pos, made>>

List(r) ==
    /\ At(r, "list")
    /\ req' = [req EXCEPT ![r].pc = "write",
                         ![r].plan = Over(Renumber(In(req[r].c), pos), NoPlan)]
    /\ UNCHANGED <<col, pos, made, loose, alone, raced, left>>

\* UPDATE ... WHERE id = ...: wherever the task is by now.
Write(r) ==
    /\ At(r, "write")
    /\ pos' = [t \in Tasks |-> IF req[r].plan[t] = Unset THEN pos[t] ELSE req[r].plan[t]]
    /\ Finish(r)
    /\ loose' = loose \ {req[r].c} /\ alone' = alone \ {r}
    /\ UNCHANGED <<col, made>>

(***************************************************************************)
(* POST /api/kanban/reorder: a transaction.  The positions given for tasks *)
(* of the column are written as they are, and the gaps are checked.        *)
(***************************************************************************)
Reorder(r, c, given) ==
    LET asked == Over([t \in DOMAIN given \cap In(c) |-> given[t]], pos)
    IN  /\ Arrive(r)
        /\ pos' = IF Crowded(In(c), asked) THEN Over(Renumber(In(c), asked), asked) ELSE asked
        /\ loose' = loose \ {c}
        /\ UNCHANGED <<col, made, req>>

DeleteTask(r, t) ==
    /\ Arrive(r)
    /\ col[t] # Nowhere
    /\ col' = [col EXCEPT ![t] = Nowhere]
    /\ UNCHANGED <<pos, made, req, loose>>

-----------------------------------------------------------------------------
\* The requests the clients make: beside a target (the task itself when it is dropped
\* where it was, and in another column when the target has left), or with any of a
\* column and a position (with neither, or with a target but no column: an edit of
\* the text).
Moves(r) ==
    \E t \in On :
        \/ \E x \in On, after \in BOOLEAN, c \in Columns :
              PutTask(r, t, c, x, after, Unset)
        \/ \E c \in Columns \cup {Nowhere}, p \in Given \cup {Unset} :
              PutTask(r, t, c, NoTask, FALSE, p)

Step(r) == Insert(r) \/ Update(r) \/ Check(r) \/ List(r) \/ Write(r)

Request(r) ==
    \/ Moves(r)
    \/ \E c \in Columns : CreateTask(r, c)
    \/ \E c \in Columns : \E S \in SUBSET In(c) : \E given \in [S -> Given] :
          S # {} /\ Reorder(r, c, given)
    \/ \E t \in Tasks : DeleteTask(r, t)

Next == \E r \in Reqs : Request(r) \/ Step(r)

Spec == Init /\ [][Next]_vars

-----------------------------------------------------------------------------
\* The tasks of a column are at least REBALANCE_THRESHOLD apart, so that the next midpoint
\* lies strictly between its neighbours.
Apart(c) == \A t, u \in In(c) : t = u \/ pos[t] + Threshold <= pos[u] \/ pos[u] + Threshold <= pos[t]

(***************************************************************************)
(* "Insert after target task", "Insert before target task" (server/        *)
(* index.ts): when a PUT with a target and its column has been answered,   *)
(* the task stands directly beside the target, on the side asked for, in   *)
(* the order of the positions, through midpoints and renumberings; except  *)
(* before a target at position 0 (half of 0 is 0: a tie, which the         *)
(* renumbering breaks by id), and in a column into which a client wrote a  *)
(* bare position before.  (As long as requests come one at a time.)        *)
(***************************************************************************)
Between(c, t, u) == {v \in In(c) \ {t, u} : pos[t] <= pos[v] /\ pos[v] <= pos[u]}

NextTo(t, x, after) ==
    LET first  == IF after THEN x ELSE t
        second == IF after THEN t ELSE x
    IN  /\ col[t] = col[x]
        /\ pos[first] < pos[second]
        /\ Between(col[x], first, second) = {}

Asked(r, t, x, after) ==
    /\ ~raced /\ ~At(r, "idle")
    /\ req[r].t = t /\ req[r].x = x /\ req[r].after = after
    /\ x # NoTask /\ x # t /\ req[r].c = col[x] /\ col[t] # Nowhere /\ col[x] \in Columns \ loose

Placed(r, t, x, after) ==
    Asked(r, t, x, after) /\ At(r, "idle")' => NextTo(t, x, after)'

PlacedBeside ==
    [][\A r \in Reqs, t, x \in Tasks, after \in BOOLEAN :
          after \/ pos[x] > 0 => Placed(r, t, x, after)]_vars

(***************************************************************************)
(* A crowded column does not stay crowded: whatever racing requests have   *)
(* left behind, a PUT that names the column and meets nobody from its      *)
(* check on leaves the tasks of that column apart again.                   *)
(***************************************************************************)
Heals ==
    [][\A r \in Reqs, c \in Columns :
          /\ At(r, "check") \/ (At(r, "write") /\ r \in alone)
          /\ req[r].c = c /\ At(r, "idle")'
          => Apart(c)']_vars

(***************************************************************************)
(* The board implements lists in which a request moves the task it names:  *)
(* neither the midpoints nor a renumbering ever change the order of two    *)
(* other tasks.  (As long as requests come one at a time.)                 *)
(***************************************************************************)
Named == {req[r].t : r \in Reqs} \ {NoTask}

Board == INSTANCE TaskLists WITH list <- [c \in Columns |-> Shown(c)], moving <- Named

ImplementsTaskLists == Board!Init /\ [][~raced' => Board!Next]_<<Board!vars, raced>>
=============================================================================
