----------------------------- MODULE TaskLists -----------------------------
(***************************************************************************)
(* What the kanban board promises to somebody who looks at it, without     *)
(* positions: every column is a list of tasks, and a task is at one place  *)
(* of one list.  While a task is being moved it is the only one to change  *)
(* its place; adding and removing a task leaves the others in the order    *)
(* they had; only the reorder endpoint rearranges a whole list.            *)
(***************************************************************************)
EXTENDS Naturals, Sequences

CONSTANTS Tasks, Columns

VARIABLES
    list,              \* list[c]: the tasks of column c from top to bottom
    moving             \* the task that is being moved, if any, as a set

vars == <<list, moving>>

Members(seq) == {seq[i] : i \in 1..Len(seq)}
Above(seq, t, u) == \E i, j \in 1..Len(seq) : i < j /\ seq[i] = t /\ seq[j] = u

OnePlaceEach ==
    \A c, d \in Columns : \A i \in 1..Len(list[c]), j \in 1..Len(list[d]) :
        list[c][i] = list[d][j] => c = d /\ i = j

Init == list = [c \in Columns |-> <<>>] /\ moving = {}

\* t is somewhere else now (or new, or gone); nobody else has moved.
Displace(t) ==
    \A c \in Columns : \A u, v \in Tasks \ {t} :
        /\ u \in Members(list'[c]) <=> u \in Members(list[c])
        /\ Above(list'[c], u, v) <=> Above(list[c], u, v)

Pick(t) == moving = {} /\ moving' = {t} /\ UNCHANGED list

Move(t) == moving = {t} /\ moving' \in {{}, {t}} /\ Displace(t)

AddOrRemove(t) == moving = {} /\ UNCHANGED moving /\ Displace(t)

Rearrange(c) ==
    /\ moving = {} /\ UNCHANGED moving
    /\ Members(list'[c]) = Members(list[c])
    /\ \A d \in Columns \ {c} : list'[d] = list[d]

Next ==
    /\ OnePlaceEach'
    /\ \/ \E t \in Tasks : Pick(t) \/ Move(t) \/ AddOrRemove(t)
       \/ \E c \in Columns : Rearrange(c)

Spec == Init /\ [][Next]_vars
=============================================================================
