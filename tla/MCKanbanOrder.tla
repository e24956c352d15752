--------------------------- MODULE MCKanbanOrder ---------------------------
(***************************************************************************)
(* Instances of KanbanOrder for TLC.  With a gap of 8 and a threshold of 2 *)
(* three insertions at the same place make a renumbering necessary; the    *)
(* real constants (1000000 and 100) need fourteen.  Slots and columns are  *)
(* interchangeable, and no property is a liveness property.                *)
(***************************************************************************)
EXTENDS KanbanOrder, TLC

CONSTANTS r1, r2, todo, done

GivenPositions == {0, 9}

Alike == Permutations(Reqs) \cup Permutations(Columns)
=============================================================================
