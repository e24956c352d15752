--------------------------- MODULE MCKanbanClient ---------------------------
(***************************************************************************)
(* Instances of KanbanClient for TLC.                                      *)
(***************************************************************************)
EXTENDS KanbanClient

CONSTANTS r1, k1, k2, todo, done

Alike == Permutations(Calls)

TodoThenDone == <<todo, done>>
=============================================================================
