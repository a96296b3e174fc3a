--------------------------- MODULE MCKanbanBoard ---------------------------
(* Small instances of KanbanBoard for TLC. *)
EXTENDS KanbanBoard, TLC

CONSTANTS t1, t2, c1, c2, loop

OneTask == {t1}
TwoTasks == {t1, t2}
OneClaimer == {c1}
TwoClaimers == {c1, c2}
LoopOnly == {loop}

Symmetry == Permutations(Tasks) \union Permutations(Claimers)
=============================================================================
