----------------------------- MODULE MCTaskSidebar -----------------------------
(* Calls may be exchanged with one another, and so may tasks.                   *)
EXTENDS TaskSidebar, TLC

Symmetry == Permutations(Calls) \cup Permutations(Tasks)
=============================================================================
