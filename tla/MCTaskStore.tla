------------------------------ MODULE MCTaskStore ------------------------------
(* Two processes on a task of at most two steps.  Two bodies tell apart the   *)
(* instruction documents of two attempts to add the same step.               *)
EXTENDS TaskStore, TLC

MCDrafts == [body : Bodies, parent : {NoParent, 1}, dependsOn : {{}}]

Symmetry == Permutations(Procs)
=============================================================================
