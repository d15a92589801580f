---------------------------- MODULE MCTaskContext ----------------------------
(* TaskContext for TLC: it does not matter which caller is which. *)
EXTENDS TaskContext, TLC

Symmetry == Permutations(Callers)
=============================================================================
