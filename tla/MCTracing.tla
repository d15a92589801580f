------------------------------ MODULE MCTracing ------------------------------
(***************************************************************************)
(* Tracing for TLC: requests are alike, and so are the hidden tasks.       *)
(***************************************************************************)
EXTENDS Tracing, TLC

Symmetry == Permutations(Requests) \cup Permutations(Hidden)
=============================================================================
