----------------------------- MODULE MCExecutor -----------------------------
(***************************************************************************)
(* Bounds of the executor: two runs on one ref, the first with a system    *)
(* prompt and two turns, the second with one turn.                         *)
(***************************************************************************)
EXTENDS Executor, TLC

CONSTANTS r1, r2

MCMaxCalls == r1 :> 1 @@ r2 :> 0
MCMaxTurns == r1 :> 2 @@ r2 :> 1
=============================================================================
