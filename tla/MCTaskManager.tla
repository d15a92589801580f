--------------------------- MODULE MCTaskManager ---------------------------
(* TaskManager on small instances. *)
EXTENDS TaskManager
CONSTANT w

NoWaiter  == {}
OneWaiter == {w}
=============================================================================
