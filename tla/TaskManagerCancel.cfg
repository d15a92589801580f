\* Three tasks: a chain of parent, child and grandchild, or any other forest.
SPECIFICATION Spec
CONSTANTS
  w = w
  Waiters <- NoWaiter
  MaxTasks = 3
  MaxFaults = 0
INVARIANTS TaskInv ChildrenStopped
\* With every id used and every task over, nothing is left to do.
CHECK_DEADLOCK FALSE
