SPECIFICATION Spec
CONSTANTS
  Main = main
  Callers = {a, b}
  MaxOps = 2
  MaxToolTurns = 1
  NoRunner = none
  Lease = 1
  MaxLen = 9
  MaxNodes = 0
SYMMETRY Symmetry
INVARIANTS TaskInv RequestsWhole RefusedWhenBusy
CHECK_DEADLOCK FALSE
