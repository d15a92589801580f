SPECIFICATION Spec
CONSTANTS
  Requests = {q1, q2}
  Handles = {h1, h2, h3}
  Hidden = {h1, h2}
  Threshold = 4
  MaxSessions = 2
SYMMETRY Symmetry
INVARIANTS TracesApart TraceStitched
CHECK_DEADLOCK FALSE
