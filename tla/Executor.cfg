SPECIFICATION FairSpec
CONSTANTS
  Refs = {s}
  Runners = {r1, r2}
  NoRunner = none
  Lease = 1
  MaxLen = 11
  MaxNodes = 0
  MaxTurns <- MCMaxTurns
  Prompted = {r1}
  r1 = r1
  r2 = r2
  MaxCalls <- MCMaxCalls
INVARIANTS ExecInv RequestsPaired ResultAgrees
PROPERTIES FinishedIsQuiet StopEnds RefFreed
CHECK_DEADLOCK FALSE
