SPECIFICATION Spec
CONSTANTS
  Refs = {s}
  Runners = {a1, a2}
  NoRunner = none
  Lease = 1
  MaxLen = 4
  MaxNodes = 0
  MaxMsg = 2
  InboundLease = 3
  MaxAttempts = 2
SYMMETRY Symmetry
INVARIANTS ChatInv RefusedNeedsStall RepliesFromConversation SecondAnswerNeedsLoss
CHECK_DEADLOCK FALSE
