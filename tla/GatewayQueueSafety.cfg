\* One session, two messages, two faults: a lease can lapse under a live
\* handler (Lease - 1 = 1 stalled period) and one more fault can follow.
SPECIFICATION Spec
CONSTANTS
  default = default
  other = other
  Sessions <- OneSession
  PumpedSessions <- OneSession
  MaxInbound = 2
  MaxAttempts = 2
  Lease = 2
  Backoff = 1
  MaxFaults = 2
INVARIANTS
  QueueInv ReplyIffTerminal ReplyFromLastAttempt RepliesInOrder
  ConcurrencyNeedsStalls AttemptsBoundedByFaults
PROPERTIES
  RowsFenced ImplementsFifoReplies
