\* Is every session processed, also without any fault?
SPECIFICATION FairSpec
CONSTANTS
  default = default
  other = other
  Sessions <- TwoSessions
  PumpedSessions <- OneSession
  MaxInbound = 1
  MaxAttempts = 2
  Lease = 2
  Backoff = 1
  MaxFaults = 0
PROPERTIES EverySessionAnswered
