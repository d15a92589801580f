\* Two sessions, only one of them with a registered pump, one fault.
SPECIFICATION FairSpec
CONSTANTS
  default = default
  other = other
  Sessions <- TwoSessions
  PumpedSessions <- OneSession
  MaxInbound = 2
  MaxAttempts = 2
  Lease = 2
  Backoff = 1
  MaxFaults = 1
PROPERTIES EveryMessageAnswered
