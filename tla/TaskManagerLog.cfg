\* Two tasks, two faults: a failed log write and a crash, or two of either.
SPECIFICATION FairSpec
CONSTANTS
  w = w
  Waiters <- OneWaiter
  MaxTasks = 2
  MaxFaults = 2
INVARIANTS FinalStatusKnown
PROPERTIES FinalStatusStays CancelTakesEffect
