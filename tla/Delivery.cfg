SPECIFICATION FairSpec
CONSTANTS
  Events = {e1, e2}
  Channels = {c, d}
  Dead = {d}
  NoEvent = none
  Session = default
  Limit = 1
  MaxInbound = 2
  MaxLives = 2
  MaxUnsure = 1
INVARIANTS DeliveryInv PostsInOrder EventsOnce
PROPERTIES RepliesPosted
CHECK_DEADLOCK FALSE
