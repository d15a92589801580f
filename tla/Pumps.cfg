SPECIFICATION PumpsFairSpec
CONSTANTS
  Ids = {p,q}
  Configs = {x, y}
  Threads = {t}
  MaxRunners = 3
INVARIANTS PumpsInv CloseWaits
PROPERTIES CallsReturn
CHECK_DEADLOCK FALSE
