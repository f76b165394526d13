SPECIFICATION Spec
CONSTANTS
  None = None
  Daemons = {daemon}
  Shells = {}
  Bots = {bot}
  Targets = {1, 2}
  Equities = {100}
  FREEZE = 1
  REBALANCE = 3
  MaxTime = 5
  MaxMishaps = 0
  WithOverlay = FALSE
  Faults = {}
PROPERTIES KillIsForever
