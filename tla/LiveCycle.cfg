SPECIFICATION FairSpec
CONSTANTS
  None = None
  Daemons = {daemon}
  Shells = {shell}
  Bots = {}
  Targets = {1}
  Equities = {100, 79, 69}
  FREEZE = 1
  REBALANCE = 1
  MaxTime = 2
  MaxMishaps = 1
  WithOverlay = TRUE
  Faults = {"death", "raise", "cancel", "refusal", "settle"}
INVARIANTS OneTrader NoTradeWhenStopped PlanIsCurrent
PROPERTIES PaceKept KillIsForever EveryRoundEnds
