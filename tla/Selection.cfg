SPECIFICATION SelectSpec
CONSTANTS
  N = 5
  TopFrac = 35
  ExitFrac = 45
  n_positions = 4
  MinUniverse = 4
  MinHistory = 2
  Ratio = 4
  Kinds <- MCKinds
  OddSymbols = {1, 2}
  Standard = 5
  Budgets = {8, 13, 35}
  Engines = {"v1", "v3"}
  Orders <- MCOrders
  MaxMissed = 1
  Unit = 1000
  MaxWeight = 300
  Signals = {"momentum", "reversal", "steady"}
  Signal <- MCSignal
  Lookback = 3
  MinPeriods = 2
  MaxStep = 300
  MaxShare = 600
  Threshold = 1
  Bars <- MCBars
  MaxBars = 4
  Vols <- MCVols
INVARIANTS LiveFollowsResearch BookIsNeutral NoPeek SimulationsAgree
PROPERTIES EveryLegIsPaid
