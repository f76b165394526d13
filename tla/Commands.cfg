SPECIFICATION BotFairSpec
CONSTANTS
  Kinds = {"/rebalance", "/kill", "/sync", "/vithe", "foreign"}
  MaxMessages = 2
  MaxDeaths = 1
  Retention = 1
  RebalanceEvery = 2
  Limit = 6
  Suffix = 2
  MaxLength = 8
  Reports <- MCReports
INVARIANTS NothingIsDropped TradesOnce PiecesArrive
PROPERTIES EveryMessageIsRead
