SPECIFICATION TradeSpec
CONSTANTS
  FeeRate = 4
  LiqFeeRate = 10
  Mmr = 50
  Buffer = 15
  MinMargin = 500
  MaxCushion = 5000
  Slippage = 11
  FundingEvery = 8
  MaxFunding = 75
  TradeBars <- MCTradeBars
  Events <- MCEvents
  FadeEnabled = TRUE
  Gate = 60
  TMax <- MCTMax
  Margin = 1000
  Length = 6
  Windows = {0, 1, 3, 4, 6}
  MTrail = 2
  Gamma = 75
  AtrFloor = 10
  TrainP <- MCTrainP
  RegimeQ = 10
  FlipBars = 2
  Notional = 10000
  BarHours = 4
  Rates <- MCRates
INVARIANTS
  StopInsideLiquidation
  ExitIsFirst
  WindowKept
