SPECIFICATION Spec
CONSTANTS
  FeeRate = 4
  LiqFeeRate = 10
  Mmr = 50
  Buffer = 15
  MinMargin = 500
  MaxCushion = 5000
  Slippage = 11
  FundingEvery = 8
  MaxFunding = 75
  MTrail = 2
  Gamma = 75
  AtrFloor = 10
  RegimeQ = 10
  FlipBars = 2
  NumBins = 2
  EdgeScale = 10
  FMax = 2000
  PriorF = 0
  Confidence = 20
  Multiplier = 20
  Span = 5
  MinThreshold = 1
  MaxThreshold = 500
  Cooldown = 1
  SpatialDelta = 5
  TWindow = 3
  Cost = 4
  Shares = 840
  Series <- MCSeries
  Groups = 4
  TestGroups = 2
  Embargo = 1
  MinTrain = 3
  MinCalibrate = 6
  CalibratePer = 3
  Direction = 1
  Forests <- MCForests
  MSl = 2
  Draws <- MCDraws
  FadeEnabled = TRUE
  Gate = 60
  TMax <- MCTMax
  Margin = 1000
  Notional = 10000
  BarHours = 4
  Rates <- MCRates
INVARIANTS
  NoLeak
  LabelIsFirstTouch
  BarsAreSharedOnce
  TrainCellIsLiveCell
