SPECIFICATION Spec
CONSTANTS
  FeeRate = 4
  LiqFeeRate = 50
  Mmr = 50
  Buffer = 15
  MinMargin = 500
  MaxCushion = 5000
  Slippage = 1
  FundingEvery = 8
  MaxFunding = 75
  NumBins = 2
  EdgeScale = 10
  FMax = 2000
  PriorF = 0
  Confidence = 20
  Bars <- MCBars
  MaxBars = 6
  BarHours = 8
  Capital = 10000
  Kelly <- MCKelly
  FadeEnabled = TRUE
  Gate = 60
  MSl = 2
  MTrail = 2
  CTrade = 4
  TMaxLive = 3
  LiveMargin = 3333
  Lot = 100
  Tiers <- MCTiers
  ExpectedFunding = 3
  CooldownBars = 1
  FreezeHours = 24
INVARIANTS StopBeforeLiquidation
PROPERTIES TrippedIsFlat
