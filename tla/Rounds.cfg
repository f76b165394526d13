SPECIFICATION Spec
CONSTANTS
  Target = 10
  Top = 16
  Horizon = 6
  MinExecutable = 1
  MaxLeverage = 3
  Moves <- MCMoves
  Cost = 1
  BaseLeverage = 2
  LockInBuffer = 4
  MaxMultiplier = 2
  N = 2
  Start = 6
  Rhythm = 2
  Tier1 = 4
  Tier2 = 6
  Tier3 = 8
  Possible = {"offline", "skewed", "poor", "broke", "orphans", "few", "dear", "feed", "venue", "filters", "margin", "daemon", "policy"}
  Deaths = {"sending", "judging", "recording", "writing"}
  MaxMishaps = 2
  MaxRounds = 4
INVARIANTS PreflightForetells GateIsHonest LockedIsKept PromiseIsBest
