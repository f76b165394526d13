SPECIFICATION FairSpec
CONSTANTS
  Intent = 3
  MinTrade = 2
  MaxRounds = 1
  MaxBackoffs = 1
  AllowTaker = {TRUE, FALSE}
  Faults = {"cross", "refusal", "expiry", "cancel", "poll", "lost_answer", "network"}
  MaxFaults = 2
INVARIANTS
  ReportIsComplete
  LostAnswersCostOnce
PROPERTIES
  KeepsPromise
CHECK_DEADLOCK FALSE
