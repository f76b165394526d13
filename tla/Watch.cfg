SPECIFICATION FairSpec
CONSTANTS
  MAX_CONSECUTIVE_FAILURES = 3
  STALE_AFTER = 2
  Faults = {"outage", "hang", "death", "disk"}
  MaxMishaps = 3
INVARIANTS DeathStaysRed SleepIsNotStandstill
PROPERTIES OutageIsSeen
