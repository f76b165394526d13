SPECIFICATION OrderFairSpec
CONSTANTS
  Qty = 3
  MaxAttempts = 3
  MaxLooks = 3
INVARIANTS
  LocalNeverAhead
  TerminalMatchesExchange
PROPERTIES
  Converges
CHECK_DEADLOCK FALSE
