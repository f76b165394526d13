SPECIFICATION Spec
CONSTANTS
  N = 4
  Price <- MCPrice
  MinNotional = 2
  MinPosition = 4
  Band = 40
  Tolerance = 2
  Holdings <- MCHoldings
  Weights <- MCWeights
  Budgets = {8, 12}
  Multipliers = {0, 50, 100}
INVARIANTS RepairWorks CutIsNeutral ComesToRest
