SPECIFICATION Spec
CONSTANTS
  MaxRounds = 3
  MaxCost = 4
  MaxToolCalls = 2
  MaxRepairs = 1
  Reservations = {2}
  Costs = {1, 2}
  BatchSizes = {1, 2}
  MaxAttempts = 3
  MaxRuns = 3
INVARIANTS
  WithinBudget
PROPERTIES
  Continues
CHECK_DEADLOCK FALSE
