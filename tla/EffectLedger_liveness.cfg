SPECIFICATION FairSpec
CONSTANTS
  Workers = {w1, w2}
  Providers <- AllProviders
  MaxAttempts = 2
  MaxClaims = 2
  MaxRuns = 2
PROPERTIES
  AbandonedIsExposed
CHECK_DEADLOCK FALSE
