SPECIFICATION Spec
CONSTANTS
  Workers = {w1, w2}
  Providers <- AllProviders
  MaxAttempts = 3
  MaxClaims = 4
  MaxRuns = 2
SYMMETRY WorkerSymmetry
INVARIANTS
  TypeOK
  AtMostOnce
  FailedMeansNothing
  SettledOnSuccess
  RequestsCharged
  LiveDeliveryIsReserved
PROPERTIES
  ConfirmedIsFinal
  RecoveryIsCertain
  ImplementsContract
CHECK_DEADLOCK FALSE
