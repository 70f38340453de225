SPECIFICATION Spec
CONSTANTS
  Slots = {s1, s2}
  LastNode = 3
  Edges <- BranchEdges
  DelayNodes = {2}
  MaxAttempts <- ThreeAttempts
  MaxRecoveries = 1
  LeaseTime = 2
  Timeout <- LongTimeout
  DelayTime <- ShortDelay
  Backoffs = {0, 2}
  RunTimes <- SomeDeadline
  Retryable = {"transient", "attempt_timeout"}
SYMMETRY SlotSymmetry
INVARIANTS
  NoOrphanRun
  SingleActiveJob
  TerminalSettled
  AttemptOwned
  OwnerCanCommit
  ClaimIsReady
  BudgetsHold
  RoutesFollowed
PROPERTIES
  LateResultsDiscarded
  FirstDecisionWins
  TimeRespected
  ImplementsContract
CHECK_DEADLOCK FALSE
