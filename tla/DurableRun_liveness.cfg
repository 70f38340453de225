SPECIFICATION FairSpec
CONSTANTS
  Slots = {s1, s2}
  LastNode = 2
  Edges <- ChainEdges
  DelayNodes = {2}
  MaxAttempts <- TwoAttempts
  MaxRecoveries = 1
  LeaseTime = 1
  Timeout <- ShortTimeout
  DelayTime <- ShortDelay
  Backoffs = {0, 1}
  RunTimes <- SomeDeadline
  Retryable = {"transient", "attempt_timeout"}
PROPERTIES
  RunEnds
CHECK_DEADLOCK FALSE
