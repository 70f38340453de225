SPECIFICATION FairSpec
CONSTANTS
  LastNode = 6
  Edges <- GateEdges
  Gates = {4, 5}
  ToolGate <- GatedTool
  EntryNode = 2
  ReviewNode = 3
  ApprovalNode = 4
  MaxRevisions = 2
  MaxReviewRetries <- OneReview
  RejectOnTimeout = {5}
  MaxEdits = 1
INVARIANTS
  TypeOK
  ApprovalsMatchWaits
  WorkResumed
  ProceedsAsApproved
PROPERTIES
  RunEnds
CHECK_DEADLOCK FALSE
