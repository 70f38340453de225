SPECIFICATION Spec
CONSTANTS
  Sessions = {s1, s2, s3}
  Evaluator = s3
  Kinds = {"sales", "feedback", "incident", "baseline"}
  Edits = {"edited", "unusable"}
  NoEdit = "none"
  MaxRetries = 1
  MaxSteps = 7
INVARIANTS
  OneAgentAtWork
  ReportAsApproved
