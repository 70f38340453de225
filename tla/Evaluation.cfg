SPECIFICATION Spec
CONSTANTS
  Promoters = {p1, p2}
  Workers = {w1}
  Completed <- BothModes
  MaxResults = 4
INVARIANTS
  OneCounterpart
