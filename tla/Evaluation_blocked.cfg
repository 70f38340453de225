SPECIFICATION Spec
CONSTANTS
  Promoters = {p1, p2}
  Workers = {w1, w2}
  Completed <- BothModes
  MaxResults = 4
PROPERTIES
  BlockedIsManual
