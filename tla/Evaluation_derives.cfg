SPECIFICATION Spec
CONSTANTS
  Promoters = {p1}
  Workers = {w1}
  Completed <- OneBaseline
  MaxResults = 5
INVARIANTS
  CounterpartDerives
