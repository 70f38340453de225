SPECIFICATION Spec
CONSTANTS
  Definitions = {d1, d2}
  Clients = {c1, c2}
  Keys = {k1}
  Events = {e1}
  Target = d1
  Ticks = {1, 2}
  MaxTime = 2
  MaxRevision <- FewRevisions
  MaxRuns = 2
SYMMETRY ClientSymmetry
INVARIANTS
  OneRunPerOccasion
  TicksCoalesce
PROPERTIES
  StartsAsPublished
CHECK_DEADLOCK FALSE
