SPECIFICATION Spec
CONSTANTS
  Slots = {s1, s2}
  Drafts <- SmallDrafts
  MaxRecoveries = 1
  MaxRuns = 2
SYMMETRY SlotSymmetry
INVARIANTS
  TypeOK
  WorkCarried
  NoSurvivor
  RegionsClosed
CHECK_DEADLOCK FALSE
