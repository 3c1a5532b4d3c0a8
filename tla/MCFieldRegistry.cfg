SPECIFICATION Spec
CONSTANTS
  MaxSlots = 2
  MaxS = 1
  MaxV = 1
  Sizes <- MCSizes
  Values = {0, 1}
  MaxWrites = 1
  Watched = {1, 12}
INVARIANTS
  NoSharing
  RefsUsable
PROPERTIES
  PointersStable
  IsStore
CHECK_DEADLOCK FALSE
