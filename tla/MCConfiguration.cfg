SPECIFICATION MCSpec
CONSTANTS
  Exp <- MCExp
  Cos <- MCCos
  Sin <- MCSin
  Tables <- MCTables
  Times <- MCTimes
  Jumps <- MCJumps
  Unlimited = 1000000
  Holders <- MCHolders
  Bodies = {b1, b2, b3, b4, b5}
  Contents <- MCContents
  Absent = Absent
  Null = Null
  Free = Free
SYMMETRY BodySymmetry
INVARIANTS
  SolutionRight
  WalksAgree
  SetupSound
PROPERTIES
  HandlesAreValues
CHECK_DEADLOCK FALSE
