CONSTANTS
  Configs <- MCConfigs
  MaxHits = 5
SPECIFICATION LiveSpec
INVARIANTS
  HitsBracketed
  PiecesDivideFluid
  SelectionsMatchShapes
  InterpFindsPiece
PROPERTIES
  BuildEnds
