CONSTANTS
  Tables <- MCNoTables
  Psis <- MCPsis
  Spacings = {1, 3}
  Lines <- MCLines
  E = 17
  Configs <- MCCrossing
  MaxHits = 5
  QueryOf <- Query
  InteriorOf <- Interior
  NbsOf <- Nbs
  InterpOf <- Interp
  ExactnessOf <- Exactness
  Derivatives <- MCDerivatives
  Spacing <- MCSpacing
  Fields <- MCFields
  Systems <- MCSystems
  MaxSteps = 2
  Value <- MCValue
  Ddt <- MCDdt
  Gradient <- MCGradient
  Laplacian <- MCLaplacian
  Distance <- MCDistance
  Profile <- MCProfile
  Equation <- MCEquation
SPECIFICATION MCSpec
INVARIANT NeumannIsGradient
CHECK_DEADLOCK FALSE
