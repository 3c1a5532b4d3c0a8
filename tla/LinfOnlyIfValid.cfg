CONSTANTS
  StepCap = 4
  Scales <- MCScales
  Configs <- MCFieldConfigs
SPECIFICATION Spec
INVARIANT LinfOnlyIfValid
