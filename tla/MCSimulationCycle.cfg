CONSTANTS
  StepCap = 4
  Scales <- MCScales
  Configs <- MCConfigs
SPECIFICATION Spec
INVARIANTS
  GraphBound
  ForcingFresh
  FramesLabelled
  OvershootBounded
  RejectedOnlyAtStart
  DumpCadence
PROPERTIES
  Termination
  RunsTimeMarch
