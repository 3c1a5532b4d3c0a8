CONSTANTS
  Configs <- MCConfigs
  MaxRounds = 2
  Threads = {t1, t2, t3}
  Selections <- MCSelections
  Values <- MCValues
  Sol <- MCSol
  Limit = 4
  OutConfigs <- MCOutConfigs
  LastStep = 3
  MaxRuns = 3
  MaxFaults = 1
SPECIFICATION MCSpec
INVARIANT SaveErrorStops
