SPECIFICATION FairSpec
CONSTANTS
  NumChannels = 1
  ChannelWidth = 1
  THROTTLE_TEMP_C = 80
  CRITICAL_TEMP_C = 85
  COOLDOWN_TEMP_C = 75
  DVFS_TEMP_THRESHOLDS_C <- MCThresholds
  DVFS_FREQ_SCALE_FACTORS <- MCFreq
  DVFS_VOLTAGE_SCALE_FACTORS <- MCVolt
  Temps <- MCFileTemps
  Ambient = 45
  Counts <- MCCounts
  Leakage <- MCFileLeakage
  ExternalInit = TRUE
  Cwds = {"output", "with file", "without file"}
  Iterations = 3
  MaxRuns = 2
INVARIANTS
  TypeOK
  StartsFromKnownState
  TracesMatchHistory
  BankStateFollowsKnobs
PROPERTIES
  RunReturns
