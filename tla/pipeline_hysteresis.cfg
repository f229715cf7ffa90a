SPECIFICATION FairSpec
CONSTANTS
  NumChannels = 1
  ChannelWidth = 1
  THROTTLE_TEMP_C = 80
  CRITICAL_TEMP_C = 85
  COOLDOWN_TEMP_C = 75
  DVFS_TEMP_THRESHOLDS_C <- MCThresholds
  DVFS_FREQ_SCALE_FACTORS <- MCFreq
  DVFS_VOLTAGE_SCALE_FACTORS <- MCVolt
  Temps <- MCTemps
  Ambient = 45
  Counts <- MCCounts
  Leakage <- MCLeakage
  ExternalInit = TRUE
  Cwds = {"with file"}
  Iterations = 2
  MaxRuns = 1
PROPERTY LPMHysteresis
