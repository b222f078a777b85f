SPECIFICATION FairSpec
CONSTANTS
  IPs = {h1}
  Bandwidths = {100}
  DEFAULT_BANDWIDTH = 100
  UPDATE_TIME = 2
  PAUSE_TIME = 1
  END_TIME = 1
  MaxQuota = 1
  MaxTime = 1
  Calls = {"newSession", "startSession", "playSession", "pauseSession", "endSession", "deleteSession", "updateSession", "setQuota", "setBandwidth", "setTime", "setDefaultSession", "setDefaultQuota", "setDefaultTime", "setDefaultBandWidth"}
  Hazards = {"reuse"}
  NoIP = NoIP
  NoRule = NoRule
  NoCmd = NoCmd
  NoSession = NoSession
PROPERTY UnrefreshedEnds
PROPERTY ExhaustedStops
PROPERTY SpentNotRefunded
PROPERTY PausedRestarts
