SPECIFICATION Spec
CONSTANTS
  IPs = {h1}
  Bandwidths = {100}
  DEFAULT_BANDWIDTH = 100
  UPDATE_TIME = 1
  PAUSE_TIME = 1
  END_TIME = 1
  MaxQuota = 0
  MaxTime = 0
  Calls = {"startSession", "pauseSession"}
  Hazards = {"quit"}
  NoIP = NoIP
  NoRule = NoRule
  NoCmd = NoCmd
  NoSession = NoSession
INVARIANT CleansUp
