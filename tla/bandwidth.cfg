SPECIFICATION Spec
CONSTANTS
  IPs = {h1}
  Bandwidths = {100, 200}
  DEFAULT_BANDWIDTH = 100
  UPDATE_TIME = 2
  PAUSE_TIME = 2
  END_TIME = 2
  MaxQuota = 0
  MaxTime = 0
  Calls = {"startSession", "setBandwidth"}
  Hazards = {}
  NoIP = NoIP
  NoRule = NoRule
  NoCmd = NoCmd
  NoSession = NoSession
INVARIANT BandwidthInForce
