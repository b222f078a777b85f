SPECIFICATION Spec
CONSTANTS
  IPs = {h1, h2}
  Bandwidths = {100}
  DEFAULT_BANDWIDTH = 100
  UPDATE_TIME = 1
  PAUSE_TIME = 1
  END_TIME = 1
  MaxQuota = 0
  MaxTime = 0
  Calls = {"startSession", "pauseSession", "deleteSession", "setQuota"}
  Hazards = {"fail", "dirty", "late", "reuse"}
  NoIP = NoIP
  NoRule = NoRule
  NoCmd = NoCmd
  NoSession = NoSession
SYMMETRY Symmetry
INVARIANT TypeOK
INVARIANT SuspendedStateHeld
PROPERTY NestedMovesNothing
PROPERTY StaleOnlyByDelete
PROPERTY StartAnswerTrue
PROPERTY PartedByFailureOnly
PROPERTY ClientsView
