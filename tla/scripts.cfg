SPECIFICATION Spec
CONSTANTS
  h1 = h1
  h2 = h2
  h3 = h3
  IPs = {h1, h2, h3}
  Bandwidths = {100, 200, 20000}
  Rejected = {20000}
  Matched <- Distinct
  MaxFaults = 1
  NoIP = NoIP
  NoRule = NoRule
SYMMETRY Symmetry
INVARIANT TypeOK
INVARIANT ChainsAligned
INVARIANT AllowedOnce
INVARIANT RemovedIsCutOff
PROPERTY ScriptsAtomic
