SPECIFICATION Spec
CONSTANTS
  h1 = h1
  h2 = h2
  h3 = h3
  IPs = {h1, h2}
  Bandwidths = {100}
  Rejected = {}
  Matched <- Prefixed
  MaxFaults = 0
  NoIP = NoIP
  NoRule = NoRule
PROPERTY RemovesItsHost
