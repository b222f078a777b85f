SPECIFICATION BeaconSpec
CONSTANTS
  h1 = h1
  Hosts = {h1}
  Kinds <- Lines
  Inodes = {1, 2}
  MaxLines = 2
  MaxReturns = 1
  Changes = {"rename"}
INVARIANT NoLineTwice
CHECK_DEADLOCK FALSE
