SPECIFICATION BeaconSpec
CONSTANTS
  h1 = h1
  Hosts = {h1}
  Kinds <- Lines
  Inodes = {1, 2, 3}
  MaxLines = 2
  MaxReturns = 1
  Changes = {"torn", "truncate", "rename", "replace"}
INVARIANT LinesOnceInOrder
INVARIANT KeepsWatching
INVARIANT ListedMissesNothing
INVARIANT ChargedOnce
INVARIANT AllCharged
CHECK_DEADLOCK FALSE
