CONSTANTS
  Streams = {1, 2, 3}
  Checkers = {c1}
  Collectors = {}
  Nodes = {n1, n2}
  AnchorInterval = 1
  Second = 1
  StreamTTL = 2
  PageSize = 2
  MaxScanResults = 1
  Faults = FALSE
  MaxTime = 2
  None = None
SPECIFICATION FairSpec
CHECK_DEADLOCK FALSE
PROPERTIES
  ScanReturns
  Resolved
