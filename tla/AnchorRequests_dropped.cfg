CONSTANTS
  Streams = {1}
  Checkers = {c1}
  Collectors = {}
  Nodes = {n1, n2}
  AnchorInterval = 2
  Second = 1
  StreamTTL = 2
  PageSize = 1
  MaxScanResults = 2
  Faults = FALSE
  MaxTime = 3
  None = None
SPECIFICATION Spec
CHECK_DEADLOCK FALSE
INVARIANTS
  DroppedIsLate
