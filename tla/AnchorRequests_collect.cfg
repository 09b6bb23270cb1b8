CONSTANTS
  Streams = {1}
  Checkers = {c1, c2}
  Collectors = {g1, g2}
  Nodes = {n1, n2}
  AnchorInterval = 1
  Second = 2
  StreamTTL = 2
  PageSize = 2
  MaxScanResults = 2
  Faults = TRUE
  MaxTime = 4
  None = None
SPECIFICATION Spec
CHECK_DEADLOCK FALSE
INVARIANTS
  MarkedIsAnchored
  TypeOK
  NotForgotten
  CollectedIsUnpinned
PROPERTIES
  ImplementsLedger
