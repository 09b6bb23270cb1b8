CONSTANTS
  Kinds = {"key", "unsigned"}
  WaitSecs = 4
  TestTimeout = 6
  StartBounds = {5}
  AnchorBounds = {2}
  MigrateBounds = {2}
  Faults = {TRUE}
SPECIFICATION Spec
CHECK_DEADLOCK FALSE
INVARIANTS
  ChangeMeansMigrated
