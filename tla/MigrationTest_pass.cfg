CONSTANTS
  Kinds = {"key", "unsigned"}
  WaitSecs = 4
  TestTimeout = 6
  StartBounds = {1, 5}
  AnchorBounds = {1, 2}
  MigrateBounds = {1, 2}
  Faults = {TRUE, FALSE}
SPECIFICATION Spec
CHECK_DEADLOCK FALSE
INVARIANTS
  TypeOK
  PassedIsMigrated
  LossIsNoticed
  WrittenBeforeMigration
  FailsForLoss
PROPERTIES
  DecidesTheMigration
  Ends
