CONSTANTS
  N = 2
  Half = 1
  Scenarios = {"linear", "active", "half", "two nodes", "many models"}
  Faults = {{"foreign"}, {"slow", "foreign"}, {"slow", "refused"}, {"repeated"}}
  PageSize = 2
  MaxExtra = 1
SPECIFICATION Spec
CHECK_DEADLOCK FALSE
INVARIANTS
  TypeOK
  PassedIsSynced
  WaitMeansSynced
  FailsForCause
PROPERTIES
  Passes
  Ends
