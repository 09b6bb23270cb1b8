CONSTANTS
  d1 = d1
  d2 = d2
  key1 = key1
  key2 = key2
  OperatorKey = operatorKey
  pre = pre
  post = post
  None = None
  Drivers <- MCDrivers
  Keys <- MCKeys
  Key <- MCKey
  Specs <- MCSpecs
  Spec0 <- MCSpec0
  Spec1 <- MCSpec1
  Names = {sim1, sim2}
  Flavors = {"correctness", "migration", "perf"}
  Sequential = TRUE
  MaxCleanups = 2
SPECIFICATION FairSpec
CHECK_DEADLOCK FALSE
INVARIANTS
  TypeOK
  OwnVerdict
  AdminKeyAgrees
  OperatorFindsSecret
  JobHasDependencies
PROPERTIES
  SecretKept
  RunsEnd
