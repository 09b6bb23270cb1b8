CONSTANTS
  d1 = d1
  d2 = d2
  key1 = key1
  key2 = key2
  OperatorKey = operatorKey
  pre = pre
  post = post
  None = None
  Drivers <- MCDrivers
  Keys <- MCKeys
  Key <- MCKey
  Specs <- MCSpecs
  Spec0 <- MCSpec0
  Spec1 <- MCSpec1
  Names = {sim1}
  Flavors = {"correctness"}
  Sequential = FALSE
  MaxCleanups = 0
SPECIFICATION Spec
CHECK_DEADLOCK FALSE
PROPERTIES
  SecretKept
