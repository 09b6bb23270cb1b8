CONSTANTS
  TimeoutSeconds = 5
  MaxTimeout = 2
  MaxVersions = 5
  EarlyClose = TRUE
SPECIFICATION Spec
INVARIANTS
  NoPrematureTimeout
