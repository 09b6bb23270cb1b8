CONSTANTS
  TimeoutSeconds = 5
  MaxTimeout = 2
  MaxVersions = 5
  EarlyClose = FALSE
SPECIFICATION FairSpec
INVARIANTS
  TypeOK
  Budget
  NoMissedResult
  NoPrematureTimeout
PROPERTIES
  Termination
  ImplementsTimedWait
