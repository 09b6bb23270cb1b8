CONSTANTS
  Nodes = {1, 2, 3}
  Others = {cas}
  Tries = 2
  FaultSets = {{}, {"late"}, {"late", "unreadable"}, {"slow"}, {"refused"}}
SPECIFICATION FairSpec
CHECK_DEADLOCK FALSE
INVARIANTS
  TypeOK
  PassedIsThorough
PROPERTIES
  NoWriteAfterAnchor
  ImplementsStream
  Concludes
