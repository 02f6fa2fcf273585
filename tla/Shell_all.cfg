CONSTANTS
  Scripts <- MCScripts
SPECIFICATION FairSpec
INVARIANTS
  Wired
  FedByOwn
  NextAfterLast
PROPERTIES
  Settles
CHECK_DEADLOCK FALSE
