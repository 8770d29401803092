SPECIFICATION FairSpec
CONSTANTS
  Callers = {c1}
  HealthThreshold = 2
INVARIANTS
  DeadIsDead
  EndRecorded
  BlobPersisted
PROPERTIES
  ExitBeforeStop
  
CHECK_DEADLOCK FALSE
