SPECIFICATION FairSpec
CONSTANTS
  r1 = r1
  t1 = t1
  c1 = c1
  g1 = g1
  Result = {r1}
  Task = {t1}
  TaskOf <- MCTaskOf
  Reader = {c1}
  Purger = {g1}
  MaxCrashes = 1
CHECK_DEADLOCK FALSE
INVARIANTS
  PendingIsRecoverable
  AvailableIsPublished
PROPERTIES
  HoldIsKept
  ResultsSettleDown
  StagingIsCollected
