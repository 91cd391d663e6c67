SPECIFICATION FairSpec
CONSTANTS
  t1 = t1
  r1 = r1
  r2 = r2
  Task = {t1}
  Request = {r1, r2}
  TaskOf <- MCTaskOf
  Limit <- MCLimit
  RowUse <- MCUse
  TimeUse <- MCUse
  Ask <- MCAsk
  Observed <- MCObserved
INVARIANTS
  NoForeignOutcome
  RunOnceAndCharged
PROPERTIES
  LedgerSpec
  OwnedReservationIsSettled
  RetriesDrain
