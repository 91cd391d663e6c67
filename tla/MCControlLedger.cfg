SPECIFICATION LedgerSpec
CONSTANTS
  t1 = t1
  r1 = r1
  r2 = r2
  r3 = r3
  Task = {t1}
  Request = {r1, r2, r3}
  TaskOf <- MCTaskOf
  Limit <- MCLimit
  RowUse <- MCUse
  TimeUse <- MCUse
SYMMETRY Symmetry
INVARIANTS
  ReservationIsLedger
  WithinHardLimit
  RecoveryNeverRefused
  UsedIsSumOfCharges
