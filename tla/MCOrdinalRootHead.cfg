SPECIFICATION FairSpec
CONSTANTS
  root = root
  child = child
  q1 = q1
  q2 = q2
  q3 = q3
  f1 = f1
  f2 = f2
  f3 = f3
  o1 = o1
  o2 = o2
  o3 = o3
  Dim <- MCDim
  Fact = {f1, f2, f3}
  Observation = {o1, o2, o3}
  FactsOf <- MCFactsOf
  Query = {q1, q2, q3}
  Task = {root, child}
  TaskOf <- MCTaskOf
  RootLimit <- MCRootLimit
  TaskLimit <- MCTaskLimit
  MaxAttempts = 2
CHECK_DEADLOCK FALSE
INVARIANTS
  EpochCovers
  LostRaceIsProgress
  FactsChargedOnce
PROPERTIES
  RefinesFamily
  FinalizationEnds
