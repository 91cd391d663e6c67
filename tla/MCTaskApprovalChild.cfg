SPECIFICATION Spec
CONSTANTS
  root = root
  child = child
  NoTask = NoTask
  Task <- Family
  Parent <- FamilyParent
  Approved <- RootOnly
  Product = {p1}
  PolicyTtl = 2
  Window = 1
  MaxAttempts = 1
  MaxTime = 2
  MaxRestarts = 0
INVARIANT GrantWithinFamily
INVARIANT LateChildNeverQueries
CHECK_DEADLOCK FALSE
