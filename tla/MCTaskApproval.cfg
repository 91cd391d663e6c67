SPECIFICATION Spec
CONSTANTS
  root = root
  child = child
  NoTask = NoTask
  Task <- JustRoot
  Parent <- RootParent
  Approved <- Nothing
  Product = {p1}
  PolicyTtl = 1
  Window = 1
  MaxAttempts = 2
  MaxTime = 2
  MaxRestarts = 1
INVARIANT AckMeansApplied
 
CHECK_DEADLOCK FALSE
