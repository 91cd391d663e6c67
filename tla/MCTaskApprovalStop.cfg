SPECIFICATION Spec
CONSTANTS
  root = root
  child = child
  NoTask = NoTask
  Task <- Family
  Parent <- FamilyParent
  Approved <- RootOnly
  Product = {p1}
  PolicyTtl = 2
  Window = 1
  MaxAttempts = 1
  MaxTime = 1
  MaxRestarts = 0
PROPERTY StopBlocksDescendants
CHECK_DEADLOCK FALSE
