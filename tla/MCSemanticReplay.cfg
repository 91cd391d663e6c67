SPECIFICATION Spec
CONSTANTS
  scan = scan
  group = group
  Query = {1, 2, 3}
  Plan = {scan, group}
  Size <- MCSize
  Expanded = {group}
  RowLimit = 3
  InfluenceLimit = 2
INVARIANTS
  ReplayIsFaithful
  OnlyLiveRowsBlock
  CacheIsCommitted
PROPERTY
  ReservationsEnd
CHECK_DEADLOCK FALSE
