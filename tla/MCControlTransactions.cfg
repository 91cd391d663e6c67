SPECIFICATION FairSpec
CONSTANTS
  Scenarios <- MCScenarios
INVARIANTS
  ChainVerifies
  
  CutoverIsClean
  TerminalOnceWithReceipt
  ProofsVerify
  AlarmIsStaleHead
PROPERTIES
  SettlementsEnd
