SPECIFICATION LiveSpec
CONSTANTS
  r1 = r1
  r2 = r2
  Resources <- MCResources
  None <- MCNone
  Operation <- MCAll
  MaxIds = 2
  MaxRuns = 2
  MaxOthers = 1
  MaxAttempts = 2
INVARIANTS OneEffect ResultTells SuccessIsReal
PROPERTIES CommandEnds
CHECK_DEADLOCK FALSE
