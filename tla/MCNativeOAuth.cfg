SPECIFICATION FairSpec
CONSTANTS
  l1 = l1
  r1 = r1
  g0 = g0
  p1 = p1
  p2 = p2
  Logins = {l1}
  Refreshers = {r1}
  OldGens = {g0}
  Foreign = {otherMode}
  Paths = {p1, p2}
  Targets = {t1, t2}
  PathOf <- TwoPaths
  NoGen = NoGen
  NoEntry = NoEntry
  NoJournal = NoJournal
  Free = Free
  MaxToken = 1
  MaxFaults = 2
  MaxEdits = 1
INVARIANTS Recoverable FilesAgree NewestTokenKept
PROPERTIES SuccessIsDurable LoginsSettle
CHECK_DEADLOCK FALSE
