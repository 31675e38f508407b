SPECIFICATION FairSpec
CONSTANTS
  u0 = u0
  u1 = u1
  u2 = u2
  Updaters <- MCUpdaters
  Gone <- MCGone
  Target <- MCTarget
  First = 1
  Other = 4
  Nobody = Nobody
  Torn = Torn
  NoLock = NoLock
  NoStatus = NoStatus
  Free = Free
  MaxFaults = 1
  MaxEdits = 1
INVARIANTS NoDowngrade
PROPERTIES ReplacesSeen UpdatesEnd
CHECK_DEADLOCK FALSE
