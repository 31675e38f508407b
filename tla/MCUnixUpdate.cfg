SPECIFICATION Spec
CONSTANTS
  Updaters = {1, 2, 3}
  Target <- MCTarget
  First = 1
  Other = 9
  Missing = Missing
  Partial = Partial
  NoJournal = NoJournal
  Free = Free
  MaxFaults = 2
  MaxEdits = 1
INVARIANTS Settleable NoDowngrade
PROPERTIES ReportsHold
CHECK_DEADLOCK FALSE
