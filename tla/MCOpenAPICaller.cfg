SPECIFICATION Spec
CONSTANTS
  Commands = {p1, p2}
  Accounts = {a, b}
  Users = {u}
  Kinds <- MCKinds
  NoKey = NoKey
  Nobody = Nobody
  MaxAttempts = 2
  MaxCalls = 2
  MaxTime = 2
  MaxEdits = 1
  MaxKills = 1
SYMMETRY CallerSymmetry
INVARIANTS Signing WrittenOnce
CHECK_DEADLOCK FALSE
