SPECIFICATION Spec
CONSTANTS
  Releases <- MCReleases
  Base <- Legacy
  MaxFailures = 1
  MaxDamage = 1
  Commands = {c1}
  MaxFaults = 1
  MaxTrouble = 2
  MaxRuns = 1
INVARIANT InstallsThePublished
PROPERTIES LagIsHarmless NothingGoesBack
CHECK_DEADLOCK FALSE
