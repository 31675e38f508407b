\* Two commands, three releases, a day and a half: a tick is half of the day
\* between two checks, and the backoff after a failure is one tick.
SPECIFICATION CheckSpec
CONSTANTS
  Checkers = {c1, c2}
  LastRelease = 3
  autoCheckInterval = 2
  failureBackoff = 1
  MaxClock = 3
  MaxSteps = 1
PROPERTIES CacheIsKept ResolvesRarely ChecksEnd
