\* Two commands on a file with two profiles.
SPECIFICATION FairSpec
CONSTANTS
  Commands = {c1, c2}
  Profiles = {default, work}
  Default = default
  None = None
  NoFile = NoFile
  NoProfile = NoProfile
  Free = Free
  MaxFaults = 1
  MaxEdits = 1
INVARIANTS ModeTellsCredentials
PROPERTIES NoLostUpdate LoginMerges SavesEnd
CHECK_DEADLOCK FALSE
