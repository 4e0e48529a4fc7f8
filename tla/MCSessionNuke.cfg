SPECIFICATION Spec
CONSTANTS
  Binaries = {b1, b2}
  None = None
  Seeds = 2
  Tags = {0, 1}
  MaxEntries = 3
  MaxKills = 2
INVARIANT ResumeDirComplete
