SPECIFICATION FairSpec
CONSTANTS
  Binaries = {b1, b2}
  None = None
  Seeds = 2
  Tags = {0, 1}
  MaxEntries = 3
  MaxKills = 2
INVARIANTS
  EntriesSurvive
  OneEntryPerId
  RecordsMatch
PROPERTY
  Resumes
