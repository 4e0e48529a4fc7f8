CONSTANTS
  Entries = {q1, q2, q3}
  NoEntry = NoEntry
  Seeds = {q1}
  Lens = {1, 2, 4}
  MaxSize = 7
  MaxEntries = 4
  Slack = 1
  U32 = 16
  U64 = 256
  MaxTrims = 2
SPECIFICATION FairSpec
INVARIANTS SlotsAgree InBufValid CachedIsFile
PROPERTIES LoadsWithinLimit GetReturns
