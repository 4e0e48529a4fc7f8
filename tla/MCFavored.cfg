SPECIFICATION FairSpec
CONSTANTS
  MapSize = 2
  None = None
  Lens = {1, 2}
  Times = {1}
  MaxItems = 3
  MaxCycled = 2
  Seeds = 2
  MaxLevel = 1
  CalChances = 2
  SkipAbove = 1
  StartSchedules = {"explore", "fast"}
  DisableRedundant = {TRUE, FALSE}
  CycleSchedules = {TRUE, FALSE}
INVARIANTS RefsExact WinnerIsCheapest PendingExact
PROPERTIES CullCovers SmallestGetsFuzzed
