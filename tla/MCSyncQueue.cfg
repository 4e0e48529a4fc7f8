SPECIFICATION SyncFairSpec
CONSTANTS
  x = x
  y = y
  z = z
  Cases <- Three
  Settings <- Handled
INVARIANTS SteadyLookedAt
PROPERTIES SteadyImportsAll CatchesUp
