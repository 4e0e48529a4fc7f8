SPECIFICATION SyncFairSpec
CONSTANTS
  x = x
  y = y
  z = z
  Cases <- Three
  Settings <- OnlyRestarted
PROPERTY RestartNoticed
