SPECIFICATION NodeFairSpec
CONSTANTS
  m = m
  a = a
  b = b
  Nodes <- Instances
  NoNode = NoNode
  Campaigns <- OnlyFresh
PROPERTY MainReturns
CHECK_DEADLOCK FALSE
