SPECIFICATION NodeFairSpec
CONSTANTS
  m = m
  a = a
  b = b
  Nodes <- Instances
  NoNode = NoNode
  Campaigns <- Handled
INVARIANTS MarkerIsFlag
PROPERTIES TidyMainReturns MainYields
CHECK_DEADLOCK FALSE
