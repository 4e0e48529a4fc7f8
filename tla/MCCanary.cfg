CONSTANTS
  Bugs = {b1, b2}
  NoBug = NoBug
  BUFFERLEN = 2
  FATAL = FALSE
  MaxHits = 1
  MaxPolls = 2
SPECIFICATION FairSpec
INVARIANTS TypeOK PollsMonotone TriggeredWasReached
PROPERTIES PublishedWhole SnapshotStable PollsKept CountsReachPolls
