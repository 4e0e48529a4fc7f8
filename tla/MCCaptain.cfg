SPECIFICATION FairSpec
CONSTANTS
  NumJobs = 3
  Cpus = {c1, c2, c3}
  Workers <- OneOneTwo
  NoArchive = {TRUE, FALSE}
  Inodes = {1, 2, 3, 4, 5}
  NoInode = 0
  MaxId = 6
INVARIANTS OwnDirectories OwnCpus LocksGone
PROPERTY CampaignsEnd
