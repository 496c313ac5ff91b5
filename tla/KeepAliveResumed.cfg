SPECIFICATION FairSpec
CONSTANTS
  Interval = 1
  Lifetime = 3
  MinRearm = 2
  Lag = 1
  Delay = 0
  Configs <- MCResuming
  MaxRequests = 0
  MaxResumes = 1
PROPERTY DeadLinkCloses
CHECK_DEADLOCK FALSE
