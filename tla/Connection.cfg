SPECIFICATION FairSpec
CONSTANTS
  Interval = 1
  Lifetime = 3
  MinRearm = 2
  Lag = 1
  Delay = 0
  Configs <- MCConfigs
  MaxRequests = 1
  MaxResumes = 1
INVARIANTS
  SetupAgreed
  CloseIsComplete
  KeepAliveSound
PROPERTY EventuallySettled
CHECK_DEADLOCK FALSE
