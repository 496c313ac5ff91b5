SPECIFICATION FairSpec
CONSTANTS
  MaxDemand = 3
  Fragmented = {TRUE, FALSE}
INVARIANTS
  TypeOK
  ApplicationContract
  DemandConserved
  RegistryAgrees
PROPERTIES
  EventuallySettled
CHECK_DEADLOCK FALSE
