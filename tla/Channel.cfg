\* Two items one way and one the other; payloads of one frame and of two.
SPECIFICATION FairSpec
CONSTANTS
  RequesterDemand = 2
  ResponderDemand = 1
  MaxDemand <- MCMaxDemand
  Fragmented = {FALSE, TRUE}
INVARIANTS
  TypeOK
  ApplicationContract
  RegistryAgrees
  DemandConserved
PROPERTIES
  EventuallyBothDone
\* A channel ends: the system may stop.
CHECK_DEADLOCK FALSE
