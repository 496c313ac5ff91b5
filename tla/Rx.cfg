SPECIFICATION Spec
CONSTANT Cases <- MCCases
INVARIANTS
  RxDelivery
  DemandConserved
PROPERTY Settles
CHECK_DEADLOCK FALSE
