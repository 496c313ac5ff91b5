\* Every request, cancel, lease and close, from an application that calls back
\* from every callback; at most 2 may wait.
SPECIFICATION FairLeaseSpec
CONSTANTS
  f1 = f1
  f2 = f2
  s1 = s1
  s2 = s2
  s3 = s3
  Requests = {f1, s1, s2}
  Fnf = {f1}
  ReenterFrom = {"fnf", "response", "reject", "close"}
  MaxChunk = 2
  MaxPending = 2
  LeaseCounts = {0, 1, 2}
  LeaseTtls = {0, 1}
INVARIANTS
  LeaseTypeOK
  LeaseAccounting
PROPERTIES
  QueueSound
  PendingProgress
\* The connection may be closed with everything settled: the system may stop.
CHECK_DEADLOCK FALSE
