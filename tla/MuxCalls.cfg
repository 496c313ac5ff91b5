\* Chunks of up to two frames, an application that issues, cancels and closes
\* from every callback but the onComplete of a fire-and-forget.
SPECIFICATION MuxSpec
CONSTANTS
  f1 = f1
  f2 = f2
  s1 = s1
  s2 = s2
  s3 = s3
  s4 = s4
  Requests = {f1, f2, s1, s2, s3, s4}
  Fnf = {f1, f2}
  ReenterFrom = {"response", "reject", "close"}
  MaxChunk = 2
SYMMETRY Symmetry
INVARIANTS
  MuxTypeOK
  IdsIncrease
  ResponsesReachTheirRequest
PROPERTY OutcomesAreTrue
\* Every request may be settled and the connection closed: the system may stop.
CHECK_DEADLOCK FALSE
