\* An application that issues a fire-and-forget when close fails a request.
SPECIFICATION MuxSpec
CONSTANTS
  f1 = f1
  f2 = f2
  s1 = s1
  s2 = s2
  s3 = s3
  s4 = s4
  Requests = {f1, s1, s2}
  Fnf = {f1}
  ReenterFrom = {"close"}
  MaxChunk = 1
INVARIANT FnfCompletedWasSent
\* The connection may be closed with everything settled: the system may stop.
CHECK_DEADLOCK FALSE
