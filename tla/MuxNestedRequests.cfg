\* An application that issues requests when a fire-and-forget completes.
SPECIFICATION MuxSpec
CONSTANTS
  f1 = f1
  f2 = f2
  s1 = s1
  s2 = s2
  s3 = s3
  s4 = s4
  Requests = {f1, s1, s2, s3}
  Fnf = {f1}
  ReenterFrom = {"fnf"}
  MaxChunk = 1
INVARIANT OwnResponseOnly
\* The connection may be closed with everything settled: the system may stop.
CHECK_DEADLOCK FALSE
