\* An application that closes the connection when a response arrives, with the
\* response of another request in the same chunk.
SPECIFICATION MuxSpec
CONSTANTS
  f1 = f1
  f2 = f2
  s1 = s1
  s2 = s2
  s3 = s3
  s4 = s4
  Requests = {s1, s2, s3}
  Fnf = {}
  ReenterFrom = {"response"}
  MaxChunk = 2
INVARIANT OneTerminalSignal
\* The connection may be closed with everything settled: the system may stop.
CHECK_DEADLOCK FALSE
