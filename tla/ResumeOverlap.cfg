\* RESUME on a new connection may overtake frames of the old one.
SPECIFICATION Spec
CONSTANTS
  ClientFrames = 2
  ServerFrames = 1
  MaxFrames <- MCMaxFrames
  FramePos <- MCFramePos
  MaxConns = 3
  ServerKeepAlive = FALSE
  StaleConnections = TRUE
  TokenReuse = FALSE
INVARIANT DropToConsistent
\* A session may end closed, or wait for a handshake that was lost: it may stop.
CHECK_DEADLOCK FALSE
