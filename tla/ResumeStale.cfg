\* RESUME may overtake the end of the old connection, and another client may use the same token.
SPECIFICATION Spec
CONSTANTS
  ClientFrames = 2
  ServerFrames = 1
  MaxFrames <- MCMaxFrames
  FramePos <- MCFramePos
  MaxConns = 3
  ServerKeepAlive = FALSE
  StaleConnections = TRUE
  TokenReuse = TRUE
INVARIANTS
  OneClientConnection
  GivenUpIsClosed
\* A session may end closed, or wait for a handshake that was lost: it may stop.
CHECK_DEADLOCK FALSE
