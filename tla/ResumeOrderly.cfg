\* Three connections, each lost at any time, also before RESUME_OK; the server sees
\* the old connection close before RESUME arrives.
SPECIFICATION FairSpec
CONSTANTS
  ClientFrames = 2
  ServerFrames = 2
  MaxFrames <- MCMaxFrames
  FramePos <- MCFramePos
  MaxConns = 3
  ServerKeepAlive = TRUE
  StaleConnections = FALSE
  TokenReuse = FALSE
INVARIANTS
  TypeOK
  Delivery
  SessionConsistent
PROPERTIES
  DeliversReliably
  EventuallyDelivered
\* A session may end closed, or wait for a handshake that was lost: it may stop.
CHECK_DEADLOCK FALSE
