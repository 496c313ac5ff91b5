\* The session timer may fire before the client resumes.
SPECIFICATION FairSpec
CONSTANTS
  ClientFrames = 1
  ServerFrames = 1
  MaxFrames <- MCMaxFrames
  FramePos <- MCFramePos
  MaxConns = 2
  ServerKeepAlive = FALSE
  StaleConnections = FALSE
  TokenReuse = FALSE
PROPERTY ResumeOkOnlyIfLive
\* A session may end closed, or wait for a handshake that was lost: it may stop.
CHECK_DEADLOCK FALSE
