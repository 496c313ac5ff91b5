\* Frames of every type and requests by route.
SPECIFICATION MsgSpec
CONSTANTS
  Openers <- MCOpeners
  Frames <- MCFrames
  MaxFrames = 2
  ChunkSizes = {3, 400}
  Asks <- MCAsks
  Handlers <- MCHandlers
INVARIANTS
  FramesIntact
  SizesAgree
  RequestsReachTheirRoute
  MetadataArrives
CHECK_DEADLOCK FALSE
