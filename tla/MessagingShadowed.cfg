\* A request that names two routes, the first registered for another type.
SPECIFICATION MsgSpec
CONSTANTS
  Openers <- MCOpeners
  Frames <- MCFrames
  MaxFrames = 2
  ChunkSizes = {400}
  Asks <- MCAsks
  Handlers <- MCHandlers
INVARIANT NotFoundIsTrue
CHECK_DEADLOCK FALSE
