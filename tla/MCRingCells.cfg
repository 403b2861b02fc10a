SPECIFICATION PipeSpec
CONSTANTS
  QueueMax = 1
  PoolFrames = 5
  LoadMayFail = FALSE
INVARIANT NoDanglingCell
CHECK_DEADLOCK FALSE
