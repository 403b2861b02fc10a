SPECIFICATION PipeFairSpec
CONSTANTS
  QueueMax = 1
  PoolFrames = 5
  LoadMayFail = TRUE
PROPERTY StopReturns
CHECK_DEADLOCK FALSE
