SPECIFICATION EngineSpec
CONSTANTS
  Capacity = 3
  Items = {a, b}
  NoItem = NoItem
  MaxPush = 5
  PoolSize = 3
  Allocators = {a1}
  Releasers = {t1, t2}
  QueueMax = 1
  PoolFrames = 5
  LoadMayFail = TRUE
  a = a
  b = b
  a1 = a1
  t1 = t1
  t2 = t2
INVARIANTS NoSlotRace OnePlace ListIsChain NothingLeaks NoDanglingFrame
PROPERTIES ImplementsFifo CommandsReturn StreamMeansInference
CHECK_DEADLOCK FALSE
