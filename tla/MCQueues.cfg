SPECIFICATION QueuesSpec
CONSTANTS
  Rtu = {rtu}
  Tcp = {tcp}
  Added = {tcp}
  MaxTimeouts = 2
  MaxReadings = 2
  QueueMax = 3
  BatchSize = 2
  MaxOffer = 5
  MaxCrash = 1
  SqlMayFail = TRUE
INVARIANTS SerialConsistent MixedNeedsLeftover InOrderOnce NoneForgotten StopDrains
PROPERTIES QueueDrains StopCompletes EventuallyStored
CHECK_DEADLOCK FALSE
