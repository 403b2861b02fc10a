SPECIFICATION DogFairSpec
CONSTANTS
  BootOrder <- Boot
  MaxRestarts = 3
  Window = 6
  ReadyTimeout = 2
  Cooldown = 7
  ForkMayFail = TRUE
INVARIANTS TableIsExact RestartLimit
PROPERTIES EventuallyStarted ShutdownCompletes
CHECK_DEADLOCK FALSE
