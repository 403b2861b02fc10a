SPECIFICATION FairSpec
CONSTANTS
  Readers = {r1}
  Words = {w1, w2}
  w1 = w1
  w2 = w2
  r1 = r1
  Retries = 2
  MaxPublish = 4
  MaxCrash = 1
INVARIANTS TornByNextOnly NotStale
PROPERTIES GoesBackByOneAtMost EventuallyFresh
CHECK_DEADLOCK FALSE
