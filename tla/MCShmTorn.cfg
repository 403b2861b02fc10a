SPECIFICATION Spec
CONSTANTS
  Readers = {r1}
  Words = {w1, w2}
  w1 = w1
  w2 = w2
  r1 = r1
  Retries = 2
  MaxPublish = 2
  MaxCrash = 0
INVARIANT NeverTorn
CHECK_DEADLOCK FALSE
