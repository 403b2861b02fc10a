SPECIFICATION Spec
CONSTANTS
  Records = {r1, r2}
  Alarms = {r2}
  NoRecord = NoRecord
  Flushers = {f1, f2}
  MaxSync = 1
  MaxCrash = 1
INVARIANTS NoneRefused
CHECK_DEADLOCK FALSE
