SPECIFICATION Spec
CONSTANTS
  Records = {r1, r2, r3}
  Alarms = {r2}
  NoRecord = NoRecord
  Flushers = {f1, f2}
  MaxSync = 1
  MaxCrash = 2
INVARIANTS LossHasCause AlarmsFirst DuplicatesHaveCause BacklogDrains
CHECK_DEADLOCK FALSE
