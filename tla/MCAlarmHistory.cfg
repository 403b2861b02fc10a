SPECIFICATION FairSpec
CONSTANTS
  Monitors = {m1, m2}
  Limit = 2
  TableRows = 2
  Room = 1
  MaxAsked = 1
  MaxAlarms = 3
  MaxCommit = 3
INVARIANTS OwnAnswersLeaveNoGap DuplicatesHaveCause LatestIsShown
PROPERTIES AlarmsArrive
CHECK_DEADLOCK FALSE
