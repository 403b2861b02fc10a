SPECIFICATION FairSpec
CONSTANTS
  Engines = {e1}
  Accesses = {}
  Monitors = {m1, m2}
  MaxFd = 3
  Commands = {"start", "stop", "engine", "access"}
  MaxSend <- SendsOf
  e1 = e1
  m1 = m1
  m2 = m2
INVARIANTS FdsTracked NoMissedEdge StaleEventsNeedMonitors MisdirectionNeedsDrop
PROPERTY PeersAreReaped
CHECK_DEADLOCK FALSE
