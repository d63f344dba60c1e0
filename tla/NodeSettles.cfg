CONSTANTS
  Sessions = {s1, s2}
  NoSession = NoSession
  Grace = 1
  MaxClock = 1
  MaxQueue = 1
  MaxFaults = 0
SPECIFICATION FairSpec
PROPERTIES LiveNodeSettles
CHECK_DEADLOCK FALSE
