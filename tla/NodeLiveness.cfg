CONSTANTS
  Sessions = {s1, s2}
  NoSession = NoSession
  Grace = 1
  MaxClock = 2
  MaxQueue = 1
  MaxFaults = 1
SPECIFICATION Spec
INVARIANTS TypeOK EvidenceOfSession
PROPERTIES OfflineOnlyWhenSilent ObservationsInOrder
CONSTRAINT Bounded
CHECK_DEADLOCK FALSE
