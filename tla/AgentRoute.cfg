CONSTANTS
  Sessions = {s1, s2}
  NoSession = NoSession
  Instances = {i1, i2}
  NoInstance = NoInstance
  MaxFaults = 1
SPECIFICATION FairSpec
INVARIANTS TypeOK AckedMeansApplied
PROPERTIES RouteFenced ResultGetsThrough
