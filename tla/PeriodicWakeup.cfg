CONSTANTS
  Beats = {b1, b2}
  Tokens = {t1, t2}
  NoToken = NoToken
  WorkersDie = TRUE
  RedisFails = TRUE
SPECIFICATION FairSpec
INVARIANTS TypeOK SingleFlight
PROPERTIES LeaseKeptWhileInFlight EveryLeaseEnds
CHECK_DEADLOCK FALSE
