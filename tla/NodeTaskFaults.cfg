\* Workers die between two steps and timed-out backups are reattached; fair sweeps.
CONSTANTS
    Worker = {w1, w2}
    NoWorker = NoWorker
    Kinds = {"backup", "plain", "managed"}
    MaxAttempts = 2
    Capacity = 2
    SingleFlight = TRUE
    WorkersCrash = TRUE
    BackupReattach = TRUE
SPECIFICATION FairSpec
INVARIANTS OneFramePerAttempt
PROPERTIES AcceptedNotRedelivered PendingEnds
