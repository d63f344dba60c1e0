\* A managed restore with its cancellation, and a backup that is delivered twice.
CONSTANTS
    Worker = {w1}
    NoWorker = NoWorker
    Kinds = {"managed", "backup"}
    MaxAttempts = 2
    Capacity = 2
    SingleFlight = TRUE
    WorkersCrash = FALSE
    BackupReattach = FALSE
    ResultAck = TRUE
    MaxFaults = 1
SPECIFICATION ProtocolSpec
INVARIANTS StopEvidenceSound
PROPERTIES KeepsOutcome AckedMeansDecided
CHECK_DEADLOCK FALSE
CONSTRAINT Bounded
