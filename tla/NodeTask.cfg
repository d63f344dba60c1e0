\* Two workers, two attempts, no worker crash, no reattachment of timed-out backups.
CONSTANTS
    Worker = {w1, w2}
    NoWorker = NoWorker
    Kinds = {"backup", "probe", "plain", "managed", "lifecycle"}
    MaxAttempts = 2
    Capacity = 3
    SingleFlight = TRUE
    WorkersCrash = FALSE
    BackupReattach = FALSE
SYMMETRY WorkerSymmetry
SPECIFICATION Spec
INVARIANTS TypeOK AttemptsBounded CancelNotOvertaken
PROPERTIES DecidedIsFinal
