\* Two directories and two slots, a cancel, one fault; no retry request.
CONSTANTS
    NDirs = 2
    Slots = 2
    Requests = {}
    MaxFaults = 1
SPECIFICATION FairSpec
INVARIANTS SuccessMeansAvailable
PROPERTIES BackupSettles
