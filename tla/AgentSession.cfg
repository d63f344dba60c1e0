\* Every class of command; two frames and one fault; a full channel loses a frame.
CONSTANTS
    Kinds = {"backup", "plain", "pathsize", "managed", "detached"}
    ResultAck = TRUE
    Capacity = 1
    MaxFrames = 2
    MaxFaults = 1
SPECIFICATION FairSessionSpec
INVARIANTS TypeOK AtMostOneRun CancelReachesEngine ConvergedResult
PROPERTIES EventuallyReported EventuallyFinished
