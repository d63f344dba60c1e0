CONSTANTS
  Workers = {w1, w2}
  NFrames = 2
  TaskFrames = {1, 2}
  NoWorker = NoWorker
  MinDeliveries = 2
  BatchSize = 2
  MaxEntries = 3
  MaxFaults = 1
SPECIFICATION FairSpec
INVARIANTS TypeOK NothingStranded LatestFrameMarked
PROPERTIES KeepsFrames EntryLeavesQueue
CHECK_DEADLOCK FALSE
