SPECIFICATION MCFairSpec
CONSTANTS
  ThreadsN = 2
  Nodes = {1, 2, 3}
  NoNode = 0
  ToSkip = 1
  Rounds <- TwoAndOne
  Workers = {"w1", "w2", "w3"}
  Writers = {"p1"}
  WriteCnt = 1
  EndPos = 1
  EagerWorkers = {"w1", "w2"}
  EagerWriters = {"p1", "p2"}
  EagerWriteCnt = 1
  EagerEndPos = 2
  RoundsTillSleepy = 1
  RoundsTillAsleep = 3
  StealThreads = {1, 2, 3}
  StealSize = 2
  StealItems = {1, 2, 3, 4}
  StealRoots = {1}
  StealChildren <- SplitInFour
  NoItem = 0
INVARIANTS EpochHolds WaitersHold StealingHolds
PROPERTY SyncFinishes
CHECK_DEADLOCK FALSE
