SPECIFICATION MCFairSpec
CONSTANTS
  Writers = {"w1", "w2"}
  Reader = "r"
  Puts = 3
  Nobody = "nobody"
  Parts = {"Mpsc", "Poll", "Mpmc", "Helping", "Old", "OldBoth"}
  PollPuts = 3
  PollSize = 2
  PollModulus = 4
  PollTries = 2
  IdleFlush = FALSE
  MpmcNodes = {1, 2, 3}
  MpmcPushes <- OneWriter
  MpmcPops <- TwoReaders
INVARIANTS TypeOK WaitsForASignal PollHolds MpmcHolds
PROPERTIES IsAChannel QueuesMove
CHECK_DEADLOCK FALSE
