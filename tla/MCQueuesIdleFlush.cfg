SPECIFICATION MCSpec
CONSTANTS
  Writers = {"w1", "w2"}
  Reader = "r"
  Puts = 3
  Nobody = "nobody"
  Parts = {"Poll"}
  PollPuts = 1
  PollSize = 2
  PollModulus = 4
  PollTries = 2
  IdleFlush = TRUE
  MpmcNodes = {1}
  MpmcPushes <- OneWriter
  MpmcPops <- TwoReaders
INVARIANT PollWaitsForASignal
CHECK_DEADLOCK FALSE
