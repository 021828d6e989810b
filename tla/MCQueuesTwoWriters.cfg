SPECIFICATION MCSpec
CONSTANTS
  Writers = {"w1", "w2"}
  Reader = "r"
  Puts = 3
  Nobody = "nobody"
  Parts = {"Mpmc"}
  PollPuts = 1
  PollSize = 2
  PollModulus = 4
  PollTries = 2
  IdleFlush = FALSE
  MpmcNodes = {1, 2, 3, 4}
  MpmcPushes <- TwoWriters
  MpmcPops <- OneReader
INVARIANT MpmcConserved
CHECK_DEADLOCK FALSE
