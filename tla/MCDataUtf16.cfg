SPECIFICATION MCSpec
CONSTANTS
  Parts = {"Convert"}
  Writers = {"w1", "w2"}
  Process <- Itself
  Concurrent = FALSE
  MaxTries = 2
  MaxCalls = 3
  MaxCrashes = 1
INVARIANT TruncatesToLength
CHECK_DEADLOCK FALSE
