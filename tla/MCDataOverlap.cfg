SPECIFICATION MCSpec
CONSTANTS
  Parts = {"AtomicFile"}
  Writers = {"w1", "w2"}
  Process <- Itself
  Concurrent = TRUE
  MaxTries = 2
  MaxCalls = 3
  MaxCrashes = 1
INVARIANT PathIsWhole
CHECK_DEADLOCK FALSE
