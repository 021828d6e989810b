SPECIFICATION MCFairSpec
CONSTANTS
  Parts = {"Orders", "Data", "Json", "Tl", "Convert", "Logs", "Lock", "AtomicFile", "Dirs"}
  Writers = {"w1", "w2"}
  Process <- Itself
  Concurrent = FALSE
  MaxTries = 2
  MaxCalls = 2
  MaxCrashes = 1
INVARIANTS OrdersHold ContainersHold ReadsWhatIsWritten TextsAreExact NumbersAgree FilesHold TreesHold
PROPERTIES FilesMove AtomicWrite
CHECK_DEADLOCK FALSE
