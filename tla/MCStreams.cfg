SPECIFICATION MCFairSpec
CONSTANTS
  Threads = {1, 2}
  Blocks = {1, 2, 3}
  MaxWrites = 2
INVARIANTS ChainIsTheStream SlicesHold SliceHolds FlowIsFaithful
PROPERTY StreamsMove
CHECK_DEADLOCK FALSE
