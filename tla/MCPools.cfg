SPECIFICATION MCFairSpec
CONSTANTS
  Readers = {1, 2}
  Words = {1, 2}
  MaxWrites = 3
  PoolThreads = {1, 2}
  Creators = {1}
  Storages = {1, 2}
  MaxObjects = 3
  LocalThreads = {1, 2}
  MaxThreadId = 3
  Slots = {1, 2}
  MaxStarts = 4
  Nodes = {1, 2, 3}
  Owner <- MCOwner
  Sources = {1, 2}
  Tokens = {1, 2}
  MaxRaws = 3
  PtrThreads = {1, 2, 3}
  Pool = 1
  Raws = {1, 2, 3}
  MaxAllocs = 3
INVARIANTS ReadIsOneWrite ObjectsHold SharedHold MapHolds LocalsHold LinksHold
PROPERTY PoolsMove
CHECK_DEADLOCK FALSE
