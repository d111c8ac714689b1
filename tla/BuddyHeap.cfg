SPECIFICATION FairSpec
CONSTANTS
  Threads = {t1, t2}
  NoThread = NoThread
  OVERHEAD = 8
  PAGE_SIZE = 64
  Sizes = {16, 32, 64, 128}
  Queries = {8, 9, 57}
  Bumps = {32}
  HeapLimit = 192
CHECK_DEADLOCK FALSE
INVARIANTS
  TypeOK
  BlocksApart
  HeldBlocksOffList
  MutualExclusion
  PagesTiled
  Coalesced
  NothingLost
PROPERTIES
  KeepsPromise
  HeldBlocksUntouched
  LockReleased
