SPECIFICATION Spec
CONSTANTS
  Threads = {t1}
  NoThread = NoThread
  OVERHEAD = 8
  PAGE_SIZE = 64
  Sizes = {16, 32, 64, 128}
  Queries = {8, 9, 56}
  Bumps = {}
  HeapLimit = 192
CHECK_DEADLOCK FALSE
INVARIANT FreeNeverFaults
