SPECIFICATION Spec
CONSTANTS
  Threads = {t1, t2, t3}
  NoThread = NoThread
  ChildThread = ChildThread
  CORE_COUNT = 2
  Temp = Temp
  NoArena = NoArena
  OVERHEAD = 24
  PAGE_SIZE = 64
  Sizes = {16, 32, 64, 128}
  Queries = {8, 40}
  ListBytes = 8
  MapLimit = 192
SYMMETRY ThreadSymmetry
CHECK_DEADLOCK FALSE
INVARIANTS
  TypeOK
  OneOwner
  ArenaExclusion
  UsedInAll
  Balanced
  SomeoneMoves
PROPERTIES
  KeepsPromise
  ForkQuiescent
