SPECIFICATION FairSpec
CONSTANTS
  Values = {v1, v2}
  Layout <- FiveRegions
  Stack = 4
  ContextSize = 3
  Root = FALSE
  Nobody = Nobody
  NoImage = NoImage
CHECK_DEADLOCK FALSE
INVARIANTS
  ReaderInStep
  RestoredNeverWrites
PROPERTIES
  ImageKept
  CallsEnd
  KeepsPromise
