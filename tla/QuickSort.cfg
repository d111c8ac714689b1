CONSTANTS
  Names <- FourNames
  Length = 5
SPECIFICATION Spec
CHECK_DEADLOCK FALSE
INVARIANTS
  InPart
  PivotsPlaced
  Sorted
PROPERTIES
  Terminates
