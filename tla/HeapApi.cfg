CONSTANTS
  Threads = {t1, t2}
  Bins = {b1}
  Courses = {3, 4}
  Sizes = {1, 3}
  Alignments = {2, 4}
  BlockSizes = {2, 4, 8, 16}
  Start = 16
  Top = 32
  ReallocMax = 4
  Stride = 2
SYMMETRY Symmetry
SPECIFICATION Spec
CHECK_DEADLOCK FALSE
INVARIANTS
  TestPasses
  HeadersKept
  BinsInside
  ReallocKeeps
