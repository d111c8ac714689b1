CONSTANTS
  Threads = {t1}
  Bins = {b1}
  Courses = {4}
  Sizes = {1, 3}
  Alignments = {4}
  BlockSizes = {2, 4, 8, 16}
  Start = 16
  Top = 32
  ReallocMax = 4
  Stride = 2
SPECIFICATION Spec
CHECK_DEADLOCK FALSE
INVARIANT ContentsKept
