SPECIFICATION OutputSpec
CONSTANTS
  FullSize = 4
  Shows <- ThreeRows
  BufferHeights = {1, 2, 3}
  MaxPasses = 1
INVARIANT EndsAtTheBottom
CHECK_DEADLOCK FALSE
