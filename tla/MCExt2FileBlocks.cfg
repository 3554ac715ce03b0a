SPECIFICATION Spec
CONSTANTS
  File = {1, 2}
  Existing = {1}
  Block = {1, 2, 3, 4}
  BS = 2
  NDirBlocks = 2
  Byte = {1, 2}
  WriteSizes = {2}
  ReadSizes = {2}
  Positions = {0, 2, 4}
  SeekAhead = 1
PROPERTY
  BlocksAreKept
