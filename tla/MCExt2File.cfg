SPECIFICATION Spec
CONSTANTS
  File = {1, 2}
  Existing = {1}
  Block = {1, 2, 3}
  BS = 2
  NDirBlocks = 2
  Byte = {1, 2}
  WriteSizes = {1, 2, 3}
  ReadSizes = {2}
  Positions = {0, 1, 2, 3, 4}
  SeekAhead = 1
INVARIANTS
  TypeOK
  ReadYourWrites
  WriteIsDurable
  BufferIsBlock
  SizeFitsBlocks
PROPERTY
  OtherFilesUntouched
