SPECIFICATION DirSpec
CONSTANTS
  BlockSize = 4096
  MaxSubdirs = 8
  NameLengths = {1, 5, 60, 255}
  DiskImage <- MCImage
INVARIANTS
  ChainCoversBlock
  ListsWhatWasAdded
  NamesAreWhole
