SPECIFICATION MetaSpec
CONSTANTS
  NumGroups = 2
  InodesPerGroup = 4
  BlocksPerGroup = 4
  CountMax16 = 15
  CountMax32 = 31
  MaxFaults = 0
  MaxCrashes = 1
  NDirBlocks = 2
  MaxSubdirs = 2
  SeekAhead = 1
  StopOnError = TRUE
INVARIANTS
  MetaTypeOK
  LinkedInodesAreWhole
  BlocksAreExclusive
  CachedInodeIsCommitted
  LeaksAreAccountedFor
  DataWritesStayInFile
PROPERTY
  AllocatorIsImplemented
