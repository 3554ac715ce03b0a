SPECIFICATION Spec
CONSTANTS
  NumGroups = 2
  InodesPerGroup = 3
  BlocksPerGroup = 2
  CountMax16 = 15
  CountMax32 = 31
  MaxFaults = 1
  MaxCrashes = 1
INVARIANTS
  TypeOK
  NoDoubleAllocation
  DescriptorsCoverBitmaps
  SuperblockCoversDescriptors
  DriftBoundedByCrashes
PROPERTY
  CountersOnlyFall
