SPECIFICATION Spec
CONSTANTS
  Lines = {0, 1, 4, 12, 15}
  Masks <- MCMasks
  ScanCodes = {30, 158}
  Legend <- MCLegend
  MaxRetries = 3
  MaxNesting = 3
CHECK_DEADLOCK FALSE
INVARIANTS
  MasterFollowsStack
PROPERTIES
  NoFaultAfterBoot
  BootCompletes
  KeysAreServed
