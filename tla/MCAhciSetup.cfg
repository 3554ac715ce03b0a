SPECIFICATION Spec
CONSTANTS
  MaxBus = 2
  MaxDevice = 1
  MaxFunction = 2
  MaxDevices = 6
  Topologies <- MCValid
  Entries = 2
  P2Tables = 2
  P1Tables = 2
  BarPages = {4, 7}
  GarbagePages = {0, 5}
INVARIANTS
  FindsEveryFunction
  ControllerIsReady
PROPERTY
  SetupCompletes
