SPECIFICATION Spec
CONSTANTS
  NumSlots = 2
  Lba = {0, 1}
  ReadSpan = 2
  Data = {"a", "b"}
  SpinLimit = 2
  MaxErrors = 2
INVARIANTS
  SuccessMeansTransferred
  ExecutesTheRequest
PROPERTY
  RequestsReturn
