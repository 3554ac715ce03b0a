SPECIFICATION PathSpec
CONSTANTS
  Dirs = {2, 3}
  Image <- MixedImage
  Char = {"/", ".", "a", "b", "d"}
  Paths <- MixedPaths
  NewInodes = {7, 8}
  NameLen = 3
  MaxDepth = 4
  MaxPathLen = 8
  MaxListed = 5
  Frames <- ManyFrames
  Buffers <- ManyBuffers
INVARIANTS
  FindsLongestPart
  FollowsBeginnings
  CreatedIsFound
PROPERTY
  CwdIsTheDirectory
