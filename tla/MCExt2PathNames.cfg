SPECIFICATION PathSpec
CONSTANTS
  Dirs = {2, 3}
  Image <- CoveredImage
  Char = {"/", ".", "a", "b", "d"}
  Paths <- CoveredPaths
  NewInodes = {7, 8}
  NameLen = 3
  MaxDepth = 4
  MaxPathLen = 8
  MaxListed = 5
  Frames <- ZeroFrames
  Buffers <- LeftBuffers
INVARIANT
  GetsLongestPart
