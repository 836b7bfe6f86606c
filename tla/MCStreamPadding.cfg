SPECIFICATION Spec
CONSTANTS
  Operations <- MCOperations
  StreamLength = 3
  ChunkLengths = {0, 1, 3}
  CommandInput = 15
  FastBits = 63
PROPERTY PaddingIsVerified
CHECK_DEADLOCK FALSE
