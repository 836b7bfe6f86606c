SPECIFICATION Spec
CONSTANTS
  Operations <- MCOperations
  StreamLength = 16
  ChunkLengths = {0, 1, 3, 15}
  CommandInput = 15
  FastBits = 63
INVARIANTS TypeOK NextBytesInOrder ConsumedIsKept ExactConsumption SwitchHoldsLessThanAByte CursorInSlice BufferAssertion FastLoadsAreSound
PROPERTIES RetryKeepsBits CallMakesProgress
CHECK_DEADLOCK FALSE
