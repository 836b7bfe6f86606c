SPECIFICATION Spec
CONSTANTS
  BlockTypeCounts <- SomeBlockTypeCounts
  BlockLengths = {1, 2}
  OneTypeLength = 4
  LiteralContexts = 2
  LiteralMaps <- SomeLiteralMaps
  DistanceMaps <- SomeDistanceMaps
  MetablockLengths = {4}
  InsertLengths = {0, 3}
  CopyLengths = {2, 5}
  WordLengths = {5}
  WordBytes = {0, 1}
  Distances = {1, 17}
  ShortCodes = {0, 1, 5, 14}
  MaxBackward = 4
  MaxAllowed = 16
  RingSize = 6
  MaxMetablocks = 2
  MaxEmptyWords = 1
INVARIANTS TypeOK TreesAreOfBlocks OneTypeLasts
PROPERTY DistancesSpec
