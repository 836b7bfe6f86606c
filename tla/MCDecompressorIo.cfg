SPECIFICATION Spec
CONSTANTS
  StreamLengths = {1, 4}
  SourceLengths = {1, 2, 5}
  OutputLengths = {0, 3}
  BufferSizes = {1, 3}
  CallSizes = {0, 1, 2}
  NearEnd = 2
INVARIANTS TypeOK InputInOrder InvalidIsHonest EndIsHonest NothingTwice PanicsOnlyWhenTold
PROPERTIES StreamSpec CallsReturn OutputArrives
CHECK_DEADLOCK FALSE
