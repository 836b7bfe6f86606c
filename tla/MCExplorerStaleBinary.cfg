SPECIFICATION Spec
CONSTANTS
  HotLines <- ThreeLines
  Thresholds <- FineThresholds
  Unit = 100
  Sensitivity = 1
  Time <- ExactTime
  Failed = Failed
  NoExe = NoExe
INVARIANT BinaryGenerated
CHECK_DEADLOCK FALSE
