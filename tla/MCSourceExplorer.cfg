SPECIFICATION Spec
CONSTANTS
  HotLines <- ThreeLines
  Thresholds <- LowThresholds
  Unit = 10
  Sensitivity = 1
  Time <- AnyTime
  Failed = Failed
  NoExe = NoExe
INVARIANTS TypeOK MeasuredAsBuilt LocallyMinimal
PROPERTY Termination
CHECK_DEADLOCK FALSE
