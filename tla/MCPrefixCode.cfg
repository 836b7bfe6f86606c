SPECIFICATION Spec
CONSTANTS
  MaxLength = 5
  RootBits = 3
  RevBits = 3
  CodeLengthBits = 3
  AlphabetSize = 7
  MaxSymbol = 6
  DefaultLength = 2
  RepeatBits = 1
  ZeroBits = 2
  CodeLengthOrder <- Order
  CodeLengthChoices <- SomeChoices
  MaxCodes = 2
CONSTRAINT SecondCode
INVARIANTS TypeOK TableDecodes
PROPERTIES CodesSpec SmallCodeIsAsRead
CHECK_DEADLOCK FALSE
