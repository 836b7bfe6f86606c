SPECIFICATION Spec
CONSTANTS
  WindowSize = 16
  WindowGap = 3
  Guess = 3
  MinRing = 8
  Slack = 6
  BlockLengths = {4}
  InsertLengths = {0, 1}
  CopyLengths = {1}
  WordLengths = {3}
  DictionarySizes = {4}
  OutputSizes = {0, 3}
  Everything = 12
  MaxTotal = 8
INVARIANT GuessIsIrrelevant
