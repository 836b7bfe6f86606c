SPECIFICATION Spec
CONSTANTS
  WindowSize = 8
  WindowGap = 2
  Guess = 2
  MinRing = 4
  Slack = 4
  BlockLengths = {0, 3, 8}
  InsertLengths = {0, 2}
  CopyLengths = {1, 3, 5}
  WordLengths = {3}
  DictionarySizes = {0, 2, 9}
  OutputSizes = {0, 3}
  Everything = 12
  MaxTotal = 14
INVARIANTS TypeOK UnwrittenIntact WindowIntact ContextIntact WritesInBounds ResultIsHonest
PROPERTY StreamSpec
