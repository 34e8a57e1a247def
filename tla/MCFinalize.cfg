SPECIFICATION Spec
CONSTANTS
  Families <- MCFamilies
  Modes <- MCModes
  Inner = "k"
  MaxFields = 3
  MaxLayers = 3
  MaxLoops = 3
INVARIANTS
  TypeOK
  IndexIsInverse
  NothingDangles
  SameAnswer
  WritesHappen
