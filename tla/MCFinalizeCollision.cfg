SPECIFICATION Spec
CONSTANTS
  Families <- MCCollidingFamilies
  Modes <- MCModes
  Inner = "c"
  MaxFields = 2
  MaxLayers = 3
  MaxLoops = 3
INVARIANT SameAnswer
