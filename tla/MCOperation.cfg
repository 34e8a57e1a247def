SPECIFICATION Spec
CONSTANTS
  NULL = NULL
  MaxLayers = 4
  Permits = 2
  Operations <- MCOperations
  EarlyCancel = FALSE
INVARIANTS
  TypeOK
  EntriesAlone
  NothingLeftOpen
PROPERTY
  AlwaysAnswers
