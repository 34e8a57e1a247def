SPECIFICATION Spec
CONSTANTS
  NULL = NULL
  MaxLayers = 4
  Permits = 2
  Operations <- EarlyOps
  EarlyCancel = TRUE
INVARIANT CancelledLeavesNothing
