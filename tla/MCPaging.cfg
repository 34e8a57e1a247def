SPECIFICATION Spec
CONSTANTS
  NULL = NULL
  TextColumns = {"a"}
  ColumnTypes = {"a"}
  Rows <- MCRows
  Tables <- MCTables
  Shapes <- MCShapes
  Sizes = {1, 2, NULL}
  MaxChanges = 1
  MaxRequests = 4
INVARIANTS
  EntriesIndependent
  MoreIsHonest
  TotalsAgree
  SeesStableRows
  InOrder
  CursorsOfTheirOrder
CHECK_DEADLOCK FALSE
