SPECIFICATION Spec
CONSTANTS
  PAGE_SIZE = 46
  Keys = {1, 2}
  Records <- MCRecords
  Rows <- MCRows
  HeadsAlone = FALSE
  MaxPages = 4
INVARIANT RowsKept
CHECK_DEADLOCK FALSE
