SPECIFICATION Spec
CONSTANTS
  PAGE_SIZE = 46
  Keys = {1, 2}
  Records <- MCRecords
  Rows <- MCRows
  HeadsAlone = TRUE
  MaxPages = 4
INVARIANTS Layout RowsKept RefusedForSize
CHECK_DEADLOCK FALSE
