\* Three adjustments, two of them one request sent twice, beside an update, a
\* delete and a create, of a product that has no row at first.
SPECIFICATION Spec
CONSTANTS
  c1 = c1
  c2 = c2
  c3 = c3
  c4 = c4
  c5 = c5
  c6 = c6
  k1 = k1
  k2 = k2
  none = none
  Calls = {c1, c2, c3, c4, c5, c6}
  RequestOf <- Requested
  Keys = {k1, k2, none}
  RowExists = FALSE
  InitialStock = 0
  DefaultStock = 2
  MayFail = TRUE
INVARIANTS
  KeyMovesStockOnce
PROPERTIES
  AdjustsCurrentRow
CHECK_DEADLOCK FALSE
