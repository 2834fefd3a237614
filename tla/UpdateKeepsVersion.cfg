\* An adjustment beside an update, of a row that is there; nothing fails.
SPECIFICATION Spec
CONSTANTS
  c1 = c1
  c2 = c2
  c3 = c3
  c4 = c4
  c5 = c5
  c6 = c6
  k1 = k1
  k2 = k2
  none = none
  Calls = {c1, c4}
  RequestOf <- Requested
  Keys = {k1, k2, none}
  RowExists = TRUE
  InitialStock = 2
  DefaultStock = 2
  MayFail = FALSE
PROPERTIES
  VersionGrows
CHECK_DEADLOCK FALSE
