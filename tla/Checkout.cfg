\* Two items, one press of the button, three attempts repeated.
SPECIFICATION FairSpec
CONSTANTS
  Items = {i1, i2}
  MaxAttempts = 2
  MaxPolls = 2
  MaxPresses = 1
  MaxRetries = 3
INVARIANTS
  OrderedOnce
  OneOpenOrder
PROPERTIES
  CartKeepsUnpaid
  PurchaseEnds
CHECK_DEADLOCK FALSE
