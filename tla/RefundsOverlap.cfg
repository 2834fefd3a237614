\* Two refunds of one payment of 3, of 2 each, and nothing fails.
SPECIFICATION Spec
CONSTANTS
  c1 = c1
  c2 = c2
  c3 = c3
  c4 = c4
  Calls = {c1, c2}
  AmountOf <- TwoEach
  PaymentAmount = 3
  Methods = {"point", "card"}
  MayFail = FALSE
INVARIANTS
  NeverOverRefunded
CHECK_DEADLOCK FALSE
