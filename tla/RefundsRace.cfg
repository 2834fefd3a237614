\* Four refunds of one payment of 3, at the same time or not, any of which may fail.
SPECIFICATION Spec
CONSTANTS
  c1 = c1
  c2 = c2
  c3 = c3
  c4 = c4
  Calls = {c1, c2, c3, c4}
  AmountOf <- OneOneTwoTwo
  PaymentAmount = 3
  Methods = {"point", "card"}
  MayFail = TRUE
INVARIANTS
  StatusTellsRefunds
  ProviderPaidRefunds
CHECK_DEADLOCK FALSE
