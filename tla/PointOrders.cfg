\* Three orders of one user for the last pieces of one product, paid with points:
\* one takes all the points, one is beyond them, the amount of one overflows.
\* Handlers of a record are repeated, and rejections are lost.
SPECIFICATION Spec
CONSTANTS
  o1 = o1
  o2 = o2
  o3 = o3
  u1 = u1
  p1 = p1
  r1 = r1
  r2 = r2
  Orders = {o1, o2, o3}
  Users = {u1}
  Products = {p1}
  UserOf <- OneUser
  ProductOf <- OneProduct
  Quantity <- OneTwoFifty
  UnitPrice <- Price3
  PaymentMethod <- AllPoint
  IntModulus = 256
  InitialStock <- Stock52
  InitialBalance <- Points3
  NewIntents = {"requires_action", "succeeded"}
  Reconcilers = {}
  Faults = {"redelivery", "reject_lost"}
  MaxCopies <- CopiesOfFirst
INVARIANTS
  PaidOrderIsSettled
  LedgerExplainsStock
  PointsMatchPayments
  ChargedFailureWasRefused
  OnlyRejectionsGetLost
CHECK_DEADLOCK FALSE
