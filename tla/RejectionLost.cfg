\* A point order beyond the points of its user, and the transaction that records
\* the rejection fails.
SPECIFICATION Spec
CONSTANTS
  o1 = o1
  o2 = o2
  o3 = o3
  u1 = u1
  p1 = p1
  r1 = r1
  r2 = r2
  Orders = {o2}
  Users = {u1}
  Products = {p1}
  UserOf <- OneUser
  ProductOf <- OneProduct
  Quantity <- OneEach
  UnitPrice <- Price3
  PaymentMethod <- AllPoint
  IntModulus = 256
  InitialStock <- Stock1
  InitialBalance <- Points0
  NewIntents = {"requires_action", "succeeded"}
  Reconcilers = {}
  Faults = {"reject_lost"}
  MaxCopies <- NoCopies
INVARIANTS
  HandledOrderHasPayment
CHECK_DEADLOCK FALSE
