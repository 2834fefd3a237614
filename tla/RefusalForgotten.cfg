\* A point order beyond the points of its user and a card order want the same
\* last piece, and an order is announced twice.
SPECIFICATION Spec
CONSTANTS
  o1 = o1
  o2 = o2
  o3 = o3
  u1 = u1
  p1 = p1
  r1 = r1
  r2 = r2
  Orders = {o1, o2}
  Users = {u1}
  Products = {p1}
  UserOf <- OneUser
  ProductOf <- OneProduct
  Quantity <- OneEach
  UnitPrice <- Price3
  PaymentMethod <- PointAndCard
  IntModulus = 256
  InitialStock <- Stock1
  InitialBalance <- Points0
  NewIntents = {"requires_action", "succeeded"}
  Reconcilers = {}
  Faults = {"republish"}
  MaxCopies <- OneCopy
INVARIANTS
  FailedOrderNotCharged
CHECK_DEADLOCK FALSE
