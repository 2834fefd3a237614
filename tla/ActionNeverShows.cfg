\* A card order that requires its customer's action, and nothing fails.
SPECIFICATION FairSpec
CONSTANTS
  o1 = o1
  o2 = o2
  o3 = o3
  u1 = u1
  p1 = p1
  r1 = r1
  r2 = r2
  Orders = {o2}
  Users = {u1}
  Products = {p1}
  UserOf <- OneUser
  ProductOf <- OneProduct
  Quantity <- OneEach
  UnitPrice <- Price3
  PaymentMethod <- AllCard
  IntModulus = 256
  InitialStock <- Stock1
  InitialBalance <- Points0
  NewIntents = {"requires_action", "succeeded"}
  Reconcilers = {r1}
  Faults = {}
  MaxCopies <- NoCopies
PROPERTIES
  ActionShows
CHECK_DEADLOCK FALSE
