\* One card order: publishers repeat, consumers restart, the provider's answers
\* are lost, its events come in any order and are handled at the same time.
\* The flow stops when all is published.
SPECIFICATION Spec
CONSTANTS
  o1 = o1
  o2 = o2
  o3 = o3
  u1 = u1
  p1 = p1
  r1 = r1
  r2 = r2
  Orders = {o2}
  Users = {u1}
  Products = {p1}
  UserOf <- OneUser
  ProductOf <- OneProduct
  Quantity <- OneEach
  UnitPrice <- Price3
  PaymentMethod <- AllCard
  IntModulus = 256
  InitialStock <- Stock1
  InitialBalance <- Points0
  NewIntents = {"requires_action", "succeeded"}
  Reconcilers = {r1}
  Faults = {"republish", "redelivery", "charge_lost"}
  MaxCopies <- OneCopy
INVARIANTS
  CausalChain
  ReleaseIsJustified
  OnePaymentResult
PROPERTIES
  OutcomesAreFinal
CHECK_DEADLOCK FALSE
