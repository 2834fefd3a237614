\* One top-up whose creation stops, and a round of either of two reconcilers.
SPECIFICATION Spec
CONSTANTS
  c1 = c1
  c2 = c2
  w1 = w1
  w2 = w2
  w3 = w3
  r1 = r1
  r2 = r2
  x1 = x1
  p1 = p1
  p2 = p2
  Calls = {c1, r1, r2}
  RequestOf <- Requested
  Replicas = {p1, p2}
  Purposes = {"point_topup"}
  NewIntents = {"requires_action", "succeeded"}
  MayFail = TRUE
INVARIANTS
  NeverCreditedTwice
CHECK_DEADLOCK FALSE
