\* One card payment: two requests with its key, one event handled twice and
\* another one, a round of either of two reconcilers and a cancellation.
SPECIFICATION Spec
CONSTANTS
  c1 = c1
  c2 = c2
  w1 = w1
  w2 = w2
  w3 = w3
  r1 = r1
  r2 = r2
  x1 = x1
  p1 = p1
  p2 = p2
  Calls = {c1, c2, w1, w2, w3, r1, r2, x1}
  RequestOf <- Requested
  Replicas = {p1, p2}
  Purposes = {"purchase", "point_topup"}
  NewIntents = {"requires_action", "succeeded"}
  MayFail = TRUE
INVARIANTS
  PairAgrees
  CreditedOnce
  ReceiptSettles
  LastResultTellsPayment
  NoStandstill
CHECK_DEADLOCK FALSE
