\* Credit, two debits and the first visit of one user, who has no account.
SPECIFICATION Spec
CONSTANTS
  u1 = u1
  u2 = u2
  c1 = c1
  c2 = c2
  c3 = c3
  c4 = c4
  Users = {u1}
  Calls = {c1, c2, c3, c4}
  CallOf <- MixedCalls
  WelcomeBonus = 4
  MayFail = TRUE
  IntModulus = 16
INVARIANTS
  LedgerVerifies
  LockProtectsBalance
CHECK_DEADLOCK FALSE
