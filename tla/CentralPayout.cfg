SPECIFICATION PayoutSpec
CONSTANTS
  o1 = o1
  o2 = o2
  a = a
  d = d
  Withdrawals = {o1, o2}
  Admins = {a}
  Deliveries = {d}
  Lifecycle <- MCLifecycle
  MaxRetries = 1
  Repeating = FALSE
CHECK_DEADLOCK FALSE
INVARIANTS
  RejectedUnpaid
