SPECIFICATION AllSpec
CONSTANTS
  k1 = k1
  k2 = k2
  r1 = r1
  r2 = r2
  w = w
  c = c
  None = None
  Keys = {k1, k2}
  Requests = {r1, r2}
  Sweeps = {w}
  Restorers = {c}
  MaxCalls = 2
  o1 = o1
  o2 = o2
  a1 = a1
  a2 = a2
  d = d
  Withdrawals = {o1, o2}
  Admins = {a1, a2}
  Deliveries = {d}
  Lifecycle <- MCLifecycle
  MaxRetries = 1
  Repeating = TRUE
  t1 = t1
  t2 = t2
  t3 = t3
  f1 = f1
  f2 = f2
  p1 = p1
  p2 = p2
  Tokens = {t1, t2, t3}
  Families = {f1, f2}
  Clients = {p1, p2}
  b1 = b1
  b2 = b2
  c1 = c1
  c2 = c2
  Purchases = {b1, b2}
  Customers = {c1, c2}
  Limits = {0, 1, 2}
  q1 = q1
  q2 = q2
  e1 = e1
  e2 = e2
  Runners = {q1, q2}
  Addresses = {e1, e2}
  Unset = Unset
  MaxAttempts = 2
CHECK_DEADLOCK FALSE
INVARIANTS
  TypesOK
  OneFirst
  ChargedKeepsClaim
  NotSentUnpaid
  AcknowledgedKept
  OneLive
  EndedStaysEnded
  CountersAgree
  OneMessage
PROPERTIES
  RestoredIsRefunded
  StatusForward
  DecisionKept
SYMMETRY Sym
VIEW View
