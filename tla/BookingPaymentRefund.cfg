SPECIFICATION Spec
CONSTANTS
  r1 = r1
  r2 = r2
  w = w
  h = h
  Nobody = Nobody
  Requests = {r1}
  Worker = w
  Hooks = {h}
  Crashing = {}
  MaxFaults = 0
CHECK_DEADLOCK FALSE
INVARIANTS
  FailedMeansRefundFailed
