SPECIFICATION FairSpec
CONSTANTS
  r1 = r1
  r2 = r2
  w = w
  h = h
  Nobody = Nobody
  Requests = {r1}
  Worker = w
  Hooks = {}
  Crashing = {w}
  MaxFaults = 1
CHECK_DEADLOCK FALSE
PROPERTIES
  FailureReported
