SPECIFICATION Spec
CONSTANTS
  r1 = r1
  r2 = r2
  w = w
  h = h
  Nobody = Nobody
  Requests = {r1, r2}
  Worker = w
  Hooks = {}
  Crashing = {r1, w}
  MaxFaults = 2
CHECK_DEADLOCK FALSE
INVARIANTS
  CompletedIsBooked
PROPERTIES
  ImplementsSettlement
