SPECIFICATION FairSpec
CONSTANTS
  r1 = r1
  r2 = r2
  w = w
  h = h
  Nobody = Nobody
  Requests = {r1}
  Worker = w
  Hooks = {h}
  Crashing = {r1, w, h}
  MaxFaults = 1
CHECK_DEADLOCK FALSE
INVARIANTS
  SettledOneWay
  ProviderTruth
PROPERTIES
  TerminalStays
  ChargeSettles
