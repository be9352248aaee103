SPECIFICATION Spec
CONSTANTS
  c = c
  a = a
  w = w
  h = h
  Nobody = Nobody
  Collectors = {c}
  Admins = {a}
  Recovery = {w}
  Hooks = {h}
  MaxFaults = 1
CHECK_DEADLOCK FALSE
INVARIANTS
  TypeOK
  ForgivenUnpaid
  LedgerAgrees
  OutcomeIsStripes
PROPERTIES
  ImplementsFee
  Decided
  GateOpens
