SPECIFICATION Spec
CONSTANTS
  k1 = k1
  k2 = k2
  k3 = k3
  d1 = d1
  d2 = d2
  x = x
  g = g
  t1 = t1
  t2 = t2
  NoClaim = NoClaim
  Keys = {k1, k2, k3}
  Txns = {t1, t2}
  Days = {d1, d2}
  Services = {x, g}
  Times <- MCTimes
  Intents <- MCIntents
  Historical <- MCHistorical
  MaxCalls = 2
INVARIANTS
  NoDoubleBooking
  CapacityExact
  EffectsBacked
PROPERTIES
  EffectOnce
  ImplementsOccupancy
