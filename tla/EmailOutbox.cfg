SPECIFICATION FairSpec
CONSTANTS
  w1 = w1
  w2 = w2
  a = a
  b = b
  c = c
  Nobody = Nobody
  Workers = {w1, w2}
  Runners = {a, b, c}
  WorkerOf <- MCWorkerOf
  MaxAttempts = 3
  MaxFaults = 2
INVARIANTS
  FreshClaimKept
PROPERTIES
  ImplementsDelivery
  Drains
