SPECIFICATION FairSpec
CONSTANTS
  d1 = d1
  d2 = d2
  w = w
  s = s
  Nobody = Nobody
  Deliveries = {d1, d2}
  Recovery = w
  Replays = {s}
  MaxAttempts = 3
  MaxReplays = 1
  MaxFaults = 3
INVARIANTS
  RetryableIsClaimable
PROPERTIES
  HolderDecides
  EndsKept
  EventSettles
