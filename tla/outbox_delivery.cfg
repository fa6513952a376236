SPECIFICATION FairSpec
CONSTANTS
  Events <- TwoEvents
  Relays = {a, b}
  BatchSize = 2
  MaxAttempts = 0
  AttemptCap = 2
  BaseBackoff = 1
  MaxBackoff = 1
  Lease = 2
  Grace = 2
  PassBound = 1
  RequestBound = 1
  MaxFaults = 1
CHECK_DEADLOCK FALSE
INVARIANT Exclusive
PROPERTY ImplementsDelivery
