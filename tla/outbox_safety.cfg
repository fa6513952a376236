SPECIFICATION Spec
CONSTANTS
  Events <- TwoEvents
  Relays = {a, b}
  BatchSize = 2
  MaxAttempts = 2
  AttemptCap = 2
  BaseBackoff = 1
  MaxBackoff = 1
  Lease = 1
  Grace = 1
  PassBound = 2
  RequestBound = 2
  MaxFaults = 1
CHECK_DEADLOCK FALSE
INVARIANTS NoLoss NoPhantom DeadOnlyAfterMax
PROPERTY SettledIsFinal
SYMMETRY Perms
