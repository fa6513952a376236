SPECIFICATION NotifySpec
CONSTANTS
  w1 = w1
  w2 = w2
  N = 3
  Workers <- TwoWorkers
  Route <- ByHash
  Key <- ByPost
  QueueSize = 1
  MaxAttempts = 1
  HasDLQ = TRUE
  MaxStops = 2
  MaxRebalances = 1
  Id <- ByPostAndLiker
  Event <- EveryKind
CHECK_DEADLOCK FALSE
INVARIANTS CommitSafe PerKeyOrder CommittedIsNotified
PROPERTIES ReadStaysRead EverythingCommitted
