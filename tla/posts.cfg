SPECIFICATION MediaFairSpec
CONSTANTS
  p1 = p1
  p2 = p2
  k1 = k1
  k2 = k2
  i1 = i1
  Posts <- TwoPosts
  Cleaners <- TwoCleaners
  Instances <- OneInstance
  MaxAttempts = 2
  MediaFailing = {"save", "saveLost", "tx", "txLost", "gcs", "redis", "cleanupTx", "crash"}
  MaxMediaFailures = 1
CHECK_DEADLOCK FALSE
INVARIANTS MediaPresent NoOrphan
PROPERTIES MediaRemoved CacheConverges
