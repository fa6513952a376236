SPECIFICATION FairSpec
CONSTANTS
  u1 = u1
  u2 = u2
  u3 = u3
  f1 = f1
  f2 = f2
  r1 = r1
  Users <- ThreeUsers
  Flushers <- TwoFlushers
  Reconcilers <- OneReconciler
  Failing = {"incr", "getdel", "add", "fallback", "get", "crash", "sadd", "undo", "incrLost", "addLost", "crashUnmarked"}
  MaxFailures = 2
  MaxOps = 3
CHECK_DEADLOCK FALSE
INVARIANTS NoOvercount NoDrift
PROPERTY CountConverges
