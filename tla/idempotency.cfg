SPECIFICATION KeyFairSpec
CONSTANTS
  a1 = a1
  a2 = a2
  a3 = a3
  Attempts <- Three
  Body <- OneOtherBody
  MaxKeyFailures = 3
  MaxPosts = 5
CHECK_DEADLOCK FALSE
INVARIANTS AtMostOnce RepliesAreTrue
PROPERTY EveryRetrySettles
