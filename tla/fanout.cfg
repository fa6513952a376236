SPECIFICATION FairSpec
CONSTANTS
  w1 = w1
  Users <- ThreeUsers
  Early <- TwoFollow
  Posts <- TwoPosts
  At <- OneDated
  Nows = {1, 3}
  Workers <- OneWorker
  Threshold = 2
  PageSize = 1
  BatchSize = 2
  Parallelism = 2
  MaxFeedLen = 1
  MaxAttempts = 2
  MaxChanges = 2
  MaxFaults = 2
CHECK_DEADLOCK FALSE
INVARIANTS FollowersReached FeedIsNewest
PROPERTY FeedComplete
