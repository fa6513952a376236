SPECIFICATION Spec
CONSTANTS
  ann = ann
  star = star
  Posts <- FourPosts
  At <- NewestTied
  Author <- AnnWroteAll
  Follows <- Both
  Limit = 1
  MaxFeedLen = 4
  Nows = {}
  Late <- Newest
  Stars <- Star
  MaxFailures = 0
CHECK_DEADLOCK FALSE
INVARIANT NothingSkipped
