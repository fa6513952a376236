SPECIFICATION PagingSpec
CONSTANTS
  ann = ann
  star = star
  Posts <- FivePosts
  At <- Ties
  Author <- StarWroteThree
  Follows <- Both
  Limit = 1
  MaxFeedLen = 3
  Nows = {1}
  Late <- Newest
  Stars <- Star
  MaxFailures = 1
  Lists = {"home", "comments", "follows", "inbox"}
  Items = {1, 2, 3, 4}
  Parent <- ReplyToSecond
  PageSize = 1
  MaxClock <- Clocks
CHECK_DEADLOCK FALSE
INVARIANTS NeverRepeats NothingSkipped ListedOnce RepliesFollow
