SPECIFICATION FairSpec
CONSTANTS
  w1 = w1
  NPosts = 1
  Existing <- OldPosts
  Workers <- OneWorker
  Jobs <- BothJobs
  NewIndex = TRUE
  PageSize = 1
  HasOpenAI = TRUE
  MaxAttempts = 2
  MaxFailures = 2
  MaxDuplicates = 1
CHECK_DEADLOCK FALSE
INVARIANT DocsAreRows
PROPERTY IndexConverges
