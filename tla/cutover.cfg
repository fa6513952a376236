SPECIFICATION Spec
CONSTANTS
  migrate = migrate
  copy1 = copy1
  copy2 = copy2
  Jobs = {migrate, copy1, copy2}
  Files = 2
  Image <- TwoImages
  Runs = {copy1, copy2}
  Docs <- AllDocs
  Kind <- KindOf
  Row <- RowFor
  Refs <- RefsOf
  Readable <- ReadableDocs
  Legal <- LegalDocs
  OutboxPending <- PendingPosts
  Deleted <- DeletedPosts
  Depth <- DepthOf
  Conv <- ConvOf
  SentAt <- TimeOf
  Late <- LateDocs
  MaxFaults = 1
  MaxAgain = 1
CHECK_DEADLOCK FALSE
INVARIANTS SchemaMatchesCode CopyComplete CarriedOnce HistoryByTime
PROPERTY FinallyCopied
