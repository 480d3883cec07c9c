CONSTANTS
  daemon = daemon  manual = manual  book = book  short = short  set = set  spam = spam
  Scanners <- OneScanner
  Daemons <- OneScanner
  Backfilling <- None
  LastNumber = 6
  Posts <- Crowd
  Accepted <- BooksAndSet
  Numbered <- BookAndShort
  Parts <- CrowdParts
  Missing <- None
  ScanBatchSize = 6
  CommitBatch = 2
  MaxPending = 2
  EmptyReplies <- AnyReply
  MaxFailures = 1
SPECIFICATION Spec
INVARIANT WindowPostsAreIndexed
