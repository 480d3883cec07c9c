CONSTANTS
  daemon = daemon  manual = manual  book = book  short = short  set = set  spam = spam
  Scanners <- OneScanner
  Daemons <- OneScanner
  Backfilling <- None
  LastNumber = 2
  Posts <- OneBook
  Accepted <- OneBook
  Numbered <- OneBook
  Parts <- PairParts
  Missing <- None
  ScanBatchSize = 1
  CommitBatch = 2
  MaxPending = 2
  EmptyReplies <- EmptyList
  MaxFailures = 0
SPECIFICATION Spec
INVARIANT ScannedPostsAreIndexed
