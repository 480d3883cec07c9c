CONSTANTS
  daemon = daemon  manual = manual  book = book  short = short  set = set  spam = spam
  Scanners <- TwoScanners
  Daemons <- OneScanner
  Backfilling <- ManualOnly
  LastNumber = 3
  Posts <- BookAndShort
  Accepted <- BookAndShort
  Numbered <- BookAndShort
  Parts <- BookParts
  Missing <- None
  ScanBatchSize = 2
  CommitBatch = 2
  MaxPending = 2
  EmptyReplies <- AnyReply
  MaxFailures = 1
SPECIFICATION FairSpec
INVARIANTS TypeOK WindowPostsAreIndexed NothingIsSkipped ReleasesAreWhole
PROPERTIES OnlyFirstScansMoveBack CatchesUp
