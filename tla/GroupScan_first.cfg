CONSTANTS
  daemon = daemon  manual = manual  book = book  short = short  set = set  spam = spam
  Scanners <- TwoScanners
  Daemons <- OneScanner
  Backfilling <- ManualOnly
  LastNumber = 2
  Posts <- OneBook
  Accepted <- OneBook
  Numbered <- OneBook
  Parts <- PairParts
  Missing <- None
  ScanBatchSize = 2
  CommitBatch = 2
  MaxPending = 2
  EmptyReplies <- EmptyList
  MaxFailures = 0
SPECIFICATION Spec
PROPERTY CheckpointNeverBackwards
