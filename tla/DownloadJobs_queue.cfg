CONSTANTS
  w1 = w1  w2 = w2  c1 = c1  c2 = c2  r1 = r1  r2 = r2
  Nobody = Nobody
  NoRelease = NoRelease
  Releases <- OneRelease
  Workers <- TwoWorkers
  Daemons <- OneWorker
  Callers <- OneCaller
  MaxJobs = 2
  MaxRequeues = 1
  MaxCrashes = 1
  RecoveryWired = TRUE
SPECIFICATION FairSpec
INVARIANTS TypeOK CompletedIsImported OneCurrentWorker ClaimTellsOwner
PROPERTIES QueuedUntilClaimedOrCanceled ImplementsLifecycle JobsSettle
