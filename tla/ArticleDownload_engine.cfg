CONSTANTS
  j1 = j1  j2 = j2  e1 = e1  e2 = e2
  Jobs <- OneJob
  Engines <- OneEngine
  EngineOf <- Shared
  NumArticles = 3
  NumProviders = 3
  Pooled <- PrimaryAndFill
  Carries <- FillServer
  MaxActive = 2
  MaxConnections <- OneConnection
  Chunks = 2
  FlushThreshold = 2
  Failures <- ProviderFailures
  MaxRuns = 2
  MaxCrashes = 1
SPECIFICATION FairSpec
CHECK_DEADLOCK FALSE
INVARIANTS CompletedIsWhole CounterCountsRows ProgressIsFlushed FallbackIsAutomatic
PROPERTIES CompletedIsNotRefetched ImplementsOutcome CallEnds
