CONSTANTS
  j1 = j1  j2 = j2  e1 = e1  e2 = e2
  Jobs <- TwoJobs
  Engines <- TwoEngines
  EngineOf <- OwnEngine
  NumArticles = 1
  NumProviders = 1
  Pooled <- PrimaryAndFill
  Carries <- Everything
  MaxActive = 1
  MaxConnections <- OneConnection
  Chunks = 1
  FlushThreshold = 1
  Failures <- NoFailures
  MaxRuns = 1
  MaxCrashes = 0
SPECIFICATION Spec
CHECK_DEADLOCK FALSE
INVARIANT ConnectionsBounded
