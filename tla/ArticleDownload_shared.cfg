CONSTANTS
  j1 = j1  j2 = j2  e1 = e1  e2 = e2
  Jobs <- TwoJobs
  Engines <- OneEngine
  EngineOf <- Shared
  NumArticles = 2
  NumProviders = 1
  Pooled <- PrimaryAndFill
  Carries <- Everything
  MaxActive = 2
  MaxConnections <- OneConnection
  Chunks = 1
  FlushThreshold = 1
  Failures <- StoreFailures
  MaxRuns = 1
  MaxCrashes = 0
SPECIFICATION Spec
CHECK_DEADLOCK FALSE
SYMMETRY Symmetry
CONSTRAINT OneHurtJob
INVARIANTS TypeOK PermitsAddUp CompletedIsWhole SuccessIsComplete
