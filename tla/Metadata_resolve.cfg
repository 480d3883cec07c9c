CONSTANTS
  api = api  second = second  worker = worker  t1 = t1  t2 = t2  t3 = t3  book = book  other = other
  Threads <- ThreeThreads
  Live <- OneThread
  Keys <- TwoBooks
  Processes <- ThreeProcesses
  Schedulers <- OnlyApi
  Roles <- AllRoles
  NumProviders = 2
  MaxWorkers = 1
  QueueSize = 1
  MaxFailures = 1
SPECIFICATION FairSpec
INVARIANTS TypeOK LeadersAreAlone ArtworkAccounted
PROPERTIES NegativesAreEarned KeyLocksAreLetGo
