CONSTANTS
  primary = primary  fill = fill  added = added  group = group  c1 = c1  c2 = c2
  Providers <- OneAndAdded
  Configured <- OneProvider
  Groups <- OneGroup
  Clients <- TwoClients
  MaxRequests = 2
  MaxEdits = 2
  MaxFailures = 1
SPECIFICATION FairSpec
PROPERTIES WorkerSurvives
