CONSTANTS
  c1 = c1
  wanted = wanted  split = split  bigger = bigger  video = video
  Clients <- OneClient
  Releases <- FourReleases
  Facts <- SomeFacts
  GroupOf <- SomeGroups
  PartsOf <- SomeParts
  NumGroups = 2
  LastNumber = 4
  Required = 3
  NumQueries = 2
  Finds <- SomeFinds
  IdOf <- SomeIds
  PageLimit = 1
  EmptyReplies = {"list", "error"}
  StopScore = 95
  MaxWindows = 2
  Batch = 2
  MaxFailures = 1
SPECIFICATION Spec
INVARIANTS GatheredIsShown StretchIsIndexed
CHECK_DEADLOCK FALSE
