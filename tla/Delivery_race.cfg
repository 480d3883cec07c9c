CONSTANTS
  w1 = w1  w2 = w2  j1 = j1  j2 = j2
  a = a  b = b  earlier = earlier  earliest = earliest
  Workers <- TwoWorkers
  Jobs <- TwoJobs
  Releases <- AllReleases
  ReleaseOf <- TwoReleases
  TitleOf <- OneTitle
  BookOf <- Narrators
  PrefixOf <- ShortIds
  Parcels <- AllParcels
  Shelves <- AllShelves
  MaxFailures = 2
  MaxContests = 0
SPECIFICATION Spec
INVARIANTS RowsHaveFiles
CHECK_DEADLOCK FALSE
