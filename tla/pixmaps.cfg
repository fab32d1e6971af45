SPECIFICATION FairSpec
CONSTANTS
  NoId = NoId
  file = file
  remote = remote
  Images = {i1, i2}
  Ids = {d1, d2}
  Keys = {file, remote}
  Kind <- KindOf
  Cost <- CostOf
  CacheLimit = 8
  MaxNetwork = 1
  EngineDies = TRUE
  MaxLoads = 3
CHECK_DEADLOCK FALSE
INVARIANTS PointersAreLive CacheIsExact
PROPERTIES LoadsAnswered CacheExpires
