SPECIFICATION Spec
CONSTANTS
  NoId = NoId
  file = file
  remote = remote
  Images = {i1, i2}
  Ids = {d1, d2}
  Keys = {file, remote}
  Kind <- KindOf
  Cost <- CostOf
  CacheLimit = 8
  MaxNetwork = 1
  EngineDies = FALSE
  MaxLoads = 3
CHECK_DEADLOCK FALSE
INVARIANT ReadyIsLoaded
