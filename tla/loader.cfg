SPECIFICATION FairSpec
CONSTANTS
  NoLoad = NoLoad
  a = a
  b = b
  c = c
  Loads = {a, b, c}
  Remote = {b}
  Plugins = {a, b}
  Calls = {"async", "sync", "await", "close", "nested", "eventLoop"}
CHECK_DEADLOCK FALSE
INVARIANT SyncCallBlocksLoader
PROPERTIES CallReturnsLoaded LoadsReported MainReturns
