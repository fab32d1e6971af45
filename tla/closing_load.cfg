SPECIFICATION FairSpec
CONSTANTS
  NoLoad = NoLoad
  a = a
  b = b
  c = c
  Loads = {a, b, c}
  Remote = {}
  Plugins = {a, b}
  Calls = {"async", "close", "nested", "closing"}
CHECK_DEADLOCK FALSE
PROPERTY MainReturns
