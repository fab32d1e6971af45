SPECIFICATION FairSpec
CONSTANTS
  NoIncubator = NoIncubator
  page = page
  item = item
  part = part
  Incubators = {page, item, part}
  Mode <- ModeOf
  Contexts <- ContextsOf
  Deleted = {page}
  MaxCalls = 4
CHECK_DEADLOCK FALSE
PROPERTY ForceReturns
