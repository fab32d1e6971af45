SPECIFICATION FairSpec
CONSTANTS
  NoIncubator = NoIncubator
  page = page
  item = item
  part = part
  Incubators = {page, item, part}
  Mode <- ModeOf
  Contexts <- ContextsOf
  Deleted = {item}
  MaxCalls = 5
CHECK_DEADLOCK FALSE
INVARIANTS ListIsExact NeverUndercounted
PROPERTIES ReadyIsWhole CallsReturn Completes
