SPECIFICATION Spec
CONSTANTS
  None = None
  x = x
  y = y
  z = z
  bx = bx
  by = by
  hz = hz
  Properties = {x, y, z}
  Bindings = {bx, by}
  Handlers = {hz}
  Guards = {g1, g2, g3, g4}
  Target <- TargetOf
  Reads <- ReadsOf
  Signal <- SignalOf
  Ruthless = FALSE
  MaxReads = 2
  MaxCalls = 3
SYMMETRY Symmetric
CHECK_DEADLOCK FALSE
INVARIANTS NotifyingIsLive WatchesAgree CallbackIsLive GuardsExact UpToDate
PROPERTIES NoNeedlessUpdate
