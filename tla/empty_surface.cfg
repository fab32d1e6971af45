SPECIFICATION Spec
CONSTANTS
  Windows = {"w1"}
  NoWindow = "none"
  PersistentSG = {}
  PersistentGraphics = {}
  Faults = {"emptySurface"}
  Calls = {}
  MaxJobs = 1
INVARIANT WaitIsOwed
CHECK_DEADLOCK FALSE
