SPECIFICATION Spec
CONSTANTS
  Windows = {"w1", "w2"}
  NoWindow = "none"
  PersistentSG = {"w1"}
  PersistentGraphics = {}
  Faults = {"frameError"}
  Calls = {"destroyWindow"}
  MaxJobs = 1
INVARIANTS IInv WaitIsOwed NoStrayRequest SyncOnlyWhileBlocked
PROPERTY BlockSpec
CHECK_DEADLOCK FALSE
