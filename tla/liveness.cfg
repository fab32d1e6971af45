SPECIFICATION FairSpec
CONSTANTS
  Windows = {"w1"}
  NoWindow = "none"
  PersistentSG = {"w1"}
  PersistentGraphics = {"w1"}
  Faults = {"frameLost", "frameOutOfDate"}
  Calls = {"change", "animate", "update", "hide", "destroySurface", "destroyWindow"}
  MaxJobs = 1
INVARIANT NoLostUpdate
PROPERTIES RepaintDrawn ChangeSynced GuiUnblocks
CHECK_DEADLOCK FALSE
