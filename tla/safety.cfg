SPECIFICATION Spec
CONSTANTS
  Windows = {"w1"}
  NoWindow = "none"
  PersistentSG = {}
  PersistentGraphics = {}
  Faults = {"noRhi", "zeroSize", "emptySurface", "buildLost", "buildFails", "frameError", "frameLost", "frameOutOfDate"}
  Calls = {"change", "animate", "update", "release", "postJob", "grab", "hide", "destroySurface", "destroyWindow"}
  MaxJobs = 1
INVARIANTS TypeOK GraphicsNest SwapchainHasSurface StoppedIsClean HiddenIsQuiet RenderableHasSwapchain
PROPERTY ExposeWaitsForFrame
CHECK_DEADLOCK FALSE
