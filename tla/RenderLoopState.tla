--------------------------- MODULE RenderLoopState ---------------------------
(***************************************************************************)
(* The state shared by the GUI thread's QSGThreadedRenderLoop and the      *)
(* QSGRenderThread of each window, and the operators both sides use on it. *)
(*                                                                         *)
(* Source: quick/scenegraph/qsgthreadedrenderloop.cpp.  The modules        *)
(* RenderThread and RenderLoopGui add the steps of the two kinds of        *)
(* thread; ThreadedRenderLoop puts them together.                          *)
(***************************************************************************)
EXTENDS Integers, Sequences, FiniteSets

CONSTANTS
  Windows,             \* the QQuickWindows of the application
  PersistentSG,        \* those with isPersistentSceneGraph()
  PersistentGraphics,  \* those with isPersistentGraphics()
  Faults,              \* what the graphics stack and the platform may do wrong
  Calls,               \* what the application calls
  MaxJobs              \* bound: NoStage render jobs queued at one thread

FaultKinds == {"noRhi", "emptySurface", "zeroSize", "buildFails", "buildLost",
               "frameError", "frameLost", "frameOutOfDate"}

CallKinds == {"change", "animate", "update", "grab", "release", "postJob", "hide",
              "destroySurface", "destroyWindow"}

ASSUME ConstantsAssumption ==
  /\ PersistentSG \subseteq Windows
  /\ PersistentGraphics \subseteq Windows
  /\ Faults \subseteq FaultKinds
  /\ Calls \subseteq CallKinds
  /\ MaxJobs \in Nat

VARIABLES
  \* The GUI thread.
  guiPc,            \* where it is in the blocking call it makes, see GuiPcs
  guiWin,           \* the window that call is about
  guiTodo,          \* the blocking steps the current operation still has to make
  lockedForSync,    \* QSGThreadedRenderLoop::m_lockedForSync
  \* QWindow and its platform window.
  visible, exposed, handle,
  area,             \* width() > 0 and height() > 0
  surface,          \* the native surface has a non-empty pixel size
  \* QSGThreadedRenderLoop::Window
  listed,           \* the window has an entry in m_windows (and a thread object)
  updateDuringSync, forceRenderPass,
  \* The scene of the QQuickWindow and the requests to look at it again.
  dirty,            \* items changed since the last syncSceneGraph()
  updateRequested,  \* QWindow::requestUpdate() not yet delivered
  fullUpdate,       \* a FullUpdateRequest event posted to the window
  renderer,         \* QQuickWindowPrivate::renderer exists
  \* Its swapchain: none, new (never built), failed (to build) or active.
  swapchain, hasRenderable, justRenderable,
  \* QSGRenderThread
  rtPc, active, window, windowSize, pending, frameReq, sleeping, stop, cur,
  rhi,              \* none, ready, lost (after device loss) or doomed
  sgInit,           \* QSGRenderContext::isValid()
  queue,            \* eventQueue
  mutex             \* owner of QSGRenderThread::mutex

guiVars    == <<guiPc, guiWin, guiTodo>>
platVars   == <<visible, exposed, handle, area, surface>>
loopVars   == <<listed, updateDuringSync, forceRenderPass>>
sceneVars  == <<dirty, updateRequested, fullUpdate>>
chainVars  == <<swapchain, hasRenderable, justRenderable>>
threadVars == <<rtPc, active, window, windowSize, pending, frameReq,
                sleeping, stop, cur>>
gfxVars    == <<rhi, sgInit, renderer>>
vars == <<guiVars, lockedForSync, platVars, loopVars, sceneVars, chainVars,
          threadVars, gfxVars, queue, mutex>>

-----------------------------------------------------------------------------
(* The events the GUI thread sends to a render thread (WM_...).  What the  *)
(* event classes carry is the set opts: syncInExpose and forceRenderPass,  *)
(* "sized" for a non-empty size, inDestructor.                             *)

EventTypes == {"Obscure", "RequestSync", "TryRelease", "Grab", "PostJob",
               "ReleaseSwapchain"}
EventOpts  == {"expose", "force", "sized", "destructor"}
Event == [type : EventTypes, opts : SUBSET EventOpts]
Ev(type, opts) == [type |-> type, opts |-> opts]
NoEvent == Ev("PostJob", {})

\* The events whose sender waits for an answer; a job's does not.
Blocking == EventTypes \ {"PostJob"}

Flags == {"sync", "repaint", "expose"}
ExposeRequest == {"sync", "repaint", "expose"}

\* The steps of GUI operations that involve a render thread.
Steps == {"sync", "syncExpose", "obscure", "release", "destroyRelease", "grab",
          "releaseSwapchain", "destroyHandle", "delete"}
SyncSteps == {"sync", "syncExpose"}

GuiPcs == {"idle", "polished", "locked", "blocked", "woken", "join"}
RtPcs  == {"stopped", "loop", "frame", "failWake", "syncLock", "sync", "render",
           "events", "wait", "handle"}

GuiFree == guiPc = "idle" /\ guiTodo = <<>>
IsRunning(w) == rtPc[w] # "stopped"

-----------------------------------------------------------------------------
(* addEvent(): append under the queue's own mutex.  A thread that waits in *)
(* takeEvent() is woken, here: finds its queue non-empty.                  *)
AddEvent(w, e) == queue' = [queue EXCEPT ![w] = Append(@, e)]

(* waitCondition.wakeOne(): the GUI thread is the only waiter; a wake-up   *)
(* that finds it not waiting on this thread's condition is lost.           *)
WakeGui(w) ==
  /\ guiPc' = IF guiPc = "blocked" /\ guiWin = w THEN "woken" ELSE guiPc
  /\ UNCHANGED <<guiWin, guiTodo>>

\* releaseSwapchain() forgets the renderable flags with the swapchain.
KeepSwapchain(w) == UNCHANGED chainVars                  \* mutant: nothing released
KeepFlags(w) ==                                          \* mutant: flags not reset
  /\ swapchain' = [swapchain EXCEPT ![w] = "none"]
  /\ UNCHANGED <<hasRenderable, justRenderable>>
ReleaseSwapchain(w) ==
  /\ swapchain'      = [swapchain EXCEPT ![w] = "none"]
  /\ hasRenderable'  = [hasRenderable EXCEPT ![w] = FALSE]
  /\ justRenderable' = [justRenderable EXCEPT ![w] = FALSE]

=============================================================================
