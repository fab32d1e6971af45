---------------------------- MODULE RenderThread ----------------------------
(***************************************************************************)
(* QSGRenderThread: run(), syncAndRender(), sync() and the handlers of     *)
(* event().  One action per stretch of code between two points where the   *)
(* GUI thread can interleave: taking an event, taking the mutex, letting   *)
(* it go.  A handler that holds the mutex throughout is one action.        *)
(***************************************************************************)
EXTENDS RenderLoopState

GoTo(w, pc) == rtPc' = [rtPc EXCEPT ![w] = pc]
Fault(f) == f \in Faults

-----------------------------------------------------------------------------
(* run() *)

\* while (active) is over: the thread finishes.
LoopExit(w) ==
  /\ rtPc[w] = "loop" /\ ~active[w]
  /\ GoTo(w, "stopped")
  /\ UNCHANGED <<guiVars, lockedForSync, platVars, loopVars, sceneVars, chainVars,
                 gfxVars, queue, mutex, active, window, windowSize, pending,
                 frameReq, sleeping, stop, cur>>

\* Nothing to show: straight to processEvents().
LoopIdle(w) ==
  /\ rtPc[w] = "loop" /\ active[w] /\ ~window[w]
  /\ GoTo(w, "events")
  /\ UNCHANGED <<guiVars, lockedForSync, platVars, loopVars, sceneVars, chainVars,
                 gfxVars, queue, mutex, active, window, windowSize, pending,
                 frameReq, sleeping, stop, cur>>

\* What createRhi() leaves behind: the first failure dooms the thread, one
\* after a device loss is retried in the next frame.  (Mutant: a failed retry is
\* recorded as something else.)
FailedRhi(w) == {"ready", "failed"}
CreatedRhi(w) ==
  CASE rhi[w] = "ready"  -> {"ready"}
    [] rhi[w] = "doomed" -> {"doomed"}
    [] rhi[w] = "none"   -> {"ready"} \cup (IF Fault("noRhi") THEN {"doomed"} ELSE {})
    [] rhi[w] = "lost"   -> {"ready"} \cup (IF Fault("noRhi") THEN {"lost"} ELSE {})

\* ensureRhi(), then into syncAndRender().
LoopFrame(w) ==
  /\ rtPc[w] = "loop" /\ active[w] /\ window[w]
  /\ GoTo(w, "frame")
  /\ \E r \in CreatedRhi(w) :
       /\ rhi' = [rhi EXCEPT ![w] = r]
       /\ sgInit' = [sgInit EXCEPT ![w] = @ \/ (r = "ready" /\ windowSize[w])]
       /\ swapchain' = [swapchain EXCEPT
                          ![w] = IF r = "ready" /\ @ = "none" THEN "new" ELSE @]
  /\ UNCHANGED <<guiVars, lockedForSync, platVars, loopVars, sceneVars, renderer,
                 hasRenderable, justRenderable, queue, mutex, active, window,
                 windowSize, pending, frameReq, sleeping, stop, cur>>

-----------------------------------------------------------------------------
(* syncAndRender(), up to sync() *)

AnyRequested(w)    == pending[w] # {}                         \* mutant: wrong mask
SyncRequested(w)   == "sync" \in pending[w]
ExposeRequested(w) == ExposeRequest \subseteq frameReq[w]

\* (Mutant: the swapchain is left to a QRhi that is gone.)
LoseRhiOnly(w) ==
  /\ renderer' = [renderer EXCEPT ![w] = FALSE]
  /\ sgInit'   = [sgInit EXCEPT ![w] = FALSE]
  /\ rhi'      = [rhi EXCEPT ![w] = "lost"]
  /\ UNCHANGED chainVars
HandleDeviceLoss(w) ==
  /\ renderer' = [renderer EXCEPT ![w] = FALSE]
  /\ sgInit'   = [sgInit EXCEPT ![w] = FALSE]
  /\ rhi'      = [rhi EXCEPT ![w] = "lost"]
  /\ ReleaseSwapchain(w)

PostFullUpdate(w) == fullUpdate' = [fullUpdate EXCEPT ![w] = TRUE]

\* The requests are read and cleared before anything else.  (Mutant: not cleared.)
ReadRequests(w) ==
  frameReq' = [frameReq EXCEPT ![w] = pending[w]] /\ UNCHANGED pending
TakeRequests(w) ==
  /\ frameReq' = [frameReq EXCEPT ![w] = pending[w]]
  /\ pending'  = [pending EXCEPT ![w] = {}]

\* The window has a swapchain and a size, so a frame is begun first.
BeginsFrame(w) == swapchain[w] # "none" /\ windowSize[w]

\* Early return: the surface has become empty.
FrameEmpty(w) ==
  /\ rtPc[w] = "frame" /\ BeginsFrame(w) /\ ~surface[w]
  /\ TakeRequests(w)
  /\ GoTo(w, "events")
  /\ UNCHANGED <<guiVars, lockedForSync, platVars, loopVars, sceneVars, chainVars,
                 gfxVars, queue, mutex, active, window, windowSize, sleeping, stop,
                 cur>>

\* Early return: createOrResize() finds the device lost.
FrameBuildLost(w) ==
  /\ Fault("buildLost")
  /\ rtPc[w] = "frame" /\ BeginsFrame(w) /\ surface[w]
  /\ TakeRequests(w)
  /\ HandleDeviceLoss(w)
  /\ PostFullUpdate(w)
  /\ GoTo(w, "events")
  /\ UNCHANGED <<guiVars, lockedForSync, platVars, loopVars, dirty, updateRequested,
                 queue, mutex, active, window, windowSize, sleeping, stop, cur>>

\* The swapchain is (re)built when it never was, when the window has just
\* become renderable, or when the surface's size differs (any time).
MustBuild(w) == swapchain[w] = "new" \/ justRenderable[w]
Build(w, state) ==
  \/ /\ ~MustBuild(w) /\ state = swapchain[w]
     /\ UNCHANGED chainVars
  \/ /\ state \in {"active"} \cup (IF Fault("buildFails") THEN {"failed"} ELSE {})
     /\ swapchain'      = [swapchain EXCEPT ![w] = state]
     /\ hasRenderable'  = [hasRenderable EXCEPT ![w] = (state = "active")]
     /\ justRenderable' = [justRenderable EXCEPT ![w] = FALSE]

\* "the same wake up logic that would have happened if beginFrame() had succeeded"
JustReturn(w) == GoTo(w, "events")                         \* mutant: no wake-up
AfterFailure(w) == GoTo(w, IF SyncRequested(w) THEN "failWake" ELSE "events")

\* beginFrame() fails, the device is still there: an error, or a swapchain
\* out of date (then the window is asked to update again).
FrameFails(w) ==
  /\ rtPc[w] = "frame" /\ BeginsFrame(w) /\ surface[w]
  /\ \E state \in {"active", "failed"} :
       /\ Build(w, state)
       /\ \/ (state = "failed" \/ Fault("frameError")) /\ UNCHANGED fullUpdate
          \/ Fault("frameOutOfDate") /\ PostFullUpdate(w)
  /\ TakeRequests(w)
  /\ AfterFailure(w)
  /\ UNCHANGED <<guiVars, lockedForSync, platVars, loopVars, dirty, updateRequested,
                 gfxVars, queue, mutex, active, window, windowSize, sleeping, stop,
                 cur>>

\* beginFrame() finds the device lost.
FrameLost(w) ==
  /\ Fault("frameLost")
  /\ rtPc[w] = "frame" /\ BeginsFrame(w) /\ surface[w]
  /\ HandleDeviceLoss(w)
  /\ PostFullUpdate(w)
  /\ TakeRequests(w)
  /\ AfterFailure(w)
  /\ UNCHANGED <<guiVars, lockedForSync, platVars, loopVars, dirty, updateRequested,
                 queue, mutex, active, window, windowSize, sleeping, stop, cur>>

\* The frame is begun, or there is none to begin; sync() comes next if asked.
FrameBegun(w) ==
  /\ rtPc[w] = "frame"
  /\ IF BeginsFrame(w) THEN surface[w] /\ Build(w, "active") ELSE UNCHANGED chainVars
  /\ TakeRequests(w)
  /\ GoTo(w, IF SyncRequested(w) THEN "syncLock" ELSE "render")
  /\ UNCHANGED <<guiVars, lockedForSync, platVars, loopVars, sceneVars, gfxVars,
                 queue, mutex, active, window, windowSize, sleeping, stop, cur>>

\* The wake-up after a failed beginFrame(): lock, wake, unlock.
FailWake(w) ==
  /\ rtPc[w] = "failWake" /\ mutex[w] = "free"
  /\ WakeGui(w)
  /\ GoTo(w, "events")
  /\ UNCHANGED <<lockedForSync, platVars, loopVars, sceneVars, chainVars, gfxVars,
                 queue, mutex, active, window, windowSize, pending, frameReq,
                 sleeping, stop, cur>>

-----------------------------------------------------------------------------
(* sync() and the rest of syncAndRender() *)

SyncLock(w) ==
  /\ rtPc[w] = "syncLock" /\ mutex[w] = "free"
  /\ mutex' = [mutex EXCEPT ![w] = "rt"]
  /\ GoTo(w, "sync")
  /\ UNCHANGED <<guiVars, lockedForSync, platVars, loopVars, sceneVars, chainVars,
                 gfxVars, queue, active, window, windowSize, pending, frameReq,
                 sleeping, stop, cur>>

\* syncSceneGraph() creates the renderer and clears the dirty list; with again,
\* an updatePaintNode() calls update() and maybeUpdate() records it.  (Mutant: it
\* does not.)
SyncOnce(w, again) ==
  /\ renderer' = [renderer EXCEPT ![w] = TRUE]
  /\ dirty'    = [dirty EXCEPT ![w] = again]
  /\ UNCHANGED updateDuringSync
SyncScene(w, again) ==
  /\ renderer' = [renderer EXCEPT ![w] = TRUE]
  /\ dirty'    = [dirty EXCEPT ![w] = again]
  /\ updateDuringSync' =
       [updateDuringSync EXCEPT ![w] = @ \/ (again /\ lockedForSync)]

CanSync(w) == rhi[w] = "ready" /\ windowSize[w]

\* In an expose the mutex stays locked until the frame is rendered.
Sync(w) ==
  /\ rtPc[w] = "sync"
  /\ IF CanSync(w)
     THEN \E again \in BOOLEAN : SyncScene(w, again)
     ELSE UNCHANGED <<renderer, dirty, updateDuringSync>>
  /\ IF ExposeRequested(w)
     THEN UNCHANGED <<guiVars, mutex>>
     ELSE WakeGui(w) /\ mutex' = [mutex EXCEPT ![w] = "free"]
  /\ GoTo(w, "render")
  /\ UNCHANGED <<lockedForSync, platVars, listed, forceRenderPass, updateRequested,
                 fullUpdate, chainVars, rhi, sgInit, queue, active, window,
                 windowSize, pending, frameReq, sleeping, stop, cur>>

CanRender(w) == renderer[w] /\ swapchain[w] # "none" /\ windowSize[w]

\* endFrame(): fine or an error; out of date; or the device is lost.
EndFrame(w) ==
  \/ UNCHANGED <<chainVars, gfxVars, fullUpdate>>
  \/ Fault("frameOutOfDate") /\ PostFullUpdate(w) /\ UNCHANGED <<chainVars, gfxVars>>
  \/ Fault("frameLost") /\ PostFullUpdate(w) /\ HandleDeviceLoss(w)

\* Clear what sync() itself asked for, render and present.  Animators advanced here, or anything drawn, may call
\* QQuickWindow::update(), which on this thread is requestRepaint().  After an
\* expose the GUI thread is woken only now.
Render(w) ==
  /\ rtPc[w] = "render"
  /\ \E repaint \in BOOLEAN :
       pending' = [pending EXCEPT ![w] = IF repaint THEN {"repaint"} ELSE {}]
  /\ IF CanRender(w) THEN EndFrame(w) ELSE UNCHANGED <<chainVars, gfxVars, fullUpdate>>
  /\ IF ExposeRequested(w)
     THEN WakeGui(w) /\ mutex' = [mutex EXCEPT ![w] = "free"]
     ELSE UNCHANGED <<guiVars, mutex>>
  /\ GoTo(w, "events")
  /\ UNCHANGED <<lockedForSync, platVars, loopVars, dirty, updateRequested, queue,
                 active, window, windowSize, frameReq, sleeping, stop, cur>>

-----------------------------------------------------------------------------
(* processEvents() and processEventsAndWaitForMore() *)

TakeEvent(w) ==
  /\ rtPc[w] \in {"events", "wait"} /\ queue[w] # <<>>
  /\ cur'   = [cur EXCEPT ![w] = Head(queue[w])]
  /\ queue' = [queue EXCEPT ![w] = Tail(@)]
  /\ GoTo(w, "handle")
  /\ UNCHANGED <<guiVars, lockedForSync, platVars, loopVars, sceneVars, chainVars,
                 gfxVars, mutex, active, window, windowSize, pending, frameReq,
                 sleeping, stop>>

\* No more events: sleep when there is nothing to draw, or another round.
WantsSleep(w) == active[w]                                 \* mutant: whatever is pending
CanSleep(w) == active[w] /\ (pending[w] = {} \/ ~window[w])
EventsDone(w) ==
  /\ rtPc[w] = "events" /\ queue[w] = <<>>
  /\ IF CanSleep(w)
     THEN /\ GoTo(w, "wait")
          /\ sleeping' = [sleeping EXCEPT ![w] = TRUE]
          /\ stop'     = [stop EXCEPT ![w] = FALSE]
     ELSE /\ GoTo(w, "loop")
          /\ UNCHANGED <<sleeping, stop>>
  /\ UNCHANGED <<guiVars, lockedForSync, platVars, loopVars, sceneVars, chainVars,
                 gfxVars, queue, mutex, active, window, windowSize, pending,
                 frameReq, cur>>

Handles(w, type) == rtPc[w] = "handle" /\ cur[w].type = type

\* The end of a handler; wakes says whether it sets stopEventProcessing (every
\* handler does so only "if (sleeping)").
Resume(w, wakes) ==
  /\ stop' = [stop EXCEPT ![w] = @ \/ (sleeping[w] /\ wakes)]
  /\ GoTo(w, IF ~sleeping[w] THEN "events" ELSE IF stop'[w] THEN "loop" ELSE "wait")
  /\ sleeping' = [sleeping EXCEPT ![w] = @ /\ ~stop'[w]]
  /\ cur' = [cur EXCEPT ![w] = NoEvent]

HandleObscure(w) ==
  /\ Handles(w, "Obscure") /\ mutex[w] = "free"
  /\ window' = [window EXCEPT ![w] = FALSE]
  /\ WakeGui(w)
  /\ Resume(w, FALSE)
  /\ UNCHANGED <<lockedForSync, platVars, loopVars, sceneVars, chainVars, gfxVars,
                 queue, mutex, active, windowSize, pending, frameReq>>

SyncFlags(opts) ==                                         \* mutant: no ExposeRequest
  {"sync"} \cup (IF "force" \in opts THEN {"repaint"} ELSE {})
RequestedFlags(opts) ==
  {"sync"} \cup (IF "expose" \in opts THEN ExposeRequest ELSE {})
           \cup (IF "force" \in opts THEN {"repaint"} ELSE {})

HandleRequestSync(w) ==
  /\ Handles(w, "RequestSync")
  /\ window'     = [window EXCEPT ![w] = TRUE]
  /\ windowSize' = [windowSize EXCEPT ![w] = "sized" \in cur[w].opts]
  /\ pending'    = [pending EXCEPT ![w] = @ \cup RequestedFlags(cur[w].opts)]
  /\ Resume(w, TRUE)
  /\ UNCHANGED <<guiVars, lockedForSync, platVars, loopVars, sceneVars, chainVars,
                 gfxVars, queue, mutex, active, frameReq>>

\* invalidateGraphics(): nothing without a QRhi; a persistent scene graph keeps
\* everything, persistent graphics the QRhi and the swapchain.
WipesSG(w, dtor) == dtor \/ w \notin PersistentSG
WipesGraphics(w, dtor) ==
  dtor \/ (w \notin PersistentSG /\ w \notin PersistentGraphics)
InvalidateGraphics(w, dtor) ==
  IF rhi[w] # "ready" \/ ~WipesSG(w, dtor)
  THEN UNCHANGED <<gfxVars, chainVars>>
  ELSE /\ renderer' = [renderer EXCEPT ![w] = FALSE]
       /\ sgInit'   = [sgInit EXCEPT ![w] = FALSE]
       /\ IF WipesGraphics(w, dtor)
          THEN /\ rhi' = [rhi EXCEPT ![w] = "none"]
               /\ IF handle[w] THEN ReleaseSwapchain(w) ELSE UNCHANGED chainVars
          ELSE UNCHANGED <<rhi, chainVars>>

\* Not while the window shows, unless it is being destroyed.  (Mutant: at any time.)
ReleasesAnyway(w, dtor) == TRUE
MayRelease(w, dtor) == ~window[w] \/ dtor

\* m_lockedForSync is set for the duration, then reset, whatever it was.
HandleTryRelease(w) ==
  LET dtor == "destructor" \in cur[w].opts IN
  /\ Handles(w, "TryRelease") /\ mutex[w] = "free"
  /\ IF MayRelease(w, dtor)
     THEN /\ InvalidateGraphics(w, dtor)
          /\ active' = [active EXCEPT ![w] = (rhi'[w] = "ready")]
          /\ Resume(w, TRUE)
     ELSE /\ UNCHANGED <<gfxVars, chainVars, active>>
          /\ Resume(w, FALSE)
  /\ WakeGui(w)
  /\ lockedForSync' = FALSE
  /\ UNCHANGED <<platVars, loopVars, sceneVars, queue, mutex, window, windowSize,
                 pending, frameReq>>

\* Needs the swapchain; syncs like sync() but renders into an image.  As in Render(),
\* drawing may call update(), here requestRepaint().
HandleGrab(w) ==
  /\ Handles(w, "Grab") /\ mutex[w] = "free"
  /\ IF rhi[w] = "ready"
     THEN \E again, repaint \in BOOLEAN :
            /\ SyncScene(w, again)
            /\ pending' = [pending EXCEPT ![w] = @ \cup (IF repaint /\ window[w]
                                                        THEN {"repaint"} ELSE {})]
            /\ Resume(w, repaint)
     ELSE /\ UNCHANGED <<renderer, dirty, updateDuringSync, pending>>
          /\ Resume(w, FALSE)
  /\ WakeGui(w)
  /\ UNCHANGED <<lockedForSync, platVars, listed, forceRenderPass, updateRequested,
                 fullUpdate, chainVars, rhi, sgInit, queue, mutex, active, window,
                 windowSize, frameReq>>

\* The job runs if the window is still shown; it may call update().
HandlePostJob(w) ==
  /\ Handles(w, "PostJob")
  /\ \E update \in (IF window[w] THEN BOOLEAN ELSE {FALSE}) :
       /\ pending' = [pending EXCEPT ![w] = @ \cup (IF update THEN {"repaint"} ELSE {})]
       /\ Resume(w, update)
  /\ UNCHANGED <<guiVars, lockedForSync, platVars, loopVars, sceneVars, chainVars,
                 gfxVars, queue, mutex, active, window, windowSize, frameReq>>

HandleReleaseSwapchain(w) ==
  /\ Handles(w, "ReleaseSwapchain") /\ mutex[w] = "free"
  /\ ReleaseSwapchain(w)
  /\ WakeGui(w)
  /\ Resume(w, FALSE)
  /\ UNCHANGED <<lockedForSync, platVars, loopVars, sceneVars, gfxVars, queue, mutex,
                 active, window, windowSize, pending, frameReq>>

-----------------------------------------------------------------------------
RenderStep(w) ==
  \/ LoopExit(w) \/ LoopIdle(w) \/ LoopFrame(w)
  \/ FrameEmpty(w) \/ FrameBuildLost(w) \/ FrameFails(w) \/ FrameLost(w)
  \/ FrameBegun(w) \/ FailWake(w) \/ SyncLock(w) \/ Sync(w) \/ Render(w)
  \/ TakeEvent(w) \/ EventsDone(w)
  \/ HandleObscure(w) \/ HandleRequestSync(w) \/ HandleTryRelease(w)
  \/ HandleGrab(w) \/ HandlePostJob(w) \/ HandleReleaseSwapchain(w)

=============================================================================
