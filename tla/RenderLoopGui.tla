---------------------------- MODULE RenderLoopGui ----------------------------
(***************************************************************************)
(* The GUI thread: QSGThreadedRenderLoop and the QQuickWindow entry points *)
(* that call it, with the platform and the application as its environment. *)
(*                                                                         *)
(* An operation that has to wait for a render thread is a list of blocking *)
(* steps in guiTodo; each step locks the thread's mutex and posts an event *)
(* ("locked"), waits on its condition ("blocked"), is woken, and has its   *)
(* own continuation.  The event loop runs only when guiTodo is empty.      *)
(***************************************************************************)
EXTENDS RenderLoopState

ThisStep == Head(guiTodo)
Doing(step) == guiTodo # <<>> /\ ThisStep = step

\* The current step is over: on to the next one, or back to the event loop.
StepDone ==
  /\ guiPc' = "idle"
  /\ guiTodo' = Tail(guiTodo)
  /\ UNCHANGED guiWin

Start(w, steps) ==
  /\ guiWin' = w
  /\ guiTodo' = steps
  /\ UNCHANGED guiPc

-----------------------------------------------------------------------------
(* Update requests *)

\* maybeUpdate() outside polishing: QWindow::requestUpdate() if a render
\* thread runs.  (Mutant: only from a thread that is awake.)
MaybeUpdateAwake(w) ==
  updateRequested' = [updateRequested EXCEPT
                        ![w] = @ \/ (listed[w] /\ IsRunning(w) /\ rtPc[w] # "wait")]
MaybeUpdate(w) ==
  updateRequested' = [updateRequested EXCEPT ![w] = @ \/ (listed[w] /\ IsRunning(w))]

\* The QML scene of the window changes: an item is added to the dirty list.
Change(w) ==
  /\ "change" \in Calls /\ GuiFree
  /\ dirty' = [dirty EXCEPT ![w] = TRUE]
  /\ MaybeUpdate(w)
  /\ UNCHANGED <<guiVars, lockedForSync, platVars, loopVars, fullUpdate, chainVars,
                 threadVars, gfxVars, queue, mutex>>

\* QQuickWindow::update() on the GUI thread.
UpdateWindow(w) ==
  /\ forceRenderPass' = [forceRenderPass EXCEPT ![w] = @ \/ listed[w]]
  /\ MaybeUpdate(w)

Update(w) ==
  /\ "update" \in Calls /\ GuiFree
  /\ UpdateWindow(w)
  /\ UNCHANGED <<guiVars, lockedForSync, platVars, listed, updateDuringSync, dirty,
                 fullUpdate, chainVars, threadVars, gfxVars, queue, mutex>>

\* The FullUpdateRequest event a render thread posted is delivered.
DeliverFullUpdate(w) ==
  /\ GuiFree /\ fullUpdate[w]
  /\ fullUpdate' = [fullUpdate EXCEPT ![w] = FALSE]
  /\ UpdateWindow(w)
  /\ UNCHANGED <<guiVars, lockedForSync, platVars, listed, updateDuringSync, dirty,
                 chainVars, threadVars, gfxVars, queue, mutex>>

\* QEvent::UpdateRequest: handleUpdateRequest().
DeliverUpdateRequest(w) ==
  /\ GuiFree /\ updateRequested[w]
  /\ updateRequested' = [updateRequested EXCEPT ![w] = FALSE]
  /\ Start(w, IF listed[w] THEN <<"sync">> ELSE <<>>)
  /\ UNCHANGED <<lockedForSync, platVars, loopVars, dirty, fullUpdate, chainVars,
                 threadVars, gfxVars, queue, mutex>>

-----------------------------------------------------------------------------
(* Operations: what they do at once, and the blocking steps they start *)

\* QWindow::show(): the platform window exists from here on.
Show(w) ==
  /\ GuiFree /\ ~visible[w]
  /\ visible' = [visible EXCEPT ![w] = TRUE]
  /\ handle'  = [handle EXCEPT ![w] = TRUE]
  /\ UNCHANGED <<guiVars, lockedForSync, exposed, area, surface, loopVars, sceneVars,
                 chainVars, threadVars, gfxVars, queue, mutex>>

\* handleExposure(), up to its polishAndSync(): list the window, hand it to its
\* thread, start the thread if it does not run.
HandleExposure(w) ==
  /\ listed' = [listed EXCEPT ![w] = TRUE]
  /\ forceRenderPass'  = [forceRenderPass EXCEPT ![w] = @ \/ ~listed[w]]
  /\ updateDuringSync' = [updateDuringSync EXCEPT ![w] = @ /\ listed[w]]
  /\ window' = [window EXCEPT ![w] = TRUE]
  /\ IF IsRunning(w)
     THEN UNCHANGED <<active, rtPc>>
     ELSE /\ active' = [active EXCEPT ![w] = TRUE]
          /\ rtPc'   = [rtPc EXCEPT ![w] = "loop"]
  /\ Start(w, <<"syncExpose">>)
  /\ UNCHANGED <<windowSize, pending, frameReq, sleeping, stop, cur>>

\* exposureChanged() on an exposed window.  It is skipped when a built swapchain
\* has an empty surface.
Expose(w) ==
  LET skip    == swapchain[w] = "active" /\ ~surface[w]
      becomes == swapchain[w] = "active" /\ surface[w] /\ ~hasRenderable[w]
  IN
  /\ GuiFree /\ visible[w] /\ handle[w]
  /\ exposed' = [exposed EXCEPT ![w] = TRUE]
  /\ hasRenderable'  = [hasRenderable EXCEPT ![w] = ~skip /\ (@ \/ becomes)]
  /\ justRenderable' = [justRenderable EXCEPT ![w] = @ \/ becomes]
  /\ IF skip THEN UNCHANGED <<guiVars, loopVars, threadVars>> ELSE HandleExposure(w)
  /\ UNCHANGED <<lockedForSync, visible, handle, area, surface, sceneVars, swapchain,
                 gfxVars, queue, mutex>>

\* exposureChanged() on a window no longer exposed: handleObscurity().
Obscure(w) ==
  /\ GuiFree /\ exposed[w]
  /\ exposed' = [exposed EXCEPT ![w] = FALSE]
  /\ hasRenderable' = [hasRenderable EXCEPT ![w] = FALSE]
  /\ Start(w, IF listed[w] THEN <<"obscure">> ELSE <<>>)
  /\ UNCHANGED <<lockedForSync, visible, handle, area, surface, loopVars, sceneVars,
                 swapchain, justRenderable, threadVars, gfxVars, queue, mutex>>

\* hide(): handleObscurity() if exposed, releaseResources(w, false).
ReleaseOnly(w) == IF listed[w] THEN <<"release">> ELSE <<>>     \* mutant: not obscured
HideSteps(w) ==
  IF listed[w]
  THEN (IF exposed[w] THEN <<"obscure">> ELSE <<>>) \o <<"release">>
  ELSE <<>>

Hide(w) ==
  /\ "hide" \in Calls /\ GuiFree /\ visible[w]
  /\ visible' = [visible EXCEPT ![w] = FALSE]
  /\ Start(w, HideSteps(w))
  /\ UNCHANGED <<lockedForSync, exposed, handle, area, surface, loopVars, sceneVars,
                 chainVars, threadVars, gfxVars, queue, mutex>>

\* QWindow::destroy(), which hides first: SurfaceAboutToBeDestroyed goes to the
\* event filter, then to the window, which calls hide().
DestroySurface(w) ==
  /\ "destroySurface" \in Calls /\ GuiFree /\ ~visible[w] /\ handle[w]
  /\ Start(w, (IF listed[w] THEN <<"releaseSwapchain">> ELSE <<>>)
                \o HideSteps(w) \o <<"destroyHandle">>)
  /\ UNCHANGED <<lockedForSync, platVars, loopVars, sceneVars, chainVars, threadVars,
                 gfxVars, queue, mutex>>

\* ~QQuickWindow: windowDestroyed().
DestroyWindow(w) ==
  /\ "destroyWindow" \in Calls /\ GuiFree
  /\ Start(w, IF listed[w] THEN <<"obscure", "destroyRelease", "delete">>
                           ELSE <<"delete">>)
  /\ UNCHANGED <<lockedForSync, platVars, loopVars, sceneVars, chainVars, threadVars,
                 gfxVars, queue, mutex>>

\* QQuickWindow::releaseResources()
Release(w) ==
  /\ "release" \in Calls /\ GuiFree /\ listed[w]
  /\ Start(w, <<"release">>)
  /\ UNCHANGED <<lockedForSync, platVars, loopVars, sceneVars, chainVars, threadVars,
                 gfxVars, queue, mutex>>

\* QQuickWindow::grabWindow(), the branch that reaches the render loop: the
\* window is renderable, or its scene graph is initialized.
Grab(w) ==
  /\ "grab" \in Calls /\ GuiFree /\ listed[w]
  /\ (exposed[w] /\ visible[w] /\ area[w]) \/ sgInit[w]
  /\ Start(w, <<"grab">>)
  /\ UNCHANGED <<lockedForSync, platVars, loopVars, sceneVars, chainVars, threadVars,
                 gfxVars, queue, mutex>>

\* scheduleRenderJob(NoStage) and postJob().
PostJob(w) ==
  /\ "postJob" \in Calls /\ GuiFree /\ exposed[w] /\ listed[w] /\ window[w]
  /\ Len(queue[w]) < MaxJobs
  /\ AddEvent(w, Ev("PostJob", {}))
  /\ UNCHANGED <<guiVars, lockedForSync, platVars, loopVars, sceneVars, chainVars,
                 threadVars, gfxVars, mutex>>

\* The window gets a zero size, or a proper one again.
ResizeWindow(w) ==
  /\ "zeroSize" \in Faults /\ GuiFree
  /\ area' = [area EXCEPT ![w] = ~@]
  /\ UNCHANGED <<guiVars, lockedForSync, visible, exposed, handle, surface, loopVars,
                 sceneVars, chainVars, threadVars, gfxVars, queue, mutex>>

\* The windowing system changes the native surface, whatever the threads do.
ResizeSurface(w) ==
  /\ "emptySurface" \in Faults
  /\ surface' = [surface EXCEPT ![w] = ~@]
  /\ UNCHANGED <<guiVars, lockedForSync, visible, exposed, handle, area, loopVars,
                 sceneVars, chainVars, threadVars, gfxVars, queue, mutex>>

-----------------------------------------------------------------------------
(* The blocking steps *)

\* Whether the step posts at all: otherwise it is skipped.
Posts(w, step) ==
  CASE step \in SyncSteps -> window[w]
    [] step \in {"obscure", "releaseSwapchain", "grab"} -> IsRunning(w)
    [] step \in {"release", "destroyRelease"} -> IsRunning(w) /\ active[w]
    [] OTHER -> FALSE

\* The event it posts.
StepEvent(w, step) ==
  CASE step \in SyncSteps ->
         Ev("RequestSync", (IF step = "syncExpose" THEN {"expose"} ELSE {})
                           \cup (IF forceRenderPass[w] THEN {"force"} ELSE {})
                           \cup (IF area[w] THEN {"sized"} ELSE {}))
    [] step = "obscure"          -> Ev("Obscure", {})
    [] step = "release"          -> Ev("TryRelease", {})
    [] step = "destroyRelease"   -> Ev("TryRelease", {"destructor"})
    [] step = "grab"             -> Ev("Grab", {})
    [] step = "releaseSwapchain" -> Ev("ReleaseSwapchain", {})

\* polishAndSync() is aborted on a window not exposed; the other steps find no
\* running thread.
SkipStep(w) ==
  /\ guiPc = "idle" /\ guiWin = w /\ guiTodo # <<>>
  /\ ThisStep \notin {"destroyHandle", "delete"}
  /\ ~Posts(w, ThisStep)
  /\ StepDone
  /\ UNCHANGED <<lockedForSync, platVars, loopVars, sceneVars, chainVars, threadVars,
                 gfxVars, queue, mutex>>

\* polishItems(): an updatePolish() may dirty items, and maybeUpdate() drops the
\* request (m_inPolish).  grab() has created a missing platform window before,
\* polishAndSync() resets updateDuringSync after.
Polish(w) ==
  /\ guiPc = "idle" /\ guiWin = w
  /\ Doing("sync") \/ Doing("syncExpose") \/ Doing("grab")
  /\ Posts(w, ThisStep)
  /\ guiPc' = "polished"
  /\ \E d \in {dirty[w], "change" \in Calls \/ dirty[w]} :
       dirty' = [dirty EXCEPT ![w] = d]
  /\ updateDuringSync' = [updateDuringSync EXCEPT ![w] = @ /\ ThisStep = "grab"]
  /\ handle' = [handle EXCEPT ![w] = @ \/ ThisStep = "grab"]
  /\ UNCHANGED <<guiWin, guiTodo, lockedForSync, visible, exposed, area, surface,
                 listed, forceRenderPass, updateRequested, fullUpdate, chainVars,
                 threadVars, gfxVars, queue, mutex>>

\* Lock the thread's mutex and post the event.  Syncs and grabs follow polishing;
\* releaseResources() looks at the thread under the mutex, like here.
LockAndPost(w) ==
  /\ guiWin = w /\ guiTodo # <<>>
  /\ guiPc = (IF ThisStep \in SyncSteps \cup {"grab"} THEN "polished" ELSE "idle")
  /\ Posts(w, ThisStep)
  /\ mutex[w] = "free"
  /\ mutex' = [mutex EXCEPT ![w] = "gui"]
  /\ AddEvent(w, StepEvent(w, ThisStep))
  /\ lockedForSync' = (lockedForSync \/ ThisStep \in SyncSteps \cup {"grab"})
  /\ forceRenderPass' = [forceRenderPass EXCEPT ![w] = @ /\ ThisStep \notin SyncSteps]
  /\ guiPc' = "locked"
  /\ UNCHANGED <<guiWin, guiTodo, platVars, listed, updateDuringSync, sceneVars,
                 chainVars, threadVars, gfxVars>>

\* waitCondition.wait(&mutex): gives up the mutex and waits, atomically.  (Mutant: a
\* wait that returns at once.)
UnlockAndGoOn(w) ==
  /\ guiPc = "locked" /\ guiWin = w
  /\ mutex' = [mutex EXCEPT ![w] = "free"]
  /\ guiPc' = "woken"
  /\ UNCHANGED <<guiWin, guiTodo, lockedForSync, platVars, loopVars, sceneVars,
                 chainVars, threadVars, gfxVars, queue>>
WaitForWake(w) ==
  /\ guiPc = "locked" /\ guiWin = w
  /\ mutex' = [mutex EXCEPT ![w] = "free"]
  /\ guiPc' = "blocked"
  /\ UNCHANGED <<guiWin, guiTodo, lockedForSync, platVars, loopVars, sceneVars,
                 chainVars, threadVars, gfxVars, queue>>

\* Back from the wait with the mutex.
WokenIn(w, steps) ==
  guiPc = "woken" /\ guiWin = w /\ mutex[w] = "free" /\ ThisStep \in steps

\* polishAndSync() after the wait: the next update is requested if one was asked for
\* while syncing, or if an animation runs (what it changes is a Change).
FinishSync(w) ==
  /\ WokenIn(w, SyncSteps)
  /\ lockedForSync' = FALSE
  /\ \E animating \in {FALSE, "animate" \in Calls} :
       updateRequested' =
         [updateRequested EXCEPT ![w] = @ \/ animating \/ updateDuringSync[w]]
  /\ StepDone
  /\ UNCHANGED <<platVars, loopVars, dirty, fullUpdate, chainVars, threadVars,
                 gfxVars, queue, mutex>>

FinishGrab(w) ==
  /\ WokenIn(w, {"grab"})
  /\ lockedForSync' = FALSE
  /\ StepDone
  /\ UNCHANGED <<platVars, loopVars, sceneVars, chainVars, threadVars, gfxVars, queue,
                 mutex>>

FinishOther(w) ==
  /\ WokenIn(w, {"obscure", "releaseSwapchain"})
  /\ StepDone
  /\ UNCHANGED <<lockedForSync, platVars, loopVars, sceneVars, chainVars, threadVars,
                 gfxVars, queue, mutex>>

\* releaseResources(): if the thread is going to finish, wait for that with the
\* mutex locked.  (Mutant: it does not wait.)
GoesOnUnjoined(w) ==
  /\ WokenIn(w, {"release", "destroyRelease"})
  /\ StepDone
  /\ UNCHANGED <<lockedForSync, platVars, loopVars, sceneVars, chainVars, threadVars,
                 gfxVars, queue, mutex>>
FinishRelease(w) ==
  /\ WokenIn(w, {"release", "destroyRelease"})
  /\ IF active[w]
     THEN StepDone /\ UNCHANGED mutex
     ELSE /\ guiPc' = "join"
          /\ mutex' = [mutex EXCEPT ![w] = "gui"]
          /\ UNCHANGED <<guiWin, guiTodo>>
  /\ UNCHANGED <<lockedForSync, platVars, loopVars, sceneVars, chainVars, threadVars,
                 gfxVars, queue>>

JoinThread(w) ==
  /\ guiPc = "join" /\ guiWin = w /\ ~IsRunning(w)
  /\ mutex' = [mutex EXCEPT ![w] = "free"]
  /\ StepDone
  /\ UNCHANGED <<lockedForSync, platVars, loopVars, sceneVars, chainVars, threadVars,
                 gfxVars, queue>>

\* The platform window is gone.
DestroyHandle(w) ==
  /\ guiPc = "idle" /\ guiWin = w /\ Doing("destroyHandle")
  /\ handle'  = [handle EXCEPT ![w] = FALSE]
  /\ exposed' = [exposed EXCEPT ![w] = FALSE]
  /\ StepDone
  /\ UNCHANGED <<lockedForSync, visible, area, surface, loopVars, sceneVars, chainVars,
                 threadVars, gfxVars, queue, mutex>>

\* The rest of windowDestroyed(), once the thread does not run, and of the
\* destructors: the window is as one that was never shown (a new one may take
\* its place).
DeleteWindow(w) ==
  LET Off(f) == [f EXCEPT ![w] = FALSE] IN
  /\ guiPc = "idle" /\ guiWin = w /\ Doing("delete") /\ ~IsRunning(w)
  /\ visible' = Off(visible) /\ exposed' = Off(exposed) /\ handle' = Off(handle)
  /\ area' = [area EXCEPT ![w] = TRUE] /\ surface' = [surface EXCEPT ![w] = TRUE]
  /\ listed' = Off(listed)
  /\ updateDuringSync' = Off(updateDuringSync)
  /\ forceRenderPass' = Off(forceRenderPass)
  /\ dirty' = [dirty EXCEPT ![w] = TRUE]
  /\ updateRequested' = Off(updateRequested) /\ fullUpdate' = Off(fullUpdate)
  /\ renderer' = Off(renderer) /\ sgInit' = Off(sgInit)
  /\ rhi' = [rhi EXCEPT ![w] = "none"]
  /\ ReleaseSwapchain(w)
  /\ active' = Off(active) /\ window' = Off(window) /\ windowSize' = Off(windowSize)
  /\ pending' = [pending EXCEPT ![w] = {}]
  /\ frameReq' = [frameReq EXCEPT ![w] = {}]
  /\ sleeping' = Off(sleeping) /\ stop' = Off(stop)
  /\ cur' = [cur EXCEPT ![w] = NoEvent]
  /\ queue' = [queue EXCEPT ![w] = <<>>]
  /\ StepDone
  /\ UNCHANGED <<lockedForSync, rtPc, mutex>>

-----------------------------------------------------------------------------
\* What the application and the platform start; and what the GUI thread goes on
\* with by itself.
GuiCall(w) ==
  \/ Change(w) \/ Update(w) \/ Show(w) \/ Expose(w) \/ Obscure(w) \/ Hide(w)
  \/ DestroySurface(w) \/ DestroyWindow(w) \/ Release(w) \/ Grab(w) \/ PostJob(w)
  \/ ResizeWindow(w) \/ ResizeSurface(w)

GuiEvent(w) == DeliverFullUpdate(w) \/ DeliverUpdateRequest(w)

GuiProgress(w) ==
  \/ SkipStep(w) \/ Polish(w) \/ LockAndPost(w) \/ WaitForWake(w)
  \/ FinishSync(w) \/ FinishGrab(w) \/ FinishOther(w) \/ FinishRelease(w)
  \/ JoinThread(w) \/ DestroyHandle(w) \/ DeleteWindow(w)

=============================================================================
