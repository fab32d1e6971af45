------------------------- MODULE RenderLoopGraphics -------------------------
(***************************************************************************)
(* The graphics of ThreadedRenderLoop, proved for any set of windows and   *)
(* whatever the graphics stack does wrong: every step preserves GfxInv of  *)
(* RenderLoopInv, and GfxInv says that nothing of a window's graphics      *)
(* outlives what it is built on, that a thread ends clean, and that a      *)
(* hidden window is drawn no more.  On top of it UpdInv, for graphics that *)
(* fail only by losing the device: no update of a shown window is lost.    *)
(***************************************************************************)
EXTENDS RenderLoopProofs

-----------------------------------------------------------------------------
(* Steps of a render thread.                                                *)

\* A render thread touches the graphics of its own window only.
LEMMA GraphicsFrame ==
  ASSUME TypeOK, NEW w \in Windows, RenderStep(w)
  PROVE  /\ UNCHANGED <<visible, exposed, handle, listed>>
         /\ \A v \in Windows \ {w} :
              /\ swapchain'[v] = swapchain[v] /\ hasRenderable'[v] = hasRenderable[v]
              /\ justRenderable'[v] = justRenderable[v] /\ rhi'[v] = rhi[v]
              /\ sgInit'[v] = sgInit[v] /\ renderer'[v] = renderer[v]
<1> USE DEF TypeOK, ChainType, GfxType, platVars, loopVars, chainVars, gfxVars
<1>1. CASE LoopExit(w) \/ LoopIdle(w) \/ FrameEmpty(w) \/ FailWake(w) \/ SyncLock(w)
           \/ TakeEvent(w) \/ EventsDone(w) \/ HandleObscure(w) \/ HandleRequestSync(w)
           \/ HandlePostJob(w)
  BY <1>1 DEF LoopExit, LoopIdle, FrameEmpty, FailWake, SyncLock, TakeEvent, EventsDone,
     HandleObscure, HandleRequestSync, HandlePostJob
<1>2. CASE LoopFrame(w) BY <1>2 DEF LoopFrame
<1>3. CASE FrameBuildLost(w) \/ FrameLost(w)
  BY <1>3 DEF FrameBuildLost, FrameLost, HandleDeviceLoss, ReleaseSwapchain
<1>4. CASE FrameFails(w) \/ FrameBegun(w)
  BY <1>4 DEF FrameFails, FrameBegun, Build
<1>5. CASE Sync(w) \/ HandleGrab(w)
  BY <1>5 DEF Sync, HandleGrab, SyncScene
<1>6. CASE Render(w)
  BY <1>6 DEF Render, EndFrame, HandleDeviceLoss, ReleaseSwapchain
<1>7. CASE HandleTryRelease(w)
  <2>1. UNCHANGED <<gfxVars, chainVars>>
        \/ InvalidateGraphics(w, "destructor" \in cur[w].opts)
    BY <1>7 DEF HandleTryRelease
  <2> QED BY <1>7, <2>1 DEF HandleTryRelease, InvalidateGraphics, ReleaseSwapchain
<1>8. CASE HandleReleaseSwapchain(w)
  BY <1>8 DEF HandleReleaseSwapchain, ReleaseSwapchain
<1> QED BY <1>1, <1>2, <1>3, <1>4, <1>5, <1>6, <1>7, <1>8 DEF RenderStep

\* A window keeps its part of the invariant while nothing of it changes and the GUI
\* thread's plan still has it obscured, if it had to.
LEMMA OtherWindowGfx ==
  ASSUME NEW v \in Windows, WinGfx(v),
         visible'[v] = visible[v], exposed'[v] = exposed[v], handle'[v] = handle[v],
         listed'[v] = listed[v], swapchain'[v] = swapchain[v],
         hasRenderable'[v] = hasRenderable[v], justRenderable'[v] = justRenderable[v],
         rhi'[v] = rhi[v], sgInit'[v] = sgInit[v], renderer'[v] = renderer[v],
         queue'[v] = queue[v], rtPc'[v] = rtPc[v], active'[v] = active[v],
         window'[v] = window[v], pending'[v] = pending[v], frameReq'[v] = frameReq[v],
         cur'[v] = cur[v],
         GuiWaitsFor(v)' => GuiWaitsFor(v) /\ ThisStep' = ThisStep,
         window[v] /\ guiWin = v /\ Ahead("obscure") /\ ~(visible[v] /\ exposed[v])
           => guiWin' = v /\ Ahead("obscure")'
  PROVE  WinGfx(v)'
<1>1. ShownInv(v)' BY DEF WinGfx, ShownInv
<1>2. NestInv(v)' BY DEF WinGfx, NestInv
<1>3. CleanInv(v)' BY DEF WinGfx, CleanInv, InHandler
<1>4. ExposeInv(v)'
  BY DEF WinGfx, ExposeInv, InHandler, InFlags, ExposeRequested, ExposeRequest
<1> QED BY <1>1, <1>2, <1>3, <1>4 DEF WinGfx

\* What the rendezvous says of the event a render thread handles.
LEMMA HandlerAsks ==
  ASSUME GfxInv, NEW w \in Windows, rtPc[w] = "handle", cur[w].type \in Blocking
  PROVE  /\ GuiWaitsFor(w) /\ cur[w].type = TypeOf(ThisStep) /\ queue[w] = <<>>
         /\ "destructor" \in cur[w].opts => ~window[w]
         /\ ThisStep = "syncExpose" => "expose" \in cur[w].opts
<1>1. InHandler(w) BY DEF InHandler
<1>2. /\ GuiWaitsFor(w) /\ Asks(cur[w])
  BY <1>1 DEF GfxInv, IInv, WinInv, OweInv, OwesWake, RequestInv
<1>3. queue[w] = <<>> BY <1>1 DEF GfxInv, WinGfx, CleanInv
<1>4. ASSUME ThisStep = "destroyRelease" PROVE ~window[w]
  <2>1. guiTodo \in Seq(Steps) /\ guiTodo # <<>> /\ guiWin = w
    BY <1>2 DEF GfxInv, IInv, TypeOK, GuiType, GuiInv, InStep, GuiWaitsFor
  <2>2. 1 \in 1..Len(guiTodo) /\ guiTodo[1] = "destroyRelease"
    BY <1>4, <2>1 DEF ThisStep
  <2> QED BY <2>1, <2>2 DEF GfxInv, IInv, GuiInv
<1>5. ThisStep = "syncExpose" => "expose" \in cur[w].opts
  BY <1>1, <1>2 DEF GfxInv, WinGfx, ExposeInv
<1> QED BY <1>2, <1>3, <1>4, <1>5 DEF Asks

\* The GUI thread is woken by the request it waits for: only the answer to
\* WM_ReleaseSwapchain ends the wait for it.
LEMMA WakesReleasing ==
  ASSUME GfxInv, NEW w \in Windows, RenderStep(w),
         guiPc = "blocked", guiPc' = "woken", ThisStep = "releaseSwapchain"
  PROVE  guiWin = w /\ swapchain'[w] = "none"
<1>1. guiWin = w BY RenderFrame DEF GfxInv, IInv
<1>2. TypeOK BY DEF GfxInv, IInv
<1>3. ~InFrame(w) BY DEF GfxInv, IInv, WinInv, RequestInv, SyncSteps
<1>4. rtPc[w] = "handle" /\ cur[w].type \in Blocking => cur[w].type = "ReleaseSwapchain"
  BY HandlerAsks DEF TypeOf, SyncSteps, ReleaseSteps
<1>5. ASSUME LoopExit(w) \/ LoopIdle(w) \/ LoopFrame(w) \/ FrameEmpty(w)
          \/ FrameBuildLost(w) \/ FrameFails(w) \/ FrameLost(w) \/ FrameBegun(w)
          \/ SyncLock(w) \/ TakeEvent(w) \/ EventsDone(w) \/ HandleRequestSync(w)
          \/ HandlePostJob(w)
      PROVE  FALSE
  BY <1>5 DEF LoopExit, LoopIdle, LoopFrame, FrameEmpty, FrameBuildLost, FrameFails,
     FrameLost, FrameBegun, SyncLock, TakeEvent, EventsDone, HandleRequestSync,
     HandlePostJob, guiVars
<1>6. ASSUME FailWake(w) \/ Sync(w) \/ Render(w) PROVE FALSE
  BY <1>3, <1>6 DEF FailWake, Sync, Render, guiVars, InFrame
<1>7. ASSUME HandleTryRelease(w) \/ HandleGrab(w) \/ HandleObscure(w) PROVE FALSE
  BY <1>4, <1>7 DEF HandleTryRelease, HandleGrab, HandleObscure, Handles, Blocking,
     EventTypes
<1>8. HandleReleaseSwapchain(w) BY <1>5, <1>6, <1>7 DEF RenderStep
<1> QED BY <1>1, <1>2, <1>8 DEF HandleReleaseSwapchain, ReleaseSwapchain, TypeOK, ChainType

\* invalidateGraphics() takes the swapchain with the QRhi: without a platform window
\* there is none.
LEMMA InvalidateNest ==
  ASSUME TypeOK, NEW w \in Windows, NestInv(w), NEW dtor, InvalidateGraphics(w, dtor),
         UNCHANGED <<handle, listed>>
  PROVE  NestInv(w)'
<1> USE DEF TypeOK, ChainType, GfxType, NestInv, gfxVars, chainVars
<1>1. CASE UNCHANGED <<gfxVars, chainVars>> BY <1>1
<1>2. CASE /\ renderer' = [renderer EXCEPT ![w] = FALSE]
           /\ sgInit'   = [sgInit EXCEPT ![w] = FALSE]
           /\ UNCHANGED <<rhi, chainVars>>
  BY <1>2
<1>3. CASE /\ renderer' = [renderer EXCEPT ![w] = FALSE]
           /\ sgInit'   = [sgInit EXCEPT ![w] = FALSE]
           /\ rhi' = [rhi EXCEPT ![w] = "none"]
           /\ IF handle[w] THEN ReleaseSwapchain(w) ELSE UNCHANGED chainVars
  BY <1>3 DEF ReleaseSwapchain
<1> QED BY <1>1, <1>2, <1>3 DEF InvalidateGraphics

\* A step of a render thread keeps the nesting of its window's graphics.
LEMMA RenderNest ==
  ASSUME GfxInv, NEW w \in Windows, RenderStep(w)
  PROVE  NestInv(w)'
<1>t. TypeOK BY DEF GfxInv, IInv
<1>n. NestInv(w) /\ ShownInv(w) BY DEF GfxInv, WinGfx
<1>f. UNCHANGED <<handle, listed>> BY <1>t, GraphicsFrame
<1> USE DEF TypeOK, ChainType, GfxType, ThreadType, NestInv, chainVars, gfxVars
<1>1. CASE LoopExit(w) \/ LoopIdle(w) \/ FrameEmpty(w) \/ FailWake(w) \/ SyncLock(w)
           \/ TakeEvent(w) \/ EventsDone(w) \/ HandleObscure(w) \/ HandleRequestSync(w)
           \/ HandlePostJob(w)
  <2>1. UNCHANGED <<chainVars, gfxVars>>
    BY <1>1 DEF LoopExit, LoopIdle, FrameEmpty, FailWake, SyncLock, TakeEvent, EventsDone,
       HandleObscure, HandleRequestSync, HandlePostJob
  <2> QED BY <1>f, <1>n, <2>1
<1>2. CASE LoopFrame(w)
  <2>1. handle[w] /\ listed[w] BY <1>2, <1>n DEF LoopFrame, ShownInv
  <2>2. PICK r \in CreatedRhi(w) :
          /\ rhi' = [rhi EXCEPT ![w] = r]
          /\ sgInit' = [sgInit EXCEPT ![w] = @ \/ (r = "ready" /\ windowSize[w])]
          /\ swapchain' = [swapchain EXCEPT
                             ![w] = IF r = "ready" /\ @ = "none" THEN "new" ELSE @]
    BY <1>2 DEF LoopFrame
  <2>3. rhi[w] = "ready" => r = "ready" BY <2>2 DEF CreatedRhi
  <2>4. UNCHANGED <<renderer, hasRenderable, justRenderable>> BY <1>2 DEF LoopFrame
  <2>5. /\ rhi'[w] = r
        /\ sgInit'[w] => sgInit[w] \/ r = "ready"
        /\ swapchain'[w] = IF r = "ready" /\ swapchain[w] = "none" THEN "new"
                                                                  ELSE swapchain[w]
    BY <1>t, <2>2
  <2> QED BY <1>f, <1>n, <2>1, <2>3, <2>4, <2>5
<1>3. CASE FrameBuildLost(w) \/ FrameLost(w)
  <2>1. HandleDeviceLoss(w) BY <1>3 DEF FrameBuildLost, FrameLost
  <2> QED BY <1>t, <1>f, <1>n, <2>1 DEF HandleDeviceLoss, ReleaseSwapchain
<1>4. CASE FrameFails(w) \/ FrameBegun(w)
  <2>1. /\ UNCHANGED gfxVars
        /\ UNCHANGED chainVars \/ (BeginsFrame(w) /\ \E state \in {"active", "failed"} : Build(w, state))
    BY <1>4 DEF FrameFails, FrameBegun
  <2> QED BY <1>t, <1>f, <1>n, <2>1 DEF Build, BeginsFrame
<1>5. CASE Sync(w) \/ HandleGrab(w)
  <2>1. /\ UNCHANGED <<chainVars, rhi, sgInit>>
        /\ renderer'[w] = renderer[w] \/ rhi[w] = "ready"
    BY <1>5 DEF Sync, HandleGrab, SyncScene, CanSync
  <2> QED BY <1>f, <1>n, <2>1
<1>6. CASE Render(w)
  BY <1>6, <1>t, <1>f, <1>n DEF Render, EndFrame, HandleDeviceLoss, ReleaseSwapchain
<1>7. CASE HandleTryRelease(w)
  <2>1. UNCHANGED <<gfxVars, chainVars>>
        \/ InvalidateGraphics(w, "destructor" \in cur[w].opts)
    BY <1>7 DEF HandleTryRelease
  <2> QED BY <1>t, <1>f, <1>n, <2>1, InvalidateNest
<1>8. CASE HandleReleaseSwapchain(w)
  BY <1>8, <1>t, <1>f, <1>n DEF HandleReleaseSwapchain, ReleaseSwapchain
<1> QED BY <1>1, <1>2, <1>3, <1>4, <1>5, <1>6, <1>7, <1>8 DEF RenderStep

\* Only WM_Obscure takes a window from its thread, and no handler shows one that was
\* not shown: a sync is asked of a window that is.
LEMMA RenderShown ==
  ASSUME GfxInv, NEW w \in Windows, RenderStep(w)
  PROVE  /\ window'[w] => window[w]
         /\ window[w] /\ ~HandleObscure(w) => window'[w]
         /\ ShownInv(w)'
<1>t. TypeOK BY DEF GfxInv, IInv
<1>n. ShownInv(w) BY DEF GfxInv, WinGfx
<1>f. UNCHANGED <<handle, listed, visible, exposed, guiWin, guiTodo>>
  BY <1>t, GraphicsFrame, RenderFrame
<1> USE DEF TypeOK, ThreadType, threadVars
<1>1. window'[w] = window[w] \/ (HandleObscure(w) /\ ~window'[w])
  <2>1. ASSUME LoopExit(w) \/ LoopIdle(w) \/ LoopFrame(w) \/ FrameEmpty(w)
            \/ FrameBuildLost(w) \/ FrameFails(w) \/ FrameLost(w) \/ FrameBegun(w)
            \/ FailWake(w) \/ SyncLock(w)
        PROVE  UNCHANGED window
    BY <2>1 DEF LoopExit, LoopIdle, LoopFrame, FrameEmpty, FrameBuildLost, FrameFails,
       FrameLost, FrameBegun, FailWake, SyncLock
  <2>2. ASSUME Sync(w) \/ Render(w) \/ TakeEvent(w) \/ EventsDone(w)
            \/ HandleTryRelease(w) \/ HandleGrab(w) \/ HandlePostJob(w)
            \/ HandleReleaseSwapchain(w)
        PROVE  UNCHANGED window
    BY <2>2 DEF Sync, Render, TakeEvent, EventsDone, HandleTryRelease, HandleGrab,
       HandlePostJob, HandleReleaseSwapchain
  <2>3. ASSUME HandleObscure(w) PROVE ~window'[w] BY <1>t, <2>3 DEF HandleObscure
  <2>4. ASSUME HandleRequestSync(w) PROVE window[w] /\ window'[w]
    <3>1. rtPc[w] = "handle" /\ cur[w].type = "RequestSync" /\ cur[w].type \in Blocking
      BY <2>4 DEF HandleRequestSync, Handles, Blocking, EventTypes
    <3>2. GuiWaitsFor(w) /\ ThisStep \in SyncSteps
      <4>1. GuiWaitsFor(w) /\ TypeOf(ThisStep) = "RequestSync" BY <3>1, HandlerAsks
      <4> QED BY <4>1 DEF TypeOf
    <3>3. window[w] BY <3>2 DEF GfxInv, StepInv, GuiWaitsFor
    <3> QED BY <1>t, <2>4, <3>3 DEF HandleRequestSync
  <2> QED BY <2>1, <2>2, <2>3, <2>4, <1>t DEF RenderStep
<1>2. rtPc'[w] \in {"frame", "failWake", "syncLock", "sync", "render"} =>
        /\ ~HandleObscure(w)
        /\ window[w]
  <2>1. ASSUME LoopFrame(w) \/ FrameFails(w) \/ FrameLost(w) \/ FrameBegun(w)
            \/ SyncLock(w) \/ Sync(w)
        PROVE  window[w] /\ rtPc[w] # "handle"
    BY <1>n, <2>1 DEF LoopFrame, FrameFails, FrameLost, FrameBegun, SyncLock, Sync, ShownInv
  <2>2. ASSUME LoopExit(w) \/ LoopIdle(w) \/ FrameEmpty(w) \/ FrameBuildLost(w)
            \/ FailWake(w) \/ Render(w) \/ TakeEvent(w) \/ EventsDone(w)
        PROVE  rtPc'[w] \in {"stopped", "loop", "events", "wait", "handle"}
    BY <1>t, <2>2 DEF LoopExit, LoopIdle, FrameEmpty, FrameBuildLost, FailWake, Render,
       TakeEvent, EventsDone, GoTo
  <2>3. ASSUME NEW wakes, Resume(w, wakes)
        PROVE  rtPc'[w] \in {"stopped", "loop", "events", "wait", "handle"}
    BY <1>t, <2>3 DEF Resume, GoTo
  <2>4. ASSUME HandleObscure(w) \/ HandleRequestSync(w) \/ HandleTryRelease(w)
            \/ HandleGrab(w) \/ HandlePostJob(w) \/ HandleReleaseSwapchain(w)
        PROVE  rtPc'[w] \in {"stopped", "loop", "events", "wait", "handle"}
    BY <2>3, <2>4 DEF HandleObscure, HandleRequestSync, HandleTryRelease, HandleGrab,
       HandlePostJob, HandleReleaseSwapchain
  <2>5. HandleObscure(w) => rtPc[w] = "handle" BY DEF HandleObscure, Handles
  <2> QED BY <2>1, <2>2, <2>4, <2>5 DEF RenderStep
<1>3. window'[w] => window[w] BY <1>1
<1>4. rtPc'[w] \in {"frame", "failWake", "syncLock", "sync", "render"} => window'[w]
  BY <1>1, <1>2
<1>5. Ahead("obscure")' <=> Ahead("obscure") BY <1>f DEF Ahead
<1>6. ShownInv(w)' BY <1>3, <1>4, <1>5, <1>f, <1>n DEF ShownInv
<1>7. window[w] /\ ~HandleObscure(w) => window'[w] BY <1>1
<1> QED BY <1>3, <1>6, <1>7

\* A thread that is told to finish has let go of its QRhi, and has handled the last of
\* its events.
LEMMA RenderClean ==
  ASSUME GfxInv, NEW w \in Windows, RenderStep(w)
  PROVE  CleanInv(w)'
<1>t. TypeOK BY DEF GfxInv, IInv
<1>n. CleanInv(w) BY DEF GfxInv, WinGfx
<1>a. window[w] => active[w] BY DEF GfxInv, IInv, WinInv, ActiveInv
<1> USE DEF TypeOK, ThreadType, ChannelType, GfxType, CleanInv, InHandler
<1>1. CASE LoopExit(w) \/ LoopIdle(w) \/ FrameEmpty(w) \/ FrameFails(w) \/ FrameBegun(w)
           \/ FailWake(w) \/ SyncLock(w) \/ EventsDone(w)
  <2>1. /\ UNCHANGED <<active, rhi, queue>> /\ rtPc'[w] # "handle"
    BY <1>1, <1>t DEF LoopExit, LoopIdle, FrameEmpty, FrameFails, FrameBegun, FailWake,
       SyncLock, EventsDone, AfterFailure, GoTo, gfxVars
  <2> QED BY <1>n, <2>1
<1>2. CASE LoopFrame(w)
  <2>1. active'[w] /\ rtPc'[w] # "handle" BY <1>2, <1>t DEF LoopFrame, GoTo
  <2> QED BY <2>1
<1>3. CASE FrameBuildLost(w) \/ FrameLost(w) \/ Sync(w) \/ Render(w)
  <2>1. /\ UNCHANGED <<active, queue>> /\ rtPc'[w] # "handle"
        /\ rhi'[w] = rhi[w] \/ rhi'[w] = "lost"
    BY <1>3, <1>t DEF FrameBuildLost, FrameLost, Sync, Render, EndFrame,
       HandleDeviceLoss, AfterFailure, GoTo, gfxVars
  <2> QED BY <1>n, <2>1
<1>4. CASE TakeEvent(w)
  <2>1. /\ UNCHANGED <<active, rhi>> /\ queue[w] \in Seq(Event) /\ queue[w] # <<>>
        /\ cur'[w] = queue[w][1] /\ queue'[w] = Tail(queue[w])
    BY <1>4, <1>t DEF TakeEvent, gfxVars
  <2>2. active[w] BY <1>n, <2>1
  <2>3. ASSUME queue[w][1].type \in Blocking PROVE queue'[w] = <<>>
    <3>1. 1 \in 1..Len(queue[w]) BY <2>1
    <3>2. 1 = Len(queue[w]) BY <2>3, <3>1 DEF GfxInv, IInv, WinInv, RequestInv
    <3>3. \A s \in Seq(Event) : Len(s) = 0 => s = <<>> OBVIOUS
    <3>4. Tail(queue[w]) \in Seq(Event) /\ Len(Tail(queue[w])) = 0 BY <2>1, <3>2
    <3> QED BY <2>1, <3>3, <3>4
  <2> QED BY <2>1, <2>2, <2>3
<1>5. ASSUME NEW wakes, Resume(w, wakes)
      PROVE  ~InHandler(w)'
  BY <1>5, <1>t DEF Resume, GoTo
<1>6. CASE HandleObscure(w) \/ HandleRequestSync(w) \/ HandleGrab(w)
           \/ HandlePostJob(w) \/ HandleReleaseSwapchain(w)
  <2>1. UNCHANGED <<active, rhi, queue>> /\ ~InHandler(w)'
    BY <1>5, <1>6 DEF HandleObscure, HandleRequestSync, HandleGrab, HandlePostJob,
       HandleReleaseSwapchain, gfxVars
  <2> QED BY <1>n, <2>1
<1>7. CASE HandleTryRelease(w)
  <2>1. rtPc[w] = "handle" /\ cur[w].type \in Blocking
    BY <1>7 DEF HandleTryRelease, Handles, Blocking, EventTypes
  <2>2. queue[w] = <<>> BY <2>1, HandlerAsks
  <2>3. UNCHANGED queue /\ ~InHandler(w)' BY <1>5, <1>7 DEF HandleTryRelease
  <2>4. ~active'[w] => rhi'[w] # "ready"
    BY <1>7, <1>t, <1>n DEF HandleTryRelease, gfxVars
  <2> QED BY <2>2, <2>3, <2>4
<1> QED BY <1>1, <1>2, <1>3, <1>4, <1>6, <1>7 DEF RenderStep

\* Taken into the handler, into the flags and into a frame, the request of an expose
\* stays one.
LEMMA RenderExpose ==
  ASSUME GfxInv, NEW w \in Windows, RenderStep(w)
  PROVE  ExposeInv(w)'
<1>t. TypeOK BY DEF GfxInv, IInv
<1>0. SUFFICES ASSUME GuiWaitsFor(w)', ThisStep' = "syncExpose"
               PROVE  /\ \A i \in 1..Len(queue'[w]) :
                           queue'[w][i].type \in Blocking => "expose" \in queue'[w][i].opts
                      /\ InHandler(w)' => "expose" \in cur'[w].opts
                      /\ InFlags(w)' => ExposeRequest \subseteq pending'[w]
                      /\ rtPc'[w] \in {"failWake", "syncLock", "sync"}
                           => ExposeRequested(w)'
  BY DEF ExposeInv
<1>1. GuiWaitsFor(w) /\ ThisStep = "syncExpose"
  BY <1>t, <1>0, RenderFrame DEF GuiWaitsFor, ThisStep
<1>2. /\ \A i \in 1..Len(queue[w]) :
           queue[w][i].type \in Blocking => "expose" \in queue[w][i].opts
      /\ InHandler(w) => "expose" \in cur[w].opts
      /\ InFlags(w) => ExposeRequest \subseteq pending[w]
      /\ rtPc[w] \in {"failWake", "syncLock", "sync"} => ExposeRequested(w)
  BY <1>1 DEF GfxInv, WinGfx, ExposeInv
<1> USE <1>t DEF TypeOK, ThreadType, ChannelType, InHandler, InFlags, ExposeRequested
<1>3. CASE LoopExit(w) \/ LoopIdle(w) \/ LoopFrame(w) \/ FailWake(w) \/ SyncLock(w)
           \/ Sync(w) \/ EventsDone(w)
  <2>1. /\ UNCHANGED <<queue, pending, frameReq>> /\ rtPc'[w] # "handle"
        /\ rtPc'[w] \in {"failWake", "syncLock", "sync"} => rtPc[w] = "syncLock"
    BY <1>3 DEF LoopExit, LoopIdle, LoopFrame, FailWake, SyncLock, Sync, EventsDone, GoTo
  <2> QED BY <1>2, <2>1
<1>4. CASE FrameEmpty(w) \/ FrameBuildLost(w) \/ FrameFails(w) \/ FrameLost(w)
           \/ FrameBegun(w)
  <2>1. /\ UNCHANGED queue /\ rtPc'[w] # "handle"
        /\ frameReq'[w] = pending[w] /\ pending'[w] = {}
        /\ rtPc'[w] \in {"failWake", "syncLock", "sync"} => SyncRequested(w)
    BY <1>4 DEF FrameEmpty, FrameBuildLost, FrameFails, FrameLost, FrameBegun,
       AfterFailure, TakeRequests, GoTo
  <2> QED BY <1>2, <2>1 DEF SyncRequested
<1>5. CASE Render(w)
  <2>1. UNCHANGED queue /\ rtPc'[w] = "events" /\ "sync" \notin pending'[w]
    BY <1>5 DEF Render, GoTo
  <2> QED BY <1>2, <2>1
<1>6. CASE TakeEvent(w)
  <2>1. /\ UNCHANGED <<pending, frameReq>> /\ rtPc'[w] = "handle"
        /\ queue[w] \in Seq(Event) /\ queue[w] # <<>>
        /\ cur'[w] = queue[w][1] /\ queue'[w] = Tail(queue[w])
    BY <1>6 DEF TakeEvent, GoTo
  <2>2. /\ 1 \in 1..Len(queue[w])
        /\ \A i \in 1..Len(queue'[w]) :
             i + 1 \in 1..Len(queue[w]) /\ queue'[w][i] = queue[w][i + 1]
    BY <2>1
  <2> QED BY <1>2, <2>1, <2>2
<1>7. ASSUME NEW wakes, Resume(w, wakes)
      PROVE  cur'[w].type \notin Blocking /\ rtPc'[w] \in {"loop", "events", "wait"}
  BY <1>7 DEF Resume, GoTo, NoEvent, Ev, Blocking
<1>8. CASE HandleObscure(w) \/ HandleTryRelease(w) \/ HandleReleaseSwapchain(w)
  <2>1. /\ UNCHANGED <<queue, pending>> /\ cur'[w].type \notin Blocking
        /\ rtPc'[w] \in {"loop", "events", "wait"}
    BY <1>7, <1>8 DEF HandleObscure, HandleTryRelease, HandleReleaseSwapchain
  <2> QED BY <1>2, <2>1
<1>9. CASE HandleRequestSync(w)
  <2>1. /\ InHandler(w) /\ UNCHANGED queue /\ cur'[w].type \notin Blocking
        /\ rtPc'[w] \in {"loop", "events", "wait"}
        /\ pending'[w] = pending[w] \cup RequestedFlags(cur[w].opts)
    BY <1>7, <1>9 DEF HandleRequestSync, Handles, Blocking, EventTypes
  <2> QED BY <1>2, <2>1 DEF RequestedFlags
<1>10. CASE HandlePostJob(w)
  <2>1. /\ UNCHANGED queue /\ cur'[w].type \notin Blocking
        /\ rtPc'[w] \in {"loop", "events", "wait"}
        /\ pending[w] \subseteq pending'[w] /\ pending'[w] \subseteq pending[w] \cup {"repaint"}
    BY <1>7, <1>10 DEF HandlePostJob
  <2> QED BY <1>2, <2>1
<1>11. CASE HandleGrab(w)
  <2>1. /\ UNCHANGED queue /\ cur'[w].type \notin Blocking
        /\ rtPc'[w] \in {"loop", "events", "wait"}
    BY <1>7, <1>11 DEF HandleGrab
  <2>2. pending[w] \subseteq pending'[w] /\ pending'[w] \subseteq pending[w] \cup {"repaint"}
    BY <1>11 DEF HandleGrab
  <2> QED BY <1>2, <2>1, <2>2
<1> QED BY <1>3, <1>4, <1>5, <1>6, <1>8, <1>9, <1>10, <1>11 DEF RenderStep

\* The plan of the GUI thread stays possible: the window stays shown while a sync of
\* it is out, and hidden and without a swapchain before its platform window goes.
LEMMA RenderSteps ==
  ASSUME GfxInv, NEW w \in Windows, RenderStep(w)
  PROVE  StepInv'
<1>t. TypeOK BY DEF GfxInv, IInv
<1>0. /\ UNCHANGED <<guiWin, guiTodo>>
      /\ guiPc' = guiPc \/ (guiPc = "blocked" /\ guiWin = w /\ guiPc' = "woken")
      /\ \A v \in Windows \ {w} : window'[v] = window[v] /\ swapchain'[v] = swapchain[v]
      /\ guiWin \in Windows
  BY <1>t, RenderFrame, GraphicsFrame DEF TypeOK, GuiType
<1>1. guiPc' \in {"locked", "blocked"} /\ ThisStep' \in SyncSteps => window'[guiWin']
  <2> SUFFICES ASSUME guiPc \in {"locked", "blocked"}, ThisStep \in SyncSteps
               PROVE  window'[guiWin]
    BY <1>0 DEF ThisStep
  <2>1. window[guiWin] BY DEF GfxInv, StepInv
  <2>2. guiWin = w => ~HandleObscure(w)
    <3> SUFFICES ASSUME HandleObscure(w) PROVE FALSE OBVIOUS
    <3>1. rtPc[w] = "handle" /\ cur[w].type = "Obscure" /\ cur[w].type \in Blocking
      BY DEF HandleObscure, Handles, Blocking, EventTypes
    <3>2. TypeOf(ThisStep) = "Obscure" BY <3>1, HandlerAsks
    <3> QED BY <3>2 DEF TypeOf, SyncSteps, ReleaseSteps
  <2> QED BY <1>0, <2>1, <2>2, RenderShown
<1>2. Ahead("destroyHandle")' =>
        /\ ~window'[guiWin']
        /\ \/ swapchain'[guiWin'] = "none"
           \/ ThisStep' = "releaseSwapchain" /\ guiPc' # "woken"
  <2> SUFFICES ASSUME Ahead("destroyHandle")
               PROVE  /\ ~window'[guiWin]
                      /\ \/ swapchain'[guiWin] = "none"
                         \/ ThisStep = "releaseSwapchain" /\ guiPc' # "woken"
    BY <1>0 DEF Ahead, ThisStep
  <2>1. /\ ~window[guiWin]
        /\ \/ swapchain[guiWin] = "none"
           \/ ThisStep = "releaseSwapchain" /\ guiPc # "woken"
    BY DEF GfxInv, StepInv
  <2>2. ~window'[guiWin] BY <1>0, <2>1, RenderShown
  <2>3. CASE ThisStep = "releaseSwapchain" /\ guiPc # "woken"
    BY <1>0, <2>2, <2>3, WakesReleasing
  <2>4. CASE swapchain[guiWin] = "none"
    <3>1. CASE guiWin # w BY <1>0, <2>2, <2>4, <3>1
    <3>2. CASE guiWin = w
      <4>1. ~window[w] /\ swapchain[w] = "none" BY <2>1, <2>4, <3>2
      <4>2. rtPc[w] \notin {"frame", "failWake", "syncLock", "sync", "render"}
        BY <4>1 DEF GfxInv, WinGfx, ShownInv
      <4>3. ASSUME LoopFrame(w) \/ FrameBuildLost(w) \/ FrameFails(w) \/ FrameLost(w)
                \/ FrameBegun(w) \/ Render(w)
            PROVE  FALSE
        BY <4>1, <4>2, <4>3 DEF LoopFrame, FrameBuildLost, FrameFails, FrameLost,
           FrameBegun, Render
      <4>4. ASSUME LoopExit(w) \/ LoopIdle(w) \/ FrameEmpty(w) \/ FailWake(w)
                \/ SyncLock(w) \/ Sync(w) \/ TakeEvent(w) \/ EventsDone(w)
                \/ HandleObscure(w) \/ HandleRequestSync(w) \/ HandleGrab(w)
                \/ HandlePostJob(w)
            PROVE  UNCHANGED swapchain
        BY <4>4 DEF LoopExit, LoopIdle, FrameEmpty, FailWake, SyncLock, Sync, TakeEvent,
           EventsDone, HandleObscure, HandleRequestSync, HandleGrab, HandlePostJob,
           chainVars
      <4>5. ASSUME HandleTryRelease(w) \/ HandleReleaseSwapchain(w)
            PROVE  UNCHANGED swapchain \/ ReleaseSwapchain(w)
        BY <4>5 DEF HandleTryRelease, HandleReleaseSwapchain, InvalidateGraphics, chainVars
      <4>6. UNCHANGED swapchain \/ ReleaseSwapchain(w)
        BY <4>3, <4>4, <4>5 DEF RenderStep
      <4>7. swapchain'[w] = "none"
        BY <1>t, <4>1, <4>6 DEF ReleaseSwapchain, TypeOK, ChainType
      <4> QED BY <2>2, <3>2, <4>7
    <3> QED BY <3>1, <3>2
  <2> QED BY <2>1, <2>3, <2>4
<1> QED BY <1>1, <1>2 DEF StepInv

\* Every step of a render thread keeps the graphics invariant.
LEMMA RenderStepGfx ==
  ASSUME GfxInv, NEW w \in Windows, RenderStep(w)
  PROVE  StepInv' /\ \A v \in Windows : WinGfx(v)'
<1>1. WinGfx(w)' BY RenderNest, RenderShown, RenderClean, RenderExpose DEF WinGfx
<1>2. ASSUME NEW v \in Windows, v # w PROVE WinGfx(v)'
  <2>1. TypeOK /\ WinGfx(v) BY DEF GfxInv, IInv
  <2>2. /\ UNCHANGED <<guiWin, guiTodo, visible, exposed, handle, listed>>
        /\ guiPc' = guiPc \/ guiPc' = "woken"
    BY <2>1, RenderFrame, GraphicsFrame
  <2>3. /\ GuiWaitsFor(v)' => GuiWaitsFor(v) /\ ThisStep' = ThisStep
        /\ Ahead("obscure")' <=> Ahead("obscure")
    BY <2>2 DEF GuiWaitsFor, ThisStep, Ahead
  <2> QED BY <1>2, <2>1, <2>2, <2>3, RenderFrame, GraphicsFrame, OtherWindowGfx
<1> QED BY <1>1, <1>2, RenderSteps

-----------------------------------------------------------------------------
(* Steps of the GUI thread.                                                 *)

\* In the event loop nothing is asked and nothing is planned, so that only exposed
\* windows are shown.
LEMMA FreeShown ==
  ASSUME GfxInv, GuiFree, NEW v \in Windows
  PROVE  /\ window[v] => listed[v] /\ handle[v] /\ visible[v] /\ exposed[v] /\ active[v]
         /\ ~InHandler(v) /\ ~InQueue(v) /\ ~InFlags(v) /\ ~GuiWaitsFor(v)
         /\ ~active[v] => ~IsRunning(v)
<1>1. ~GuiWaitsFor(v) BY DEF GuiFree, GuiWaitsFor
<1>2. ~OwesWake(v) BY <1>1 DEF GfxInv, IInv, WinInv, OweInv
<1>3. ~Ahead("obscure") BY DEF GuiFree, Ahead
<1>4. window[v] => active[v] BY DEF GfxInv, IInv, WinInv, ActiveInv
<1>5. ~active[v] => ~IsRunning(v)
  BY DEF GuiFree, GfxInv, IInv, WinInv, ActiveInv
<1>6. ShownInv(v) BY DEF GfxInv, WinGfx
<1> QED BY <1>1, <1>2, <1>3, <1>4, <1>5, <1>6 DEF OwesWake, ShownInv

\* The script of hide(): obscure the window first if it is exposed.
LEMMA HideStepsShape ==
  ASSUME NEW w \in Windows
  PROVE  /\ HideSteps(w) \in Seq(Steps)
         /\ \A i \in 1..Len(HideSteps(w)) : HideSteps(w)[i] \in {"obscure", "release"}
         /\ listed[w] /\ exposed[w] => 1 <= Len(HideSteps(w)) /\ HideSteps(w)[1] = "obscure"
<1> DEFINE first == IF exposed[w] THEN <<"obscure">> ELSE <<>>
           release == <<"release">>
<1>1. \A s, t \in Seq(Steps) :
        /\ s \o t \in Seq(Steps) /\ Len(s \o t) = Len(s) + Len(t)
        /\ \A i \in 1..Len(s) : (s \o t)[i] = s[i]
        /\ \A i \in (Len(s) + 1)..(Len(s) + Len(t)) : (s \o t)[i] = t[i - Len(s)]
  OBVIOUS
<1>2. /\ first \in Seq(Steps) /\ Len(first) \in 0..1
      /\ exposed[w] => Len(first) = 1
      /\ \A i \in 1..Len(first) : first[i] = "obscure"
  <2>1. CASE exposed[w]
    <3>1. first = <<"obscure">> BY <2>1
    <3> HIDE DEF first
    <3> QED BY <2>1, <3>1 DEF Steps
  <2>2. CASE ~exposed[w]
    <3>1. first = <<>> BY <2>2
    <3> HIDE DEF first
    <3> QED BY <2>2, <3>1
  <2> QED BY <2>1, <2>2
<1>3. release \in Seq(Steps) /\ Len(release) = 1 /\ release[1] = "release" BY DEF Steps
<1>4. CASE listed[w]
  <2>1. HideSteps(w) = first \o release BY <1>4 DEF HideSteps
  <2> HIDE DEF first, release
  <2> DEFINE hide == first \o release
  <2>2. /\ hide \in Seq(Steps) /\ Len(hide) = Len(first) + 1
        /\ \A i \in 1..Len(first) : hide[i] = "obscure"
        /\ hide[Len(first) + 1] = "release"
    <3>0. hide \in Seq(Steps) /\ Len(hide) = Len(first) + Len(release)
      BY <1>1, <1>2, <1>3
    <3>1. hide \in Seq(Steps) /\ Len(hide) = Len(first) + 1 BY <1>3, <3>0
    <3>2. \A i \in 1..Len(first) : hide[i] = "obscure" BY <1>1, <1>2, <1>3
    <3>3. Len(first) + 1 \in (Len(first) + 1)..(Len(first) + Len(release)) BY <1>2, <1>3
    <3>4. hide[Len(first) + 1] = release[(Len(first) + 1) - Len(first)]
      BY <1>1, <1>2, <1>3, <3>3
    <3> QED BY <1>2, <1>3, <3>1, <3>2, <3>4
  <2> HIDE DEF hide
  <2>3. \A i \in 1..Len(hide) : hide[i] \in {"obscure", "release"}
    <3> TAKE i \in 1..Len(hide)
    <3>1. i \in 1..Len(first) \/ i = Len(first) + 1 BY <1>2, <2>2
    <3> QED BY <2>2, <3>1
  <2>4. exposed[w] => 1 <= Len(hide) /\ hide[1] = "obscure" BY <1>2, <2>2
  <2> QED BY <2>1, <2>2, <2>3, <2>4 DEF hide
<1>5. CASE ~listed[w] BY <1>5 DEF HideSteps
<1> QED BY <1>4, <1>5

\* What a call from the event loop does to the graphics: an exposed window is shown;
\* and to the plan: only a destroyed surface's platform window goes, after its swapchain.
LEMMA CallGfx ==
  ASSUME GfxInv, NEW w \in Windows, GuiFree,
         GuiCall(w) \/ GuiEvent(w), ~ResizeSurface(w)
  PROVE  /\ UNCHANGED <<swapchain, rhi, sgInit, renderer, pending, frameReq, cur>>
         /\ \A v \in Windows \ {w} :
              /\ visible'[v] = visible[v] /\ exposed'[v] = exposed[v]
              /\ handle'[v] = handle[v] /\ listed'[v] = listed[v]
              /\ hasRenderable'[v] = hasRenderable[v]
              /\ justRenderable'[v] = justRenderable[v]
              /\ queue'[v] = queue[v] /\ rtPc'[v] = rtPc[v] /\ active'[v] = active[v]
              /\ window'[v] = window[v]
         /\ handle[w] => handle'[w]
         /\ listed[w] => listed'[w]
         /\ hasRenderable'[w] \/ justRenderable'[w] =>
              hasRenderable[w] \/ justRenderable[w] \/ swapchain[w] = "active"
         /\ window'[w] => /\ listed'[w] /\ handle'[w] /\ active'[w]
                          /\ (visible'[w] /\ exposed'[w]) \/ (guiWin' = w /\ Ahead("obscure")')
         /\ rtPc'[w] = rtPc[w] \/ (~IsRunning(w) /\ rtPc'[w] = "loop")
         /\ ~active'[w] => ~active[w] /\ queue'[w] = queue[w]
         /\ window[w] => window'[w]
         /\ guiPc' = "idle"
         /\ Ahead("destroyHandle")' =>
              /\ guiWin' = w /\ ~window'[w] /\ (listed[w] => ThisStep' = "releaseSwapchain")
<1>t. TypeOK BY DEF GfxInv, IInv
<1>w. /\ window[w] => /\ listed[w] /\ handle[w] /\ visible[w] /\ exposed[w] /\ active[w]
      /\ ~active[w] => ~IsRunning(w)
  BY FreeShown
<1>i. guiTodo = <<>> /\ guiPc = "idle" BY DEF GuiFree
<1> USE DEF TypeOK, PlatType, LoopType, ChainType, ThreadType, ChannelType, guiVars,
            platVars, loopVars, chainVars, threadVars, gfxVars
<1>1. CASE Change(w) \/ Update(w) \/ Show(w) \/ ResizeWindow(w) \/ DeliverFullUpdate(w)
  <2>1. ~Ahead("destroyHandle")'
    BY <1>1, <1>i DEF Change, Update, Show, ResizeWindow, DeliverFullUpdate, Ahead
  <2> QED BY <1>1, <1>t, <1>w, <1>i, <2>1 DEF Change, Update, Show, ResizeWindow,
          DeliverFullUpdate, UpdateWindow
<1>2. CASE DeliverUpdateRequest(w) \/ Release(w) \/ Grab(w) \/ DestroyWindow(w)
  <2>1. ~Ahead("destroyHandle")'
    BY <1>2 DEF DeliverUpdateRequest, Release, Grab, DestroyWindow, Start, Ahead
  <2> QED BY <1>2, <1>t, <1>w, <1>i, <2>1 DEF DeliverUpdateRequest, Release, Grab,
          DestroyWindow, Start
<1>3. CASE Obscure(w)
  <2>1. ~Ahead("destroyHandle")' /\ (listed[w] => Ahead("obscure")')
    BY <1>3 DEF Obscure, Start, Ahead
  <2> QED BY <1>3, <1>t, <1>w, <1>i, <2>1 DEF Obscure, Start
<1>4. CASE Hide(w)
  <2>1. guiTodo' = HideSteps(w) BY <1>4 DEF Hide, Start
  <2>2. ~Ahead("destroyHandle")' BY <2>1, HideStepsShape DEF Ahead
  <2>3. listed[w] /\ exposed[w] => Ahead("obscure")' BY <2>1, HideStepsShape DEF Ahead
  <2> QED BY <1>4, <1>t, <1>w, <1>i, <2>2, <2>3 DEF Hide, Start
<1>5. CASE DestroySurface(w)
  <2>1. ~window[w] BY <1>5, <1>w DEF DestroySurface
  <2>2. ASSUME listed[w] PROVE ThisStep' = "releaseSwapchain"
    <3>1. guiTodo' = <<"releaseSwapchain">> \o HideSteps(w) \o <<"destroyHandle">>
      BY <1>5, <2>2 DEF DestroySurface, Start
    <3>2. /\ HideSteps(w) \in Seq(Steps) /\ <<"releaseSwapchain">> \in Seq(Steps)
          /\ <<"destroyHandle">> \in Seq(Steps)
      BY HideStepsShape DEF Steps
    <3> QED BY <3>1, <3>2 DEF ThisStep
  <2> QED BY <1>5, <1>t, <1>i, <2>1, <2>2 DEF DestroySurface, Start
<1>6. CASE PostJob(w)
  <2>1. ~Ahead("destroyHandle")' BY <1>6, <1>i DEF PostJob, Ahead
  <2> QED BY <1>6, <1>t, <1>w, <1>i, <2>1 DEF PostJob, AddEvent
<1>7. CASE Expose(w)
  <2>1. /\ visible'[w] /\ exposed'[w] /\ handle'[w]
        /\ UNCHANGED <<visible, handle, swapchain, gfxVars, queue>>
        /\ hasRenderable'[w] \/ justRenderable'[w] =>
             hasRenderable[w] \/ justRenderable[w] \/ swapchain[w] = "active"
        /\ \A v \in Windows \ {w} :
             /\ exposed'[v] = exposed[v] /\ hasRenderable'[v] = hasRenderable[v]
             /\ justRenderable'[v] = justRenderable[v]
    BY <1>7, <1>t DEF Expose
  <2>2. CASE UNCHANGED <<guiVars, loopVars, threadVars>>
    <3>1. ~Ahead("destroyHandle")' BY <2>2, <1>i DEF Ahead
    <3> QED BY <1>w, <1>i, <2>1, <2>2, <3>1
  <2>3. CASE HandleExposure(w)
    <3>1. ~Ahead("destroyHandle")' BY <2>3 DEF HandleExposure, Start, Ahead
    <3>2. /\ listed'[w] /\ window'[w] /\ active'[w]
          /\ rtPc'[w] = rtPc[w] \/ (~IsRunning(w) /\ rtPc'[w] = "loop")
          /\ guiPc' = "idle" /\ UNCHANGED <<pending, frameReq, cur>>
          /\ \A v \in Windows \ {w} :
               /\ listed'[v] = listed[v] /\ window'[v] = window[v]
               /\ active'[v] = active[v] /\ rtPc'[v] = rtPc[v]
      BY <1>t, <1>w, <1>i, <2>3 DEF HandleExposure, Start
    <3> QED BY <2>1, <3>1, <3>2
  <2> QED BY <1>7, <2>2, <2>3 DEF Expose
<1> QED BY <1>1, <1>2, <1>3, <1>4, <1>5, <1>6, <1>7 DEF GuiCall, GuiEvent

\* Every call from the event loop keeps the graphics invariant.
LEMMA GuiCallGfx ==
  ASSUME GfxInv, NEW w \in Windows, GuiCall(w) \/ GuiEvent(w), ~ResizeSurface(w)
  PROVE  StepInv' /\ \A v \in Windows : WinGfx(v)'
<1>t. TypeOK BY DEF GfxInv, IInv
<1>0. GuiFree BY <1>t, CallPlans
<1>1. ASSUME NEW v \in Windows, v # w PROVE WinGfx(v)'
  <2>1. WinGfx(v) /\ (window[v] => visible[v] /\ exposed[v])
    BY <1>0, FreeShown DEF GfxInv
  <2>2. ~GuiWaitsFor(v)' BY <1>0, CallGfx DEF GuiWaitsFor
  <2> HIDE DEF GuiWaitsFor
  <2> QED BY <1>0, <1>1, <2>1, <2>2, CallGfx, OtherWindowGfx
<1>2. WinGfx(w)'
  <2>1. WinGfx(w) BY DEF GfxInv
  <2>2. ShownInv(w)'
    <3>1. rtPc'[w] \in {"frame", "failWake", "syncLock", "sync", "render"} => window'[w]
      BY <1>0, <2>1, CallGfx DEF WinGfx, ShownInv
    <3> QED BY <1>0, <3>1, CallGfx DEF ShownInv
  <2>3. NestInv(w)' BY <1>0, <2>1, CallGfx DEF WinGfx, NestInv
  <2>4. CleanInv(w)'
    <3>1. ~InHandler(w)' BY <1>0, CallGfx, FreeShown DEF InHandler
    <3> QED BY <1>0, <2>1, <3>1, CallGfx DEF WinGfx, CleanInv
  <2>5. ExposeInv(w)' BY <1>0, CallGfx DEF ExposeInv, GuiWaitsFor
  <2> QED BY <2>2, <2>3, <2>4, <2>5 DEF WinGfx
<1>3. StepInv'
  <2>1. swapchain[w] # "none" => listed[w] BY DEF GfxInv, WinGfx, NestInv
  <2> QED BY <1>0, <2>1, CallGfx DEF StepInv
<1> QED BY <1>1, <1>2, <1>3

\* The surface's size is no concern of the graphics invariant.
LEMMA ResizeSurfaceGfx ==
  ASSUME GfxInv, NEW w \in Windows, ResizeSurface(w)
  PROVE  StepInv' /\ \A v \in Windows : WinGfx(v)'
<1>1. UNCHANGED <<guiVars, visible, exposed, handle, loopVars, chainVars, threadVars,
                  gfxVars, queue>>
  BY DEF ResizeSurface
<1> USE DEF guiVars, loopVars, chainVars, threadVars, gfxVars
<1>2. ASSUME NEW v \in Windows PROVE WinGfx(v)'
  BY <1>1, OtherWindowGfx DEF GfxInv, GuiWaitsFor, ThisStep, Ahead
<1>3. StepInv' BY <1>1 DEF GfxInv, StepInv, ThisStep, Ahead
<1> QED BY <1>2, <1>3

\* Taking the first step off the plan, which keeps the graphics as they are: a step
\* that had to change them has done so.
LEMMA StepDoneGfx ==
  ASSUME GfxInv, guiTodo # <<>>, StepDone,
         UNCHANGED <<visible, exposed, listed, chainVars, threadVars, gfxVars, queue>>,
         \A v \in Windows : handle'[v] = handle[v],
         ThisStep = "obscure" => ~window[guiWin],
         Ahead("destroyHandle") => swapchain[guiWin] = "none"
  PROVE  StepInv' /\ \A v \in Windows : WinGfx(v)'
<1> USE DEF chainVars, threadVars, gfxVars
<1>1. /\ guiTodo \in Seq(Steps) /\ guiWin \in Windows
      /\ guiPc' = "idle" /\ guiTodo' = Tail(guiTodo) /\ guiWin' = guiWin
  BY DEF GfxInv, IInv, TypeOK, GuiType, StepDone
<1>2. ASSUME NEW step
      PROVE  /\ Ahead(step)' => Ahead(step)
             /\ Ahead(step) /\ ThisStep # step => Ahead(step)'
  <2>1. /\ Len(guiTodo') = Len(guiTodo) - 1 /\ Len(guiTodo) \in Nat \ {0}
        /\ \A i \in 1..Len(guiTodo') : guiTodo'[i] = guiTodo[i + 1]
        /\ ThisStep = guiTodo[1]
    BY <1>1 DEF ThisStep
  <2>2. ASSUME NEW i \in 1..Len(guiTodo'), guiTodo'[i] = step PROVE Ahead(step)
    <3>1. i + 1 \in 1..Len(guiTodo) /\ guiTodo[i + 1] = step BY <2>1, <2>2
    <3> QED BY <3>1 DEF Ahead
  <2>3. ASSUME NEW i \in 1..Len(guiTodo), guiTodo[i] = step, ThisStep # step
        PROVE  Ahead(step)'
    <3>1. i # 1 BY <2>1, <2>3
    <3>2. i - 1 \in 1..Len(guiTodo') BY <2>1, <3>1
    <3>3. guiTodo'[i - 1] = guiTodo[(i - 1) + 1] BY <2>1, <3>2
    <3>4. guiTodo'[i - 1] = step BY <2>1, <2>3, <3>1, <3>3
    <3> QED BY <3>2, <3>4 DEF Ahead
  <2> QED BY <2>2, <2>3 DEF Ahead
<1>3. StepInv'
  <2>1. Ahead("destroyHandle")' => ~window[guiWin] /\ swapchain[guiWin] = "none"
    BY <1>2 DEF GfxInv, StepInv
  <2> QED BY <1>1, <2>1 DEF StepInv
<1>4. ASSUME NEW v \in Windows PROVE WinGfx(v)'
  <2>1. ~GuiWaitsFor(v)' BY <1>1 DEF GuiWaitsFor
  <2>2. window[v] /\ guiWin = v /\ Ahead("obscure") => guiWin' = v /\ Ahead("obscure")'
    BY <1>1, <1>2
  <2>3. WinGfx(v) BY DEF GfxInv
  <2> HIDE DEF GuiWaitsFor
  <2> QED BY <2>1, <2>2, <2>3, OtherWindowGfx
<1> QED BY <1>3, <1>4

\* A step that is skipped, or over after its answer.
LEMMA StepOverGfx ==
  ASSUME GfxInv, NEW w \in Windows, StepDone,
         SkipStep(w) \/ FinishSync(w) \/ FinishGrab(w) \/ FinishOther(w) \/ FinishRelease(w)
         \/ JoinThread(w)
  PROVE  StepInv' /\ \A v \in Windows : WinGfx(v)'
<1> USE DEF platVars, loopVars, WokenIn
<1>1. /\ guiWin = w /\ guiTodo # <<>> /\ guiPc \in {"idle", "woken", "join"}
      /\ UNCHANGED <<visible, exposed, handle, listed, chainVars, threadVars, gfxVars, queue>>
  BY DEF SkipStep, FinishSync, FinishGrab, FinishOther, FinishRelease, JoinThread,
     GfxInv, IInv, GuiInv, InStep
<1>2. ASSUME SkipStep(w), ThisStep \in {"obscure", "releaseSwapchain"}
      PROVE  ~window[w] /\ swapchain[w] = "none"
  <2>1. ~IsRunning(w) BY <1>2 DEF SkipStep, Posts, SyncSteps
  <2>2. ~active[w] /\ ~window[w] BY <2>1 DEF GfxInv, IInv, WinInv, ActiveInv
  <2>3. rhi[w] # "ready" BY <2>2 DEF GfxInv, WinGfx, CleanInv
  <2> QED BY <2>2, <2>3 DEF GfxInv, WinGfx, NestInv
<1>3. ASSUME ~SkipStep(w) PROVE guiPc = "woken" \/ ThisStep \in ReleaseSteps
  BY <1>3 DEF FinishSync, FinishGrab, FinishOther, FinishRelease, JoinThread, GfxInv, IInv,
     GuiInv
<1>4. ThisStep = "obscure" => ~window[guiWin]
  BY <1>1, <1>2, <1>3 DEF GfxInv, IInv, GuiInv, ReleaseSteps
<1>5. Ahead("destroyHandle") => swapchain[guiWin] = "none"
  BY <1>1, <1>2, <1>3 DEF GfxInv, StepInv, ReleaseSteps
<1> QED BY <1>1, <1>4, <1>5, StepDoneGfx


\* Polishing, which may create the platform window for a grab; locking and posting;
\* waiting; and going on to wait for the thread's end.
LEMMA StepInsideGfx ==
  ASSUME GfxInv, NEW w \in Windows, Polish(w) \/ WaitForWake(w) \/ FinishRelease(w), ~StepDone
  PROVE  StepInv' /\ \A v \in Windows : WinGfx(v)'
<1> USE DEF platVars, loopVars, chainVars, threadVars, gfxVars, WokenIn
<1>t. TypeOK BY DEF GfxInv, IInv
<1>1. /\ UNCHANGED <<guiWin, guiTodo, visible, exposed, listed, chainVars, threadVars,
                     gfxVars, queue>>
      /\ \/ guiPc' \in {"polished", "join"}
         \/ guiPc = "locked" /\ guiPc' = "blocked"
      /\ guiWin = w
      /\ \A v \in Windows : handle[v] => handle'[v]
      /\ \A v \in Windows \ {w} : handle'[v] = handle[v]
  BY <1>t DEF Polish, WaitForWake, FinishRelease, TypeOK, PlatType
<1>2. StepInv'
  <2>1. ThisStep' = ThisStep /\ (Ahead("destroyHandle")' <=> Ahead("destroyHandle"))
    BY <1>1 DEF ThisStep, Ahead
  <2> QED BY <1>1, <2>1 DEF GfxInv, StepInv
<1>3. ASSUME NEW v \in Windows PROVE WinGfx(v)'
  <2>1. /\ GuiWaitsFor(v)' => GuiWaitsFor(v)
        /\ ThisStep' = ThisStep
        /\ Ahead("obscure")' <=> Ahead("obscure")
    BY <1>1 DEF GuiWaitsFor, ThisStep, Ahead
  <2>2. WinGfx(v) BY DEF GfxInv
  <2>3. ShownInv(v)' BY <1>1, <2>1, <2>2 DEF WinGfx, ShownInv
  <2>4. NestInv(v)' BY <1>1, <2>2 DEF WinGfx, NestInv
  <2>5. CleanInv(v)' BY <1>1, <2>2 DEF WinGfx, CleanInv, InHandler
  <2>6. ExposeInv(v)'
    BY <1>1, <2>1, <2>2 DEF WinGfx, ExposeInv, InHandler, InFlags, ExposeRequested
  <2> QED BY <2>3, <2>4, <2>5, <2>6 DEF WinGfx
<1> QED BY <1>2, <1>3

\* Posting a request: the thread has work to go on with, and the request of an expose
\* says so.
LEMMA LockAndPostGfx ==
  ASSUME GfxInv, NEW w \in Windows, LockAndPost(w)
  PROVE  StepInv' /\ \A v \in Windows : WinGfx(v)'
<1> USE DEF platVars, chainVars, threadVars, gfxVars
<1>t. TypeOK BY DEF GfxInv, IInv
<1>1. /\ guiPc \in {"idle", "polished"} /\ guiPc' = "locked" /\ guiWin = w
      /\ guiTodo # <<>> /\ Posts(w, ThisStep)
      /\ queue' = [queue EXCEPT ![w] = Append(@, StepEvent(w, ThisStep))]
      /\ UNCHANGED <<guiWin, guiTodo, visible, exposed, handle, listed, chainVars,
                     threadVars, gfxVars>>
  BY DEF LockAndPost, AddEvent
<1>2. ThisStep' = ThisStep /\ \A step : Ahead(step)' <=> Ahead(step)
  BY <1>1 DEF ThisStep, Ahead
<1>3. ~OwesWake(w) BY <1>1 DEF GfxInv, IInv, WinInv, OweInv, GuiWaitsFor
<1>4. active[w]
  BY <1>1 DEF GfxInv, IInv, WinInv, ActiveInv, Posts, SyncSteps
<1>5. StepInv'
  <2>1. ThisStep \in SyncSteps => window[w] BY <1>1 DEF Posts, SyncSteps
  <2>2. Ahead("destroyHandle") =>
          ~window[w] /\ (swapchain[w] = "none" \/ ThisStep = "releaseSwapchain")
    BY <1>1 DEF GfxInv, StepInv
  <2> QED BY <1>1, <1>2, <2>1, <2>2 DEF StepInv
<1>6. ASSUME NEW v \in Windows, v # w PROVE WinGfx(v)'
  <2>1. queue'[v] = queue[v] BY <1>1, <1>6, <1>t DEF TypeOK, ChannelType
  <2>2. ~GuiWaitsFor(v)' BY <1>1, <1>6 DEF GuiWaitsFor
  <2>3. WinGfx(v) BY DEF GfxInv
  <2> HIDE DEF GuiWaitsFor
  <2> QED BY <1>1, <1>2, <1>6, <2>1, <2>2, <2>3, OtherWindowGfx
<1>7. WinGfx(w)'
  <2>1. WinGfx(w) BY DEF GfxInv
  <2>2. ShownInv(w)' BY <1>1, <1>2, <2>1 DEF WinGfx, ShownInv
  <2>3. NestInv(w)' BY <1>1, <2>1 DEF WinGfx, NestInv
  <2>4. CleanInv(w)' BY <1>1, <1>3, <1>4 DEF CleanInv, OwesWake, InHandler
  <2>5. ExposeInv(w)'
    <3> SUFFICES ASSUME ThisStep = "syncExpose" PROVE ExposeInv(w)'
      BY <1>2 DEF ExposeInv
    <3>1. ~InHandler(w)' /\ ~InFlags(w)'
          /\ rtPc'[w] \notin {"failWake", "syncLock", "sync"}
      BY <1>1, <1>3 DEF OwesWake, InHandler, InFlags, InFrame
    <3> DEFINE e == StepEvent(w, ThisStep)
    <3>2. "expose" \in e.opts /\ e \in Event
      BY <1>t, StepEventType DEF StepEvent, Ev, SyncSteps, BlockingSteps
    <3>3. queue[w] \in Seq(Event) /\ queue'[w] = Append(queue[w], e)
      BY <1>1, <1>t DEF TypeOK, ChannelType
    <3> HIDE DEF e
    <3>4. \A i \in 1..Len(queue'[w]) :
            queue'[w][i].type \in Blocking => "expose" \in queue'[w][i].opts
      <4> SUFFICES ASSUME NEW i \in 1..Len(queue'[w]), queue'[w][i].type \in Blocking
                   PROVE  "expose" \in queue'[w][i].opts
        OBVIOUS
      <4>1. CASE i \in 1..Len(queue[w])
        <5>1. queue[w][i].type \in Blocking BY <3>2, <3>3, <4>1
        <5> QED BY <1>3, <3>3, <4>1, <5>1 DEF OwesWake, InQueue
      <4>2. CASE i = Len(queue[w]) + 1 BY <3>2, <3>3, <4>2
      <4> QED BY <3>2, <3>3, <4>1, <4>2
    <3> QED BY <3>1, <3>4 DEF ExposeInv
  <2> QED BY <2>2, <2>3, <2>4, <2>5 DEF WinGfx
<1> QED BY <1>5, <1>6, <1>7

\* The platform window goes: it has no swapchain any more.
LEMMA DestroyHandleGfx ==
  ASSUME GfxInv, NEW w \in Windows, DestroyHandle(w)
  PROVE  StepInv' /\ \A v \in Windows : WinGfx(v)'
<1> USE DEF loopVars, chainVars, threadVars, gfxVars
<1>t. TypeOK BY DEF GfxInv, IInv
<1>1. /\ guiTodo \in Seq(Steps) /\ guiTodo # <<>> /\ ThisStep = "destroyHandle" /\ guiWin = w
      /\ guiPc' = "idle" /\ guiWin' = guiWin /\ guiTodo' = Tail(guiTodo)
      /\ ~handle'[w] /\ ~exposed'[w]
      /\ \A v \in Windows \ {w} : handle'[v] = handle[v] /\ exposed'[v] = exposed[v]
      /\ UNCHANGED <<visible, listed, chainVars, threadVars, gfxVars, queue>>
  BY <1>t DEF DestroyHandle, StepDone, Doing, TypeOK, GuiType, PlatType
<1>2. Ahead("destroyHandle")
  <2>1. 1 \in 1..Len(guiTodo) /\ guiTodo[1] = "destroyHandle" BY <1>1 DEF ThisStep
  <2> QED BY <2>1 DEF Ahead
<1>3. ~window[w] /\ swapchain[w] = "none" BY <1>1, <1>2 DEF GfxInv, StepInv
<1>4. StepInv' BY <1>1, <1>3 DEF StepInv
<1>5. ASSUME NEW v \in Windows PROVE WinGfx(v)'
  <2>1. ~GuiWaitsFor(v)' BY <1>1 DEF GuiWaitsFor
  <2>2. WinGfx(v) BY DEF GfxInv
  <2>3. CASE v # w
    <3> HIDE DEF GuiWaitsFor
    <3> QED BY <1>1, <2>1, <2>2, <2>3, OtherWindowGfx
  <2>4. CASE v = w
    BY <1>1, <1>3, <2>1, <2>2, <2>4
       DEF WinGfx, ShownInv, NestInv, CleanInv, ExposeInv, InHandler
  <2> QED BY <2>3, <2>4
<1> QED BY <1>4, <1>5

\* The window is deleted: nothing of its graphics is left.
LEMMA DeleteGfx ==
  ASSUME GfxInv, NEW w \in Windows, DeleteWindow(w)
  PROVE  StepInv' /\ \A v \in Windows : WinGfx(v)'
<1>t. TypeOK BY DEF GfxInv, IInv
<1>1. /\ guiWin = w /\ guiPc' = "idle" /\ guiWin' = guiWin /\ UNCHANGED rtPc
      /\ rtPc[w] = "stopped"
  BY DEF DeleteWindow, StepDone, IsRunning
<1>2. /\ ~window'[w] /\ ~renderer'[w] /\ ~sgInit'[w] /\ rhi'[w] = "none"
      /\ swapchain'[w] = "none" /\ ~hasRenderable'[w] /\ ~justRenderable'[w]
      /\ queue'[w] = <<>>
  BY <1>t DEF DeleteWindow, ReleaseSwapchain, TypeOK, ThreadType, GfxType, ChainType,
     ChannelType
<1>3. \A v \in Windows \ {w} :
        /\ visible'[v] = visible[v] /\ exposed'[v] = exposed[v] /\ handle'[v] = handle[v]
        /\ listed'[v] = listed[v] /\ swapchain'[v] = swapchain[v]
        /\ hasRenderable'[v] = hasRenderable[v] /\ justRenderable'[v] = justRenderable[v]
        /\ rhi'[v] = rhi[v] /\ sgInit'[v] = sgInit[v] /\ renderer'[v] = renderer[v]
        /\ queue'[v] = queue[v] /\ active'[v] = active[v] /\ window'[v] = window[v]
        /\ pending'[v] = pending[v] /\ frameReq'[v] = frameReq[v] /\ cur'[v] = cur[v]
  BY <1>t DEF DeleteWindow, ReleaseSwapchain, TypeOK, PlatType, LoopType, ThreadType,
     GfxType, ChainType, ChannelType
<1>4. StepInv' BY <1>1, <1>2 DEF StepInv
<1>5. ASSUME NEW v \in Windows, v # w PROVE WinGfx(v)'
  <2>1. ~GuiWaitsFor(v)' BY <1>1 DEF GuiWaitsFor
  <2>2. WinGfx(v) BY DEF GfxInv
  <2> HIDE DEF GuiWaitsFor
  <2> QED BY <1>1, <1>3, <1>5, <2>1, <2>2, OtherWindowGfx
<1>6. WinGfx(w)'
  BY <1>1, <1>2 DEF WinGfx, ShownInv, NestInv, CleanInv, ExposeInv, GuiWaitsFor, InHandler
<1> QED BY <1>4, <1>5, <1>6

\* Every step of the GUI thread through a script keeps the graphics invariant.
LEMMA GuiProgressGfx ==
  ASSUME GfxInv, NEW w \in Windows, GuiProgress(w)
  PROVE  StepInv' /\ \A v \in Windows : WinGfx(v)'
<1>1. SkipStep(w) \/ FinishSync(w) \/ FinishGrab(w) \/ FinishOther(w) \/ JoinThread(w)
        => StepDone
  BY DEF SkipStep, FinishSync, FinishGrab, FinishOther, JoinThread
<1>2. CASE StepDone /\ (SkipStep(w) \/ FinishSync(w) \/ FinishGrab(w) \/ FinishOther(w)
                        \/ FinishRelease(w) \/ JoinThread(w))
  BY <1>2, StepOverGfx
<1>3. CASE ~StepDone /\ (Polish(w) \/ WaitForWake(w) \/ FinishRelease(w))
  BY <1>3, StepInsideGfx
<1>4. Polish(w) \/ WaitForWake(w) => ~StepDone BY DEF Polish, WaitForWake, StepDone
<1> QED BY <1>1, <1>2, <1>3, <1>4, LockAndPostGfx, DestroyHandleGfx, DeleteGfx
        DEF GuiProgress

-----------------------------------------------------------------------------
(* The invariant, and what it says.                                         *)

\* Initially no window is shown and there are no graphics.
LEMMA InitGfx == Init => GfxInv
<1> SUFFICES ASSUME Init PROVE GfxInv OBVIOUS
<1>1. IInv BY InitInv
<1>2. guiPc = "idle" /\ guiTodo = <<>> BY DEF Init
<1>3. StepInv BY <1>2 DEF StepInv, Ahead
<1>4. ASSUME NEW w \in Windows PROVE WinGfx(w)
  <2>1. /\ ~window[w] /\ rtPc[w] = "stopped" /\ swapchain[w] = "none" /\ ~sgInit[w]
        /\ ~renderer[w] /\ ~hasRenderable[w] /\ ~justRenderable[w] /\ rhi[w] = "none"
        /\ queue[w] = <<>>
    BY DEF Init
  <2> QED BY <1>2, <2>1
          DEF WinGfx, ShownInv, NestInv, CleanInv, ExposeInv, GuiWaitsFor, InHandler
<1> QED BY <1>1, <1>3, <1>4 DEF GfxInv

\* Every step keeps it.
LEMMA NextGfx == GfxInv /\ [Next]_vars => GfxInv'
<1> SUFFICES ASSUME GfxInv, [Next]_vars PROVE GfxInv' OBVIOUS
<1>1. IInv' BY NextInv DEF GfxInv
<1>2. CASE UNCHANGED vars
  <2>1. UNCHANGED <<guiPc, guiWin, guiTodo, visible, exposed, handle, listed, chainVars,
                    threadVars, gfxVars, queue>>
    BY <1>2 DEF vars, guiVars, platVars, loopVars
  <2>2. StepInv' BY <2>1 DEF GfxInv, StepInv, ThisStep, Ahead, threadVars, chainVars
  <2>3. ASSUME NEW v \in Windows PROVE WinGfx(v)'
    BY <2>1, OtherWindowGfx DEF GfxInv, GuiWaitsFor, ThisStep, Ahead, chainVars,
       threadVars, gfxVars
  <2> QED BY <1>1, <2>2, <2>3 DEF GfxInv
<1>3. ASSUME NEW w \in Windows, RenderStep(w) PROVE GfxInv'
  BY <1>1, <1>3, RenderStepGfx DEF GfxInv
<1>4. ASSUME NEW w \in Windows, GuiCall(w) \/ GuiEvent(w) PROVE GfxInv'
  BY <1>1, <1>4, GuiCallGfx, ResizeSurfaceGfx DEF GfxInv
<1>5. ASSUME NEW w \in Windows, GuiProgress(w) PROVE GfxInv'
  BY <1>1, <1>5, GuiProgressGfx DEF GfxInv
<1> QED BY <1>2, <1>3, <1>4, <1>5 DEF Next

\* The graphics invariant holds in every state, whatever the graphics stack does.
THEOREM GraphicsInvariance == Spec => []GfxInv
  BY InitGfx, NextGfx, PTL DEF Spec

LEMMA GfxHolds == GfxInv => GraphicsNest /\ SwapchainHasSurface /\ RenderableHasSwapchain
  BY DEF GfxInv, WinGfx, NestInv, GraphicsNest, SwapchainHasSurface, RenderableHasSwapchain

\* No swapchain and no scene graph outlives the QRhi it was made with.
THEOREM GraphicsAreNested == Spec => []GraphicsNest
  BY GfxHolds, GraphicsInvariance, PTL

\* No swapchain outlives the platform window it presents to.
THEOREM SwapchainsHaveSurfaces == Spec => []SwapchainHasSurface
  BY GfxHolds, GraphicsInvariance, PTL

\* What exposureChanged() takes for renderable has a swapchain that was built.
THEOREM RenderablesHaveSwapchains == Spec => []RenderableHasSwapchain
  BY GfxHolds, GraphicsInvariance, PTL

\* A render thread that has ended has cleaned up its graphics, with its queue empty.
THEOREM ThreadsEndClean == Spec => []StoppedIsClean
<1>1. ASSUME GfxInv, NEW w \in Windows, ~IsRunning(w)
      PROVE  rhi[w] # "ready" /\ queue[w] = <<>> /\ ~window[w]
  <2>1. ~active[w] /\ ~window[w] BY <1>1 DEF GfxInv, IInv, WinInv, ActiveInv
  <2> QED BY <2>1, <1>1 DEF GfxInv, WinGfx, CleanInv
<1>2. GfxInv => StoppedIsClean BY <1>1 DEF StoppedIsClean
<1> QED BY <1>2, GraphicsInvariance, PTL

\* When hide() has returned the window is drawn no more.
THEOREM HiddenWindowsAreQuiet == Spec => []HiddenIsQuiet
<1>1. ASSUME GfxInv, NEW w \in Windows, GuiFree, ~visible[w]
      PROVE  /\ ~window[w]
             /\ rtPc[w] \notin {"frame", "failWake", "syncLock", "sync", "render"}
  BY <1>1, FreeShown DEF GfxInv, WinGfx, ShownInv
<1>2. GfxInv => HiddenIsQuiet BY <1>1 DEF HiddenIsQuiet
<1> QED BY <1>2, GraphicsInvariance, PTL

\* In an expose the GUI thread goes on only when the frame has been submitted, or
\* could not be begun.
THEOREM ExposesWaitForFrames == Spec => ExposeWaitsForFrame
<1>1. ASSUME GfxInv, Next, NEW w \in Windows, guiPc = "blocked", guiPc' = "woken",
             guiWin = w, ThisStep = "syncExpose"
      PROVE  rtPc[w] \in {"render", "failWake"}
  <2>t. TypeOK BY <1>1 DEF GfxInv, IInv
  <2>1. RenderStep(w)
    <3>1. ASSUME NEW v \in Windows, GuiProgress(v) PROVE FALSE
      <4>1. guiPc' # "woken"
        BY <1>1, <3>1 DEF GuiProgress, SkipStep, Polish, LockAndPost, WaitForWake,
           FinishSync, FinishGrab, FinishOther, FinishRelease, JoinThread, DestroyHandle,
           DeleteWindow, StepDone, WokenIn
      <4> QED BY <1>1, <4>1
    <3>2. ASSUME NEW v \in Windows, GuiCall(v) \/ GuiEvent(v) PROVE FALSE
      <4>1. CASE ResizeSurface(v) BY <1>1, <4>1 DEF ResizeSurface, guiVars
      <4>2. CASE ~ResizeSurface(v) BY <1>1, <2>t, <3>2, <4>2, CallPlans DEF GuiFree
      <4> QED BY <4>1, <4>2
    <3>3. ASSUME NEW v \in Windows, RenderStep(v) PROVE v = w
      BY <1>1, <2>t, <3>3, RenderFrame
    <3> QED BY <1>1, <3>1, <3>2, <3>3 DEF Next
  <2>2. WinInv(w) /\ ExposeInv(w) /\ GuiWaitsFor(w)
    BY <1>1 DEF GfxInv, IInv, WinGfx, GuiWaitsFor
  <2>3. rtPc[w] = "handle" /\ cur[w].type \in Blocking => cur[w].type = "RequestSync"
    BY <1>1, HandlerAsks DEF TypeOf, SyncSteps, ReleaseSteps
  <2>4. ASSUME LoopExit(w) \/ LoopIdle(w) \/ LoopFrame(w) \/ FrameEmpty(w)
            \/ FrameBuildLost(w) \/ FrameFails(w) \/ FrameLost(w) \/ FrameBegun(w)
            \/ SyncLock(w) \/ TakeEvent(w) \/ EventsDone(w) \/ HandleRequestSync(w)
            \/ HandlePostJob(w)
        PROVE  FALSE
    BY <1>1, <2>4 DEF LoopExit, LoopIdle, LoopFrame, FrameEmpty, FrameBuildLost,
       FrameFails, FrameLost, FrameBegun, SyncLock, TakeEvent, EventsDone,
       HandleRequestSync, HandlePostJob, guiVars
  <2>5. ASSUME HandleTryRelease(w) \/ HandleGrab(w) \/ HandleObscure(w)
            \/ HandleReleaseSwapchain(w)
        PROVE  FALSE
    BY <2>3, <2>5 DEF HandleTryRelease, HandleGrab, HandleObscure, HandleReleaseSwapchain,
       Handles, Blocking, EventTypes
  <2>6. ASSUME Sync(w) PROVE FALSE
    <3>1. rtPc[w] = "sync" BY <2>6 DEF Sync
    <3>2. ExposeRequested(w) BY <1>1, <2>2, <3>1 DEF ExposeInv
    <3> QED BY <1>1, <2>6, <3>2 DEF Sync, guiVars
  <2>7. FailWake(w) \/ Render(w) BY <2>1, <2>4, <2>5, <2>6 DEF RenderStep
  <2> QED BY <2>7 DEF FailWake, Render
<1>2. GfxInv /\ [Next]_vars =>
        [\A w \in Windows :
           guiPc = "blocked" /\ guiPc' = "woken" /\ guiWin = w /\ ThisStep = "syncExpose"
             => rtPc[w] \in {"render", "failWake"}]_vars
  BY <1>1
<1> QED BY <1>2, GraphicsInvariance, PTL DEF Spec, ExposeWaitsForFrame

-----------------------------------------------------------------------------
(* Updates.                                                                 *)

\* Without a grab on the side, only polishAndSync() of the window synchronizes it.
LEMMA NoGrabHandled ==
  ASSUME UpdInv, NEW w \in Windows
  PROVE  ~HandleGrab(w)
<1> SUFFICES ASSUME HandleGrab(w) PROVE FALSE OBVIOUS
<1>1. rtPc[w] = "handle" /\ cur[w].type = "Grab" /\ cur[w].type \in Blocking
  BY DEF HandleGrab, Handles, Blocking, EventTypes
<1>2. GuiWaitsFor(w) /\ TypeOf(ThisStep) = "Grab" BY <1>1, HandlerAsks DEF UpdInv
<1>3. ThisStep = "grab" BY <1>2 DEF TypeOf, SyncSteps, ReleaseSteps
<1>4. guiTodo # <<>> /\ guiTodo \in Seq(Steps)
  BY <1>2 DEF UpdInv, GfxInv, IInv, GuiInv, InStep, GuiWaitsFor, TypeOK, GuiType
<1>5. 1 \in 1..Len(guiTodo) /\ guiTodo[1] = "grab" BY <1>3, <1>4 DEF ThisStep
<1> QED BY <1>5 DEF UpdInv, Ahead

\* A window keeps its part while nothing of it changes.
LEMMA OtherWindowUpd ==
  ASSUME NEW v \in Windows, UpdateInv(v),
         window'[v] = window[v], windowSize'[v] = windowSize[v], dirty'[v] = dirty[v],
         updateRequested'[v] = updateRequested[v], fullUpdate'[v] = fullUpdate[v],
         rhi'[v] = rhi[v], rtPc'[v] = rtPc[v], swapchain'[v] = swapchain[v],
         Coming(v) => Coming(v)'
  PROVE  UpdateInv(v)'
  BY DEF UpdateInv

\* A render thread does not touch what belongs to the updates of other windows.
LEMMA UpdateFrame ==
  ASSUME TypeOK, NEW w \in Windows, RenderStep(w)
  PROVE  /\ UNCHANGED updateRequested
         /\ \A v \in Windows \ {w} :
              /\ windowSize'[v] = windowSize[v] /\ dirty'[v] = dirty[v]
              /\ fullUpdate'[v] = fullUpdate[v]
              /\ updateDuringSync'[v] = updateDuringSync[v]
         /\ fullUpdate[w] => fullUpdate'[w]
<1> USE DEF TypeOK, LoopType, SceneType, ThreadType, loopVars, sceneVars
<1>1. CASE LoopExit(w) \/ LoopIdle(w) \/ LoopFrame(w) \/ FrameEmpty(w) \/ FrameBegun(w)
           \/ FailWake(w) \/ SyncLock(w) \/ TakeEvent(w) \/ EventsDone(w)
           \/ HandleObscure(w) \/ HandlePostJob(w) \/ HandleReleaseSwapchain(w)
  BY <1>1 DEF LoopExit, LoopIdle, LoopFrame, FrameEmpty, FrameBegun, FailWake, SyncLock,
     TakeEvent, EventsDone, HandleObscure, HandlePostJob, HandleReleaseSwapchain
<1>2. CASE FrameBuildLost(w) \/ FrameLost(w) \/ FrameFails(w)
  BY <1>2 DEF FrameBuildLost, FrameLost, FrameFails, PostFullUpdate
<1>3. CASE Sync(w) \/ HandleGrab(w)
  BY <1>3 DEF Sync, HandleGrab, SyncScene
<1>4. CASE Render(w) BY <1>4 DEF Render, EndFrame, PostFullUpdate
<1>5. CASE HandleRequestSync(w) BY <1>5 DEF HandleRequestSync
<1>6. CASE HandleTryRelease(w) BY <1>6 DEF HandleTryRelease
<1> QED BY <1>1, <1>2, <1>3, <1>4, <1>5, <1>6 DEF RenderStep

\* The QRhi stays: it is made again before the next frame, and with each loss of the
\* device a full update is posted.
LEMMA RenderRhi ==
  ASSUME UpdatesKept, UpdInv, NEW w \in Windows, RenderStep(w)
  PROVE  /\ rhi'[w] # "doomed"
         /\ rtPc'[w] \in {"frame", "syncLock", "sync"} => rhi'[w] = "ready"
         /\ rtPc'[w] = "failWake" => fullUpdate'[w]
         /\ swapchain'[w] # "failed"
<1>t. TypeOK BY DEF UpdInv, GfxInv, IInv
<1>u. UpdateInv(w) BY DEF UpdInv
<1> USE <1>t DEF TypeOK, ThreadType, GfxType, SceneType, ChainType, gfxVars, sceneVars,
                 chainVars, GoTo
<1>1. CASE LoopExit(w) \/ LoopIdle(w) \/ FrameEmpty(w) \/ FailWake(w) \/ TakeEvent(w)
           \/ EventsDone(w)
  <2>1. /\ UNCHANGED <<rhi, swapchain>>
        /\ rtPc'[w] \in {"stopped", "loop", "events", "handle", "wait"}
    BY <1>1 DEF LoopExit, LoopIdle, FrameEmpty, FailWake, TakeEvent, EventsDone
  <2> QED BY <1>u, <2>1 DEF UpdateInv
<1>2. CASE LoopFrame(w)
  <2>1. CreatedRhi(w) = {"ready"}
    BY <1>u DEF CreatedRhi, Fault, UpdatesKept, UpdateInv
  <2>2. /\ rhi'[w] = "ready" /\ rtPc'[w] = "frame"
        /\ swapchain'[w] \in {swapchain[w], "new"}
    BY <1>2, <2>1 DEF LoopFrame
  <2> QED BY <1>u, <2>2 DEF UpdateInv
<1>3. CASE FrameBuildLost(w) \/ FrameLost(w)
  <2>1. /\ rhi'[w] = "lost" /\ fullUpdate'[w] /\ rtPc'[w] \in {"events", "failWake"}
        /\ swapchain'[w] = "none"
    BY <1>3 DEF FrameBuildLost, FrameLost, HandleDeviceLoss, ReleaseSwapchain,
       PostFullUpdate, AfterFailure
  <2> QED BY <2>1
<1>4. CASE FrameFails(w)
  <2>1. UNCHANGED rhi /\ rtPc'[w] \in {"events", "failWake"} BY <1>4 DEF FrameFails, AfterFailure
  <2>2. fullUpdate'[w] /\ swapchain'[w] # "failed"
    <3>1. PICK state \in {"active", "failed"} :
            /\ Build(w, state)
            /\ \/ state = "failed" /\ UNCHANGED fullUpdate
               \/ PostFullUpdate(w)
      BY <1>4 DEF FrameFails, Fault, UpdatesKept
    <3>2. state # "failed" /\ swapchain'[w] \in {swapchain[w], "active"}
      BY <1>u, <3>1 DEF Build, Fault, UpdatesKept, UpdateInv
    <3> QED BY <1>u, <3>1, <3>2 DEF PostFullUpdate, UpdateInv
  <2> QED BY <1>u, <2>1, <2>2 DEF UpdateInv
<1>5. CASE FrameBegun(w) \/ SyncLock(w) \/ Sync(w)
  <2>1. /\ UNCHANGED rhi /\ rtPc[w] \in {"frame", "syncLock", "sync"} /\ rtPc'[w] # "failWake"
        /\ swapchain'[w] \in {swapchain[w], "active"}
    BY <1>5 DEF FrameBegun, Build, SyncLock, Sync
  <2> QED BY <1>u, <2>1 DEF UpdateInv
<1>6. CASE Render(w)
  <2>1. /\ rhi'[w] \in {rhi[w], "lost"} /\ rtPc'[w] = "events"
        /\ swapchain'[w] \in {swapchain[w], "none"}
    BY <1>6 DEF Render, EndFrame, HandleDeviceLoss, ReleaseSwapchain
  <2> QED BY <1>u, <2>1 DEF UpdateInv
<1>7. ASSUME NEW wakes, Resume(w, wakes) PROVE rtPc'[w] \in {"loop", "events", "wait"}
  BY <1>7 DEF Resume
<1>8. CASE HandleObscure(w) \/ HandleRequestSync(w) \/ HandleGrab(w) \/ HandlePostJob(w)
           \/ HandleReleaseSwapchain(w)
  <2>1. /\ UNCHANGED rhi /\ rtPc'[w] \in {"loop", "events", "wait"}
        /\ swapchain'[w] \in {swapchain[w], "none"}
    BY <1>7, <1>8 DEF HandleObscure, HandleRequestSync, HandleGrab, HandlePostJob,
       HandleReleaseSwapchain, ReleaseSwapchain
  <2> QED BY <1>u, <2>1 DEF UpdateInv
<1>9. CASE HandleTryRelease(w)
  <2>1. rtPc'[w] \in {"loop", "events", "wait"} BY <1>7, <1>9 DEF HandleTryRelease
  <2>2. rhi'[w] \in {rhi[w], "none"} /\ swapchain'[w] \in {swapchain[w], "none"}
    BY <1>9 DEF HandleTryRelease, InvalidateGraphics, ReleaseSwapchain
  <2> QED BY <1>u, <2>1, <2>2 DEF UpdateInv
<1> QED BY <1>1, <1>2, <1>3, <1>4, <1>5, <1>6, <1>8, <1>9 DEF RenderStep

\* A render thread's step keeps the update of its window under way: what it leaves
\* dirty is recorded by maybeUpdate(), or was not what the GUI thread waits for.
LEMMA RenderUpdate ==
  ASSUME UpdatesKept, UpdInv, NEW w \in Windows, RenderStep(w),
         window'[w], windowSize'[w], dirty'[w]
  PROVE  updateRequested'[w] \/ fullUpdate'[w] \/ Coming(w)'
<1>t. TypeOK BY DEF UpdInv, GfxInv, IInv
<1>g. GfxInv /\ IInv /\ WinInv(w) /\ UpdateInv(w) BY DEF UpdInv, GfxInv, IInv
<1>0. /\ UNCHANGED <<guiWin, guiTodo, updateRequested>>
      /\ guiPc' = guiPc \/ (guiPc = "blocked" /\ guiWin = w /\ guiPc' = "woken")
      /\ fullUpdate[w] => fullUpdate'[w]
      /\ ThisStep' = ThisStep
  BY <1>t, RenderFrame, UpdateFrame DEF ThisStep
<1>1. window[w] BY <1>g, RenderShown
<1>n. guiPc # "idle" => guiTodo # <<>> BY <1>g DEF IInv, GuiInv, InStep
<1>2. CASE Sync(w)
  <2>1. rtPc[w] = "sync" /\ UNCHANGED windowSize BY <1>2 DEF Sync
  <2>2. OwesWake(w) /\ InFrame(w) BY <2>1 DEF OwesWake, InFrame
  <2>3. guiPc \in {"locked", "blocked"} /\ guiWin = w /\ ThisStep \in SyncSteps
    BY <1>g, <2>2 DEF WinInv, OweInv, RequestInv, GuiWaitsFor
  <2>4. lockedForSync BY <1>g, <2>3 DEF IInv, LockInv
  <2>5. CanSync(w) BY <1>g, <2>1 DEF CanSync, UpdateInv
  <2>6. updateDuringSync'[w]
    BY <1>2, <1>t, <2>4, <2>5 DEF Sync, SyncScene, TypeOK, SceneType, LoopType
  <2> QED BY <1>0, <1>n, <2>3, <2>6 DEF Coming
<1>3. CASE HandleRequestSync(w)
  <2>1. rtPc[w] = "handle" /\ cur[w].type = "RequestSync" /\ cur[w].type \in Blocking
    BY <1>3 DEF HandleRequestSync, Handles, Blocking, EventTypes
  <2>2. GuiWaitsFor(w) /\ TypeOf(ThisStep) = "RequestSync" BY <1>g, <2>1, HandlerAsks
  <2>3. ThisStep \in SyncSteps BY <2>2 DEF TypeOf
  <2>4. rtPc'[w] # "render" /\ guiPc' = guiPc
    BY <1>3, <1>t DEF HandleRequestSync, Resume, GoTo, TypeOK, ThreadType, guiVars
  <2> QED BY <1>0, <1>n, <2>2, <2>3, <2>4 DEF Coming, GuiWaitsFor
<1>4. CASE ~Sync(w) /\ ~HandleRequestSync(w)
  <2>1. windowSize'[w] /\ dirty'[w] => windowSize[w] /\ dirty[w]
    <3> USE <1>t DEF sceneVars
    <3>1. ASSUME LoopExit(w) \/ LoopIdle(w) \/ LoopFrame(w) \/ FrameEmpty(w)
              \/ FrameBuildLost(w) \/ FrameFails(w) \/ FrameLost(w) \/ FrameBegun(w)
              \/ FailWake(w) \/ SyncLock(w)
          PROVE  UNCHANGED <<windowSize, dirty>>
      BY <3>1 DEF LoopExit, LoopIdle, LoopFrame, FrameEmpty, FrameBuildLost, FrameFails,
         FrameLost, FrameBegun, FailWake, SyncLock
    <3>2. ASSUME Render(w) \/ TakeEvent(w) \/ EventsDone(w) \/ HandleObscure(w)
              \/ HandleTryRelease(w) \/ HandlePostJob(w) \/ HandleReleaseSwapchain(w)
          PROVE  UNCHANGED <<windowSize, dirty>>
      BY <3>2 DEF Render, TakeEvent, EventsDone, HandleObscure, HandleTryRelease,
         HandlePostJob, HandleReleaseSwapchain
    <3> QED BY <1>4, <3>1, <3>2, NoGrabHandled DEF RenderStep
  <2>2. updateRequested[w] \/ fullUpdate[w] \/ Coming(w)
    BY <1>g, <1>1, <2>1 DEF UpdateInv
  <2>3. SUFFICES ASSUME Coming(w), ~fullUpdate[w] PROVE Coming(w)'
    BY <1>0, <2>2
  <2>4. updateDuringSync[w] => updateDuringSync'[w]
    <3> USE <1>t DEF loopVars
    <3>1. ASSUME LoopExit(w) \/ LoopIdle(w) \/ LoopFrame(w) \/ FrameEmpty(w)
              \/ FrameBuildLost(w) \/ FrameFails(w) \/ FrameLost(w) \/ FrameBegun(w)
              \/ FailWake(w) \/ SyncLock(w)
          PROVE  UNCHANGED updateDuringSync
      BY <3>1 DEF LoopExit, LoopIdle, LoopFrame, FrameEmpty, FrameBuildLost, FrameFails,
         FrameLost, FrameBegun, FailWake, SyncLock
    <3>2. ASSUME Render(w) \/ TakeEvent(w) \/ EventsDone(w) \/ HandleObscure(w)
              \/ HandleTryRelease(w) \/ HandlePostJob(w) \/ HandleReleaseSwapchain(w)
          PROVE  UNCHANGED updateDuringSync
      BY <3>2 DEF Render, TakeEvent, EventsDone, HandleObscure, HandleTryRelease,
         HandlePostJob, HandleReleaseSwapchain
    <3> QED BY <1>4, <3>1, <3>2, NoGrabHandled DEF RenderStep
  <2>5. CASE updateDuringSync[w] BY <1>0, <2>3, <2>4, <2>5 DEF Coming
  <2>6. CASE guiPc \in {"idle", "polished"} BY <1>0, <2>3, <2>6 DEF Coming
  <2>7. CASE guiPc \in {"locked", "blocked"} /\ ~(rtPc[w] = "render" /\ ExposeRequested(w))
    <3>1. guiPc' = guiPc
      <4>1. SUFFICES ASSUME guiPc' # guiPc PROVE FALSE OBVIOUS
      <4>2. rtPc[w] = "handle" /\ cur[w].type \in Blocking => cur[w].type = "RequestSync"
        BY <1>g, <2>3, HandlerAsks DEF Coming, TypeOf, SyncSteps, ReleaseSteps
      <4>3. ASSUME LoopExit(w) \/ LoopIdle(w) \/ LoopFrame(w) \/ FrameEmpty(w)
                \/ FrameBuildLost(w) \/ FrameFails(w) \/ FrameLost(w) \/ FrameBegun(w)
                \/ SyncLock(w) \/ TakeEvent(w) \/ EventsDone(w) \/ HandlePostJob(w)
            PROVE  FALSE
        BY <4>1, <4>3 DEF LoopExit, LoopIdle, LoopFrame, FrameEmpty, FrameBuildLost,
           FrameFails, FrameLost, FrameBegun, SyncLock, TakeEvent, EventsDone,
           HandlePostJob, guiVars
      <4>4. ASSUME HandleTryRelease(w) \/ HandleObscure(w) \/ HandleReleaseSwapchain(w)
            PROVE  FALSE
        BY <4>2, <4>4 DEF HandleTryRelease, HandleObscure, HandleReleaseSwapchain, Handles,
           Blocking, EventTypes
      <4>5. ASSUME FailWake(w) PROVE FALSE
        BY <1>g, <2>3, <4>5 DEF FailWake, UpdateInv
      <4>6. ASSUME Render(w) PROVE FALSE BY <2>7, <4>1, <4>6 DEF Render, guiVars
      <4> QED BY <1>4, <4>3, <4>4, <4>5, <4>6, NoGrabHandled DEF RenderStep
    <3>2. ~(rtPc'[w] = "render" /\ ExposeRequested(w)')
      <4> SUFFICES ASSUME rtPc'[w] = "render" PROVE ~ExposeRequested(w)' OBVIOUS
      <4> USE <1>t DEF TypeOK, ThreadType, GoTo, threadVars
      <4>1. ASSUME LoopExit(w) \/ LoopIdle(w) \/ LoopFrame(w) \/ FrameEmpty(w)
                \/ FrameBuildLost(w) \/ FrameFails(w) \/ FrameLost(w)
                \/ FailWake(w) \/ SyncLock(w) \/ TakeEvent(w) \/ EventsDone(w) \/ Render(w)
            PROVE  FALSE
        BY <4>1 DEF LoopExit, LoopIdle, LoopFrame, FrameEmpty, FrameBuildLost, FrameFails,
           FrameLost, FailWake, SyncLock, TakeEvent, EventsDone, Render, AfterFailure
      <4>2. ASSUME NEW wakes, Resume(w, wakes) PROVE FALSE BY <4>2 DEF Resume
      <4>3. ASSUME HandleTryRelease(w) \/ HandleObscure(w) \/ HandleReleaseSwapchain(w)
                \/ HandlePostJob(w)
            PROVE  FALSE
        BY <4>2, <4>3 DEF HandleTryRelease, HandleObscure, HandleReleaseSwapchain,
           HandlePostJob
      <4>4. FrameBegun(w)
        BY <1>4, <4>1, <4>3, NoGrabHandled DEF RenderStep
      <4>5. "sync" \notin frameReq'[w]
        BY <4>4 DEF FrameBegun, TakeRequests, SyncRequested
      <4> QED BY <4>5 DEF ExposeRequested, ExposeRequest
    <3> QED BY <1>0, <2>3, <2>7, <3>1, <3>2 DEF Coming
  <2> QED BY <2>3, <2>5, <2>6, <2>7 DEF Coming
<1> QED BY <1>2, <1>3, <1>4

\* Every step of a render thread keeps the updates under way.
LEMMA RenderStepUpd ==
  ASSUME UpdatesKept, UpdInv, NEW w \in Windows, RenderStep(w)
  PROVE  ~Ahead("grab")' /\ \A v \in Windows : UpdateInv(v)'
<1>t. TypeOK BY DEF UpdInv, GfxInv, IInv
<1>0. /\ UNCHANGED <<guiWin, guiTodo>>
      /\ guiPc' = guiPc \/ (guiPc = "blocked" /\ guiWin = w /\ guiPc' = "woken")
  BY <1>t, RenderFrame
<1>1. ~Ahead("grab")' BY <1>0 DEF UpdInv, Ahead
<1>2. UpdateInv(w)' BY RenderUpdate, RenderRhi DEF UpdateInv
<1>3. ASSUME NEW v \in Windows, v # w PROVE UpdateInv(v)'
  <2>1. Coming(v) => Coming(v)'
    BY <1>0, <1>3, <1>t, RenderFrame, UpdateFrame DEF Coming, ThisStep, ExposeRequested
  <2>2. UpdateInv(v) BY DEF UpdInv
  <2> HIDE DEF Coming
  <2> QED BY <1>t, <1>3, <2>1, <2>2, RenderFrame, UpdateFrame, GraphicsFrame, OtherWindowUpd
<1> QED BY <1>1, <1>2, <1>3

\* A call from the event loop: what changes a shown window's scene requests an update,
\* and a delivered request starts a synchronization.
LEMMA GuiCallUpd ==
  ASSUME UpdatesKept, UpdInv, NEW w \in Windows, GuiCall(w) \/ GuiEvent(w), ~ResizeSurface(w)
  PROVE  ~Ahead("grab")' /\ \A v \in Windows : UpdateInv(v)'
<1>t. TypeOK /\ GfxInv BY DEF UpdInv, GfxInv, IInv
<1>0. GuiFree /\ guiTodo = <<>> /\ guiPc = "idle" BY <1>t, CallPlans DEF GuiFree
<1>c. ~Grab(w) BY DEF Grab, UpdatesKept
<1>1. ~Ahead("grab")'
  <2>1. CASE Change(w) \/ Update(w) \/ Show(w) \/ ResizeWindow(w) \/ DeliverFullUpdate(w)
             \/ PostJob(w)
    BY <1>0, <2>1 DEF Change, Update, Show, ResizeWindow, DeliverFullUpdate, PostJob,
       guiVars, Ahead
  <2>2. CASE DeliverUpdateRequest(w) \/ Release(w) \/ Obscure(w) \/ DestroyWindow(w)
    BY <2>2 DEF DeliverUpdateRequest, Release, Obscure, DestroyWindow, Start, Ahead
  <2>3. CASE Hide(w)
    <3>1. guiTodo' = HideSteps(w) BY <2>3 DEF Hide, Start
    <3> QED BY <3>1, HideStepsShape DEF Ahead
  <2>4. CASE DestroySurface(w)
    <3> DEFINE before == IF listed[w] THEN <<"releaseSwapchain">> ELSE <<>>
               last == <<"destroyHandle">>
    <3>1. guiTodo' = before \o HideSteps(w) \o last BY <2>4 DEF DestroySurface, Start
    <3>2. before \in Seq(Steps) /\ \A i \in 1..Len(before) : before[i] # "grab"
      <4>1. CASE listed[w]
        <5>1. before = <<"releaseSwapchain">> BY <4>1
        <5> HIDE DEF before
        <5> QED BY <5>1 DEF Steps
      <4>2. CASE ~listed[w]
        <5>1. before = <<>> BY <4>2
        <5> HIDE DEF before
        <5> QED BY <5>1
      <4> QED BY <4>1, <4>2
    <3>3. last \in Seq(Steps) /\ \A i \in 1..Len(last) : last[i] # "grab" BY DEF Steps
    <3>4. /\ HideSteps(w) \in Seq(Steps)
          /\ \A i \in 1..Len(HideSteps(w)) : HideSteps(w)[i] # "grab"
      BY HideStepsShape
    <3>5. \A s, t \in Seq(Steps) :
            /\ s \o t \in Seq(Steps)
            /\ (\A i \in 1..Len(s) : s[i] # "grab") /\ (\A i \in 1..Len(t) : t[i] # "grab")
                 => \A i \in 1..Len(s \o t) : (s \o t)[i] # "grab"
      OBVIOUS
    <3> HIDE DEF before, last
    <3>6. /\ before \o HideSteps(w) \in Seq(Steps)
          /\ \A i \in 1..Len(before \o HideSteps(w)) : (before \o HideSteps(w))[i] # "grab"
      BY <3>2, <3>4, <3>5
    <3> DEFINE front == before \o HideSteps(w)
    <3>7. front \in Seq(Steps) /\ \A i \in 1..Len(front) : front[i] # "grab" BY <3>6
    <3>8. guiTodo' = front \o last BY <3>1
    <3> HIDE DEF front
    <3>9. \A i \in 1..Len(front \o last) : (front \o last)[i] # "grab"
      BY <3>3, <3>5, <3>7
    <3> QED BY <3>8, <3>9 DEF Ahead
  <2>5. CASE Expose(w)
    <3>1. guiTodo' = <<>> \/ guiTodo' = <<"syncExpose">>
      BY <1>0, <2>5 DEF Expose, HandleExposure, Start, guiVars
    <3> QED BY <3>1 DEF Ahead
  <2> QED BY <1>c, <2>1, <2>2, <2>3, <2>4, <2>5 DEF GuiCall, GuiEvent
<1>2. ASSUME NEW v \in Windows PROVE ~Coming(v) /\ UpdateInv(v)
  BY <1>0 DEF Coming, UpdInv
<1>3. ASSUME NEW v \in Windows, v # w PROVE UpdateInv(v)'
  <2>1. /\ windowSize'[v] = windowSize[v] /\ dirty'[v] = dirty[v]
        /\ updateRequested'[v] = updateRequested[v] /\ fullUpdate'[v] = fullUpdate[v]
    <3> USE <1>3, <1>t DEF TypeOK, ThreadType, SceneType, threadVars, sceneVars
    <3>1. CASE Change(w) \/ Update(w) \/ Show(w) \/ ResizeWindow(w) \/ DeliverFullUpdate(w)
               \/ PostJob(w)
      BY <3>1 DEF Change, Update, Show, ResizeWindow, DeliverFullUpdate, PostJob,
         UpdateWindow, MaybeUpdate
    <3>2. CASE DeliverUpdateRequest(w) \/ Release(w) \/ Obscure(w) \/ DestroyWindow(w)
               \/ Hide(w) \/ DestroySurface(w)
      BY <3>2 DEF DeliverUpdateRequest, Release, Obscure, DestroyWindow, Hide,
         DestroySurface
    <3>3. CASE Expose(w) BY <3>3 DEF Expose, HandleExposure
    <3> QED BY <1>c, <3>1, <3>2, <3>3 DEF GuiCall, GuiEvent
  <2> QED BY <1>0, <1>2, <1>3, <1>t, <2>1, CallGfx, OtherWindowUpd
<1>4. UpdateInv(w)'
  <2>1. /\ rhi'[w] # "doomed" /\ swapchain'[w] # "failed"
        /\ rtPc'[w] \in {"frame", "syncLock", "sync"} => rhi'[w] = "ready"
    BY <1>0, <1>2, <1>t, CallGfx DEF UpdateInv
  <2>2. rtPc'[w] # "failWake"
    <3>1. ~OwesWake(w)
      BY <1>0, <1>t DEF GfxInv, IInv, WinInv, OweInv, GuiWaitsFor
    <3>2. rtPc[w] # "failWake" BY <3>1 DEF OwesWake, InFrame
    <3> QED BY <1>0, <1>t, <3>2, CallGfx
  <2>3. ASSUME window[w] PROVE listed[w] /\ IsRunning(w)
    <3>1. active[w] /\ listed[w] BY <1>0, <1>t, <2>3, FreeShown
    <3> QED BY <3>1, <1>t DEF GfxInv, IInv, WinInv, ActiveInv
  <2>4. ASSUME window'[w], windowSize'[w], dirty'[w]
        PROVE  updateRequested'[w] \/ fullUpdate'[w] \/ Coming(w)'
    <3> USE <1>t, <2>4 DEF TypeOK, ThreadType, SceneType, threadVars, sceneVars
    <3>1. CASE Change(w) \/ DeliverFullUpdate(w)
      <4>1. window[w] BY <3>1 DEF Change, DeliverFullUpdate
      <4> QED BY <2>3, <3>1, <4>1 DEF Change, DeliverFullUpdate, UpdateWindow, MaybeUpdate
    <3>2. CASE Update(w) \/ Show(w) \/ ResizeWindow(w) \/ PostJob(w)
      <4>1. /\ UNCHANGED <<window, windowSize, dirty, fullUpdate>>
            /\ updateRequested[w] => updateRequested'[w]
        BY <3>2 DEF Update, Show, ResizeWindow, PostJob, UpdateWindow, MaybeUpdate
      <4> QED BY <1>2, <4>1 DEF UpdateInv
    <3>3. CASE Release(w) \/ Obscure(w) \/ DestroyWindow(w) \/ Hide(w) \/ DestroySurface(w)
      <4>1. UNCHANGED <<window, windowSize, dirty, fullUpdate, updateRequested>>
        BY <3>3 DEF Release, Obscure, DestroyWindow, Hide, DestroySurface
      <4> QED BY <1>2, <4>1 DEF UpdateInv
    <3>4. CASE DeliverUpdateRequest(w)
      <4>1. window[w] BY <3>4 DEF DeliverUpdateRequest
      <4>2. guiTodo' = <<"sync">> /\ guiWin' = w /\ guiPc' = "idle"
        BY <1>0, <2>3, <3>4, <4>1 DEF DeliverUpdateRequest, Start
      <4> QED BY <4>2 DEF Coming, ThisStep, SyncSteps
    <3>5. CASE Expose(w)
      <4>1. CASE HandleExposure(w)
        <5>1. guiTodo' = <<"syncExpose">> /\ guiWin' = w /\ guiPc' = "idle"
          BY <1>0, <4>1 DEF HandleExposure, Start
        <5> QED BY <5>1 DEF Coming, ThisStep, SyncSteps
      <4>2. CASE UNCHANGED <<guiVars, loopVars, threadVars>>
        <5>1. UNCHANGED <<window, windowSize, dirty, fullUpdate, updateRequested>>
          BY <3>5, <4>2 DEF Expose
        <5> QED BY <1>2, <5>1 DEF UpdateInv
      <4> QED BY <3>5, <4>1, <4>2 DEF Expose
    <3> QED BY <1>c, <3>1, <3>2, <3>3, <3>4, <3>5 DEF GuiCall, GuiEvent
  <2> QED BY <2>1, <2>2, <2>4 DEF UpdateInv
<1> QED BY <1>1, <1>3, <1>4

\* The surface's size is no concern of the updates.
LEMMA ResizeSurfaceUpd ==
  ASSUME UpdInv, NEW w \in Windows, ResizeSurface(w)
  PROVE  ~Ahead("grab")' /\ \A v \in Windows : UpdateInv(v)'
<1>1. UNCHANGED <<guiVars, loopVars, sceneVars, chainVars, threadVars, gfxVars>>
  BY DEF ResizeSurface
<1> USE DEF guiVars, loopVars, sceneVars, chainVars, threadVars, gfxVars
<1>2. ~Ahead("grab")' BY <1>1 DEF UpdInv, Ahead
<1>3. ASSUME NEW v \in Windows PROVE UpdateInv(v)'
  <2>1. Coming(v) => Coming(v)' BY <1>1 DEF Coming, ThisStep, ExposeRequested
  <2> HIDE DEF Coming
  <2> QED BY <1>1, <2>1, OtherWindowUpd DEF UpdInv
<1> QED BY <1>2, <1>3

\* A step of the GUI thread through a script: a synchronization is not over before it has
\* happened, or asks for the next.
LEMMA GuiProgressUpd ==
  ASSUME UpdatesKept, UpdInv, NEW w \in Windows, GuiProgress(w)
  PROVE  ~Ahead("grab")' /\ \A v \in Windows : UpdateInv(v)'
<1>t. TypeOK /\ GfxInv /\ IInv /\ InStep BY DEF UpdInv, GfxInv, IInv, GuiInv
<1>0. /\ guiWin = w /\ guiWin' = w /\ guiTodo # <<>> /\ guiTodo \in Seq(Steps)
      /\ guiTodo' = guiTodo \/ (guiTodo' = Tail(guiTodo) /\ guiPc' = "idle" /\ StepDone)
      /\ UNCHANGED rtPc
  BY <1>t DEF GuiProgress, SkipStep, Polish, LockAndPost, WaitForWake, FinishSync, FinishGrab,
     FinishOther, FinishRelease, JoinThread, DestroyHandle, DeleteWindow, WokenIn, Doing,
     StepDone, threadVars, InStep, TypeOK, GuiType
<1>1. ~Ahead("grab")'
  <2>1. \A i \in 1..Len(Tail(guiTodo)) :
          i + 1 \in 1..Len(guiTodo) /\ Tail(guiTodo)[i] = guiTodo[i + 1]
    BY <1>0
  <2> QED BY <1>0, <2>1 DEF UpdInv, Ahead
<1>g. ThisStep # "grab"
  <2>1. 1 \in 1..Len(guiTodo) /\ ThisStep = guiTodo[1] BY <1>0 DEF ThisStep
  <2> QED BY <2>1 DEF UpdInv, Ahead
<1>2. ASSUME NEW v \in Windows, v # w PROVE UpdateInv(v)'
  <2>1. ~Coming(v) BY <1>0, <1>2 DEF Coming
  <2>2. /\ windowSize'[v] = windowSize[v] /\ dirty'[v] = dirty[v] /\ window'[v] = window[v]
        /\ updateRequested'[v] = updateRequested[v] /\ fullUpdate'[v] = fullUpdate[v]
        /\ rhi'[v] = rhi[v] /\ swapchain'[v] = swapchain[v]
    <3> USE <1>2, <1>t DEF TypeOK, ThreadType, SceneType, GfxType, ChainType, threadVars,
            sceneVars, gfxVars, chainVars
    <3>1. CASE SkipStep(w) \/ LockAndPost(w) \/ WaitForWake(w) \/ FinishGrab(w)
               \/ FinishOther(w) \/ FinishRelease(w) \/ JoinThread(w) \/ DestroyHandle(w)
      BY <3>1 DEF SkipStep, LockAndPost, WaitForWake, FinishGrab, FinishOther,
         FinishRelease, JoinThread, DestroyHandle
    <3>2. CASE Polish(w) \/ FinishSync(w) BY <3>2 DEF Polish, FinishSync
    <3>3. CASE DeleteWindow(w) BY <3>3 DEF DeleteWindow, ReleaseSwapchain
    <3> QED BY <3>1, <3>2, <3>3 DEF GuiProgress
  <2>3. UpdateInv(v) BY DEF UpdInv
  <2> QED BY <1>0, <2>1, <2>2, <2>3, OtherWindowUpd
<1>3. UpdateInv(w)'
  <2> USE <1>t DEF TypeOK, ThreadType, SceneType, GfxType, ChainType, LoopType, threadVars,
            sceneVars, gfxVars, chainVars, loopVars
  <2>u. UpdateInv(w) BY DEF UpdInv
  <2>w. \/ rhi'[w] = rhi[w] /\ swapchain'[w] = swapchain[w] /\ fullUpdate'[w] = fullUpdate[w]
        \/ /\ rhi'[w] = "none" /\ swapchain'[w] = "none"
           /\ ~window'[w] /\ rtPc'[w] = "stopped"
    <3>1. CASE SkipStep(w) \/ LockAndPost(w) \/ WaitForWake(w) \/ FinishGrab(w)
               \/ FinishOther(w) \/ FinishRelease(w) \/ JoinThread(w) \/ DestroyHandle(w)
      BY <3>1 DEF SkipStep, LockAndPost, WaitForWake, FinishGrab, FinishOther,
         FinishRelease, JoinThread, DestroyHandle
    <3>2. CASE Polish(w) \/ FinishSync(w) BY <3>2 DEF Polish, FinishSync
    <3>3. CASE DeleteWindow(w) BY <3>3 DEF DeleteWindow, ReleaseSwapchain, IsRunning
    <3> QED BY <3>1, <3>2, <3>3 DEF GuiProgress
  <2>1. /\ rhi'[w] # "doomed" /\ swapchain'[w] # "failed"
        /\ rtPc'[w] \in {"frame", "syncLock", "sync"} => rhi'[w] = "ready"
        /\ rtPc'[w] = "failWake" => fullUpdate'[w]
    BY <1>0, <2>u, <2>w DEF UpdateInv
  <2>2. ASSUME window'[w], windowSize'[w], dirty'[w]
        PROVE  updateRequested'[w] \/ fullUpdate'[w] \/ Coming(w)'
    <3>1. CASE SkipStep(w)
      <4>1. UNCHANGED <<window, windowSize, dirty, updateRequested, fullUpdate>>
        BY <3>1 DEF SkipStep
      <4>2. ThisStep \notin SyncSteps BY <2>2, <3>1, <4>1 DEF SkipStep, Posts, SyncSteps
      <4> QED BY <2>2, <2>u, <4>1, <4>2 DEF UpdateInv, Coming
    <3>2. CASE Polish(w)
      <4>1. guiPc' = "polished" /\ ThisStep \in SyncSteps /\ UNCHANGED guiTodo
        BY <1>g, <3>2 DEF Polish, Doing, SyncSteps
      <4> QED BY <1>0, <4>1 DEF Coming, ThisStep
    <3>3. CASE LockAndPost(w)
      <4>1. /\ UNCHANGED <<window, windowSize, dirty, updateRequested, fullUpdate, guiTodo,
                           frameReq, updateDuringSync>>
            /\ guiPc' = "locked" /\ guiPc \in {"idle", "polished"}
        BY <3>3 DEF LockAndPost
      <4>2. ~OwesWake(w) BY <4>1 DEF IInv, WinInv, OweInv, GuiWaitsFor
      <4>3. ~(rtPc[w] = "render" /\ ExposeRequested(w)) BY <4>2 DEF OwesWake, InFrame
      <4> QED BY <1>0, <2>2, <2>u, <4>1, <4>3 DEF UpdateInv, Coming, ThisStep, ExposeRequested
    <3>4. CASE WaitForWake(w)
      <4>1. /\ UNCHANGED <<window, windowSize, dirty, updateRequested, fullUpdate, guiTodo,
                           frameReq, updateDuringSync>>
            /\ guiPc' = "blocked" /\ guiPc = "locked"
        BY <3>4 DEF WaitForWake
      <4> QED BY <1>0, <2>2, <2>u, <4>1 DEF UpdateInv, Coming, ThisStep, ExposeRequested
    <3>5. CASE FinishSync(w)
      <4>1. /\ UNCHANGED <<window, windowSize, dirty, fullUpdate>>
            /\ updateRequested[w] \/ updateDuringSync[w] => updateRequested'[w]
            /\ guiPc = "woken"
        BY <3>5 DEF FinishSync, WokenIn
      <4> QED BY <2>2, <2>u, <4>1 DEF UpdateInv, Coming
    <3>6. CASE FinishGrab(w) BY <1>g, <3>6 DEF FinishGrab, WokenIn
    <3>7. CASE FinishOther(w) \/ JoinThread(w) \/ DestroyHandle(w) \/ FinishRelease(w)
      <4>1. UNCHANGED <<window, windowSize, dirty, updateRequested, fullUpdate>>
        BY <3>7 DEF FinishOther, JoinThread, DestroyHandle, FinishRelease
      <4>2. ThisStep \notin SyncSteps
        BY <3>7 DEF FinishOther, JoinThread, DestroyHandle, FinishRelease, WokenIn, Doing,
           SyncSteps, IInv, GuiInv, ReleaseSteps
      <4> QED BY <2>2, <2>u, <4>1, <4>2 DEF UpdateInv, Coming
    <3>8. CASE DeleteWindow(w) BY <2>2, <3>8 DEF DeleteWindow
    <3> QED BY <3>1, <3>2, <3>3, <3>4, <3>5, <3>6, <3>7, <3>8 DEF GuiProgress
  <2> QED BY <2>1, <2>2 DEF UpdateInv
<1> QED BY <1>1, <1>2, <1>3

\* When the GUI thread is back in its event loop, a shown window whose scene has changed
\* has an update under way, if nothing but device losses and outdated swapchains spoils
\* its frames and no grab synchronizes the scene: the polish, the synchronization and
\* the frame that fails each leave a request behind.
THEOREM UpdatesAreKept == ASSUME UpdatesKept PROVE Spec => []NoLostUpdate
<1>1. Init => UpdInv
  <2> SUFFICES ASSUME Init PROVE UpdInv OBVIOUS
  <2>1. GfxInv BY InitGfx
  <2>2. ~Ahead("grab") BY DEF Init, Ahead
  <2>3. ASSUME NEW w \in Windows PROVE UpdateInv(w)
    <3>1. ~window[w] /\ rhi[w] = "none" /\ rtPc[w] = "stopped" /\ swapchain[w] = "none"
      BY DEF Init
    <3> QED BY <3>1 DEF UpdateInv
  <2> QED BY <2>1, <2>2, <2>3 DEF UpdInv
<1>2. UpdInv /\ [Next]_vars => UpdInv'
  <2> SUFFICES ASSUME UpdInv, [Next]_vars PROVE UpdInv' OBVIOUS
  <2>1. GfxInv' BY NextGfx DEF UpdInv
  <2>2. CASE UNCHANGED vars
    <3> USE DEF vars, guiVars, loopVars, sceneVars, chainVars, threadVars, gfxVars
    <3>1. ~Ahead("grab")' BY <2>2 DEF UpdInv, Ahead
    <3>2. ASSUME NEW v \in Windows PROVE UpdateInv(v)'
      <4>1. Coming(v) => Coming(v)' BY <2>2 DEF Coming, ThisStep, ExposeRequested
      <4> HIDE DEF Coming
      <4> QED BY <2>2, <4>1, OtherWindowUpd DEF UpdInv
    <3> QED BY <2>1, <3>1, <3>2 DEF UpdInv
  <2>3. ASSUME NEW w \in Windows, RenderStep(w) PROVE UpdInv'
    BY <2>1, <2>3, RenderStepUpd DEF UpdInv
  <2>4. ASSUME NEW w \in Windows, GuiCall(w) \/ GuiEvent(w) PROVE UpdInv'
    BY <2>1, <2>4, GuiCallUpd, ResizeSurfaceUpd DEF UpdInv
  <2>5. ASSUME NEW w \in Windows, GuiProgress(w) PROVE UpdInv'
    BY <2>1, <2>5, GuiProgressUpd DEF UpdInv
  <2> QED BY <2>2, <2>3, <2>4, <2>5 DEF Next
<1>3. UpdInv => NoLostUpdate
  BY DEF UpdInv, UpdateInv, NoLostUpdate, GuiFree, Coming, CanSync
<1> QED BY <1>1, <1>2, <1>3, PTL DEF Spec

=============================================================================
