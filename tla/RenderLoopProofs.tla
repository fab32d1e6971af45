-------------------------- MODULE RenderLoopProofs --------------------------
(***************************************************************************)
(* Type correctness and the rendezvous of ThreadedRenderLoop, proved for   *)
(* any set of windows: every step keeps the types of the variables and the *)
(* inductive invariant IInv of RenderLoopInv, and IInv says that no wait   *)
(* of the GUI thread is forgotten, that no request outlives its wait and   *)
(* that the scene is synchronized only meanwhile; so ThreadedRenderLoop    *)
(* implements the blocking protocol GuiBlock.                              *)
(***************************************************************************)
EXTENDS RenderLoopInv, TLAPS

-----------------------------------------------------------------------------
(* What every step does to the types of the variables.                      *)

\* Ev builds events.
LEMMA EvType ==
  ASSUME NEW type \in EventTypes, NEW opts \in SUBSET EventOpts
  PROVE  Ev(type, opts) \in Event
  BY DEF Ev, Event

\* NoEvent is an event.
LEMMA NoEventType == NoEvent \in Event
  BY EvType DEF NoEvent, EventTypes

\* The initial state is well typed.
LEMMA InitTypeOK == Init => TypeOK
  BY NoEventType DEF Init, TypeOK, GuiType, PlatType, LoopType, SceneType, ChainType,
     ThreadType, GfxType, ChannelType, GuiPcs, RtPcs

-----------------------------------------------------------------------------
(* What the operators that several actions share do to the types.          *)

LEMMA WakeGuiType ==
  ASSUME GuiType, NEW w \in Windows, WakeGui(w)
  PROVE  GuiType'
  BY DEF GuiType, WakeGui, GuiPcs

\* Releasing a swapchain keeps the types.
LEMMA ReleaseSwapchainType ==
  ASSUME ChainType, NEW w \in Windows, ReleaseSwapchain(w)
  PROVE  ChainType'
  BY DEF ChainType, ReleaseSwapchain

\* handleDeviceLoss() keeps the types.
LEMMA HandleDeviceLossType ==
  ASSUME ChainType, GfxType, NEW w \in Windows, HandleDeviceLoss(w)
  PROVE  ChainType' /\ GfxType'
  BY ReleaseSwapchainType DEF GfxType, HandleDeviceLoss

\* ensureRhi() and the swapchain's creation keep the types.
LEMMA BuildType ==
  ASSUME ChainType, NEW w \in Windows, NEW state, Build(w, state)
  PROVE  ChainType'
<1>1. CASE UNCHANGED chainVars BY <1>1 DEF ChainType, chainVars
<1>2. CASE ~UNCHANGED chainVars
  <2>1. state \in {"active", "failed"} BY <1>2 DEF Build
  <2>2. swapchain' = [swapchain EXCEPT ![w] = state] BY <1>2 DEF Build
  <2>3. hasRenderable' = [hasRenderable EXCEPT ![w] = (state = "active")]
    BY <1>2 DEF Build
  <2>4. justRenderable' = [justRenderable EXCEPT ![w] = FALSE] BY <1>2 DEF Build
  <2> QED BY <2>1, <2>2, <2>3, <2>4 DEF ChainType
<1> QED BY <1>1, <1>2

\* Where a thread goes on after an event is one of its places.
LEMMA ResumeType ==
  ASSUME TypeOK, NEW w \in Windows, NEW wakes \in BOOLEAN, Resume(w, wakes)
  PROVE  /\ rtPc' \in [Windows -> RtPcs]
         /\ sleeping' \in [Windows -> BOOLEAN] /\ stop' \in [Windows -> BOOLEAN]
         /\ cur' \in [Windows -> Event]
  BY NoEventType DEF TypeOK, ThreadType, Resume, GoTo, RtPcs

\* sync() keeps the types.
LEMMA SyncSceneType ==
  ASSUME TypeOK, NEW w \in Windows, NEW again \in BOOLEAN, SyncScene(w, again)
  PROVE  /\ renderer' \in [Windows -> BOOLEAN] /\ dirty' \in [Windows -> BOOLEAN]
         /\ updateDuringSync' \in [Windows -> BOOLEAN]
  BY DEF TypeOK, GfxType, SceneType, LoopType, SyncScene

\* Clearing pendingUpdate keeps its type.
LEMMA TakeRequestsType ==
  ASSUME ThreadType, NEW w \in Windows, TakeRequests(w)
  PROVE  /\ pending' \in [Windows -> SUBSET Flags]
         /\ frameReq' \in [Windows -> SUBSET Flags]
  BY DEF ThreadType, TakeRequests

\* A thread goes to one of its places.
LEMMA GoToType ==
  ASSUME ThreadType, NEW w \in Windows, NEW pc \in RtPcs, GoTo(w, pc)
  PROVE  rtPc' \in [Windows -> RtPcs]
  BY DEF ThreadType, GoTo

\* postEvent() of a full update keeps the queues well typed.
LEMMA PostFullUpdateType ==
  ASSUME SceneType, NEW w \in Windows, PostFullUpdate(w)
  PROVE  fullUpdate' \in [Windows -> BOOLEAN]
  BY DEF SceneType, PostFullUpdate

\* invalidateGraphics() keeps the types.
LEMMA InvalidateGraphicsType ==
  ASSUME ChainType, GfxType, NEW w \in Windows, NEW dtor, InvalidateGraphics(w, dtor)
  PROVE  ChainType' /\ GfxType'
<1>1. CASE rhi[w] # "ready" \/ ~WipesSG(w, dtor)
  BY <1>1 DEF InvalidateGraphics, ChainType, GfxType, gfxVars, chainVars
<1>2. CASE ~(rhi[w] # "ready" \/ ~WipesSG(w, dtor))
  <2>1. CASE ReleaseSwapchain(w)
    BY <1>2, <2>1, ReleaseSwapchainType DEF InvalidateGraphics, GfxType
  <2>2. CASE UNCHANGED chainVars
    BY <1>2, <2>2 DEF InvalidateGraphics, ChainType, GfxType, chainVars
  <2> QED BY <1>2, <2>1, <2>2 DEF InvalidateGraphics
<1> QED BY <1>1, <1>2

-----------------------------------------------------------------------------
\* Every step of a render thread keeps the types.
LEMMA RenderTypeOK ==
  ASSUME TypeOK, NEW w \in Windows, RenderStep(w)
  PROVE  TypeOK'
<1> USE DEF TypeOK, guiVars, platVars, loopVars, sceneVars, chainVars, threadVars,
            gfxVars
<1>1. CASE LoopExit(w) \/ LoopIdle(w)
  <2>1. rtPc' \in [Windows -> RtPcs]
    BY <1>1 DEF LoopExit, LoopIdle, GoTo, ThreadType, RtPcs
  <2> QED
    BY <1>1, <2>1 DEF LoopExit, LoopIdle, GuiType, PlatType, LoopType, SceneType,
       ChainType, ThreadType, GfxType, ChannelType
<1>3. CASE LoopFrame(w)
  <2>1. PICK r \in {"none", "ready", "lost", "doomed"} :
          /\ rhi' = [rhi EXCEPT ![w] = r]
          /\ sgInit' = [sgInit EXCEPT ![w] = @ \/ (r = "ready" /\ windowSize[w])]
          /\ swapchain' = [swapchain EXCEPT
                             ![w] = IF r = "ready" /\ @ = "none" THEN "new" ELSE @]
    <3>1. CreatedRhi(w) \subseteq {"none", "ready", "lost", "doomed"}
      BY DEF CreatedRhi, GfxType
    <3> QED BY <1>3, <3>1 DEF LoopFrame
  <2>2. GfxType' /\ ChainType'
    BY <1>3, <2>1 DEF LoopFrame, GfxType, ChainType, ThreadType
  <2>3. ThreadType' BY <1>3 DEF LoopFrame, GoTo, ThreadType, RtPcs
  <2> QED
    BY <1>3, <2>2, <2>3 DEF LoopFrame, GuiType, PlatType, LoopType, SceneType,
       ChannelType
<1>4. CASE FrameEmpty(w)
  <2>1. ThreadType' BY <1>4, TakeRequestsType DEF FrameEmpty, GoTo, ThreadType, RtPcs
  <2> QED
    BY <1>4, <2>1 DEF FrameEmpty, GuiType, PlatType, LoopType, SceneType, ChainType,
       GfxType, ChannelType
<1>5. CASE FrameBuildLost(w) \/ FrameLost(w)
  <2>1. ThreadType'
    BY <1>5, TakeRequestsType
    DEF FrameBuildLost, FrameLost, AfterFailure, GoTo, ThreadType, RtPcs
  <2>2. ChainType' /\ GfxType'
    BY <1>5, HandleDeviceLossType DEF FrameBuildLost, FrameLost
  <2>3. SceneType'
    BY <1>5, PostFullUpdateType DEF FrameBuildLost, FrameLost, SceneType
  <2> QED
    BY <1>5, <2>1, <2>2, <2>3
    DEF FrameBuildLost, FrameLost, GuiType, PlatType, LoopType, ChannelType
<1>6. CASE FrameFails(w)
  <2>1. ThreadType'
    BY <1>6, TakeRequestsType DEF FrameFails, AfterFailure, GoTo, ThreadType, RtPcs
  <2>2. ChainType' BY <1>6, BuildType DEF FrameFails
  <2>3. SceneType' BY <1>6, PostFullUpdateType DEF FrameFails, SceneType
  <2> QED
    BY <1>6, <2>1, <2>2, <2>3
    DEF FrameFails, GuiType, PlatType, LoopType, GfxType, ChannelType
<1>8. CASE FrameBegun(w)
  <2>1. ThreadType' BY <1>8, TakeRequestsType DEF FrameBegun, GoTo, ThreadType, RtPcs
  <2>2. ChainType' BY <1>8, BuildType DEF FrameBegun, ChainType
  <2> QED
    BY <1>8, <2>1, <2>2 DEF FrameBegun, GuiType, PlatType, LoopType, SceneType, GfxType,
       ChannelType
<1>9. CASE FailWake(w) \/ SyncLock(w)
  <2>1. ThreadType' BY <1>9 DEF FailWake, SyncLock, GoTo, ThreadType, RtPcs
  <2>2. GuiType' BY <1>9, WakeGuiType DEF FailWake, SyncLock, GuiType
  <2>3. ChannelType' BY <1>9 DEF FailWake, SyncLock, ChannelType
  <2> QED
    BY <1>9, <2>1, <2>2, <2>3 DEF FailWake, SyncLock, PlatType, LoopType, SceneType,
       ChainType, GfxType
<1>11. CASE Sync(w)
  <2>1. ThreadType' BY <1>11 DEF Sync, GoTo, ThreadType, RtPcs
  <2>2. GuiType' BY <1>11, WakeGuiType DEF Sync, GuiType
  <2>3. ChannelType' BY <1>11 DEF Sync, ChannelType
  <2>4. GfxType' /\ SceneType' /\ LoopType'
    <3>1. CASE \E again \in BOOLEAN : SyncScene(w, again)
      BY <1>11, <3>1, SyncSceneType DEF Sync, GfxType, SceneType, LoopType
    <3>2. CASE UNCHANGED <<renderer, dirty, updateDuringSync>>
      BY <1>11, <3>2 DEF Sync, GfxType, SceneType, LoopType
    <3> QED BY <1>11, <3>1, <3>2 DEF Sync
  <2> QED BY <1>11, <2>1, <2>2, <2>3, <2>4 DEF Sync, PlatType, ChainType
<1>12. CASE Render(w)
  <2>1. ThreadType' BY <1>12 DEF Render, GoTo, ThreadType, RtPcs, Flags
  <2>2. GuiType' BY <1>12, WakeGuiType DEF Render, GuiType
  <2>3. ChannelType' BY <1>12 DEF Render, ChannelType
  <2>4. ChainType' /\ GfxType' /\ fullUpdate' \in [Windows -> BOOLEAN]
    <3>1. CASE UNCHANGED <<chainVars, gfxVars>> /\ UNCHANGED fullUpdate
      BY <3>1 DEF ChainType, GfxType, SceneType
    <3>2. CASE PostFullUpdate(w) /\ UNCHANGED <<chainVars, gfxVars>>
      BY <3>2, PostFullUpdateType DEF ChainType, GfxType
    <3>3. CASE PostFullUpdate(w) /\ HandleDeviceLoss(w)
      BY <3>3, PostFullUpdateType, HandleDeviceLossType
    <3> QED BY <1>12, <3>1, <3>2, <3>3 DEF Render, EndFrame
  <2> QED BY <1>12, <2>1, <2>2, <2>3, <2>4 DEF Render, PlatType, LoopType, SceneType
<1>13. CASE TakeEvent(w)
  <2>1. Head(queue[w]) \in Event /\ Tail(queue[w]) \in Seq(Event)
    BY <1>13 DEF TakeEvent, ChannelType
  <2>2. ThreadType' BY <1>13, <2>1 DEF TakeEvent, GoTo, ThreadType, RtPcs
  <2>3. ChannelType' BY <1>13, <2>1 DEF TakeEvent, ChannelType
  <2> QED
    BY <1>13, <2>2, <2>3 DEF TakeEvent, GuiType, PlatType, LoopType, SceneType,
       ChainType, GfxType
<1>14. CASE EventsDone(w)
  <2>1. ThreadType' BY <1>14 DEF EventsDone, GoTo, ThreadType, RtPcs
  <2> QED
    BY <1>14, <2>1 DEF EventsDone, GuiType, PlatType, LoopType, SceneType, ChainType,
       GfxType, ChannelType
<1>15. CASE HandleObscure(w) \/ HandleReleaseSwapchain(w)
  <2>1. ThreadType'
    BY <1>15, ResumeType DEF HandleObscure, HandleReleaseSwapchain, ThreadType
  <2>2. GuiType'
    BY <1>15, WakeGuiType DEF HandleObscure, HandleReleaseSwapchain, GuiType
  <2>3. ChainType'
    BY <1>15, ReleaseSwapchainType DEF HandleObscure, HandleReleaseSwapchain, ChainType
  <2> QED
    BY <1>15, <2>1, <2>2, <2>3 DEF HandleObscure, HandleReleaseSwapchain, PlatType,
       LoopType, SceneType, GfxType, ChannelType
<1>16. CASE HandleRequestSync(w)
  <2>1. RequestedFlags(cur[w].opts) \in SUBSET Flags
    BY DEF RequestedFlags, Flags, ExposeRequest
  <2>2. /\ window' \in [Windows -> BOOLEAN] /\ windowSize' \in [Windows -> BOOLEAN]
        /\ pending' \in [Windows -> SUBSET Flags]
    BY <1>16, <2>1 DEF HandleRequestSync, ThreadType
  <2>3. ThreadType'
    BY <1>16, <2>2, ResumeType DEF HandleRequestSync, ThreadType
  <2> QED
    BY <1>16, <2>3 DEF HandleRequestSync, GuiType, PlatType, LoopType, SceneType,
       ChainType, GfxType, ChannelType
<1>17. CASE HandleTryRelease(w)
  <2> DEFINE dtor == "destructor" \in cur[w].opts
  <2>1. ThreadType'
    <3>1. \E wakes \in BOOLEAN : Resume(w, wakes) BY <1>17 DEF HandleTryRelease
    <3>2. active' \in [Windows -> BOOLEAN] BY <1>17 DEF HandleTryRelease, ThreadType
    <3> QED BY <1>17, <3>1, <3>2, ResumeType DEF HandleTryRelease, ThreadType
  <2>2. GuiType' BY <1>17, WakeGuiType DEF HandleTryRelease
  <2>3. ChainType' /\ GfxType'
    <3>1. CASE InvalidateGraphics(w, dtor) BY <3>1, InvalidateGraphicsType
    <3>2. CASE UNCHANGED <<gfxVars, chainVars>> BY <3>2 DEF ChainType, GfxType
    <3> QED BY <1>17, <3>1, <3>2 DEF HandleTryRelease
  <2> QED
    BY <1>17, <2>1, <2>2, <2>3 DEF HandleTryRelease, PlatType, LoopType, SceneType,
       ChannelType
<1>18. CASE HandleGrab(w)
  <2>1. ThreadType'
    <3>1. \E wakes \in BOOLEAN : Resume(w, wakes) BY <1>18 DEF HandleGrab
    <3>2. pending' \in [Windows -> SUBSET Flags]
      <4>1. pending \in [Windows -> SUBSET Flags] /\ "repaint" \in Flags
        BY DEF TypeOK, ThreadType, Flags
      <4> QED BY <1>18, <4>1 DEF HandleGrab
    <3> QED BY <1>18, <3>1, <3>2, ResumeType DEF HandleGrab, ThreadType
  <2>2. GuiType' BY <1>18, WakeGuiType DEF HandleGrab
  <2>3. GfxType' /\ SceneType' /\ LoopType'
    <3>1. CASE \E again \in BOOLEAN : SyncScene(w, again)
      BY <1>18, <3>1, SyncSceneType DEF HandleGrab, GfxType, SceneType, LoopType
    <3>2. CASE UNCHANGED <<renderer, dirty, updateDuringSync>>
      BY <1>18, <3>2 DEF HandleGrab, GfxType, SceneType, LoopType
    <3> QED BY <1>18, <3>1, <3>2 DEF HandleGrab
  <2> QED BY <1>18, <2>1, <2>2, <2>3 DEF HandleGrab, PlatType, ChainType, ChannelType
<1>19. CASE HandlePostJob(w)
  <2>1. PICK update \in BOOLEAN :
          /\ pending' = [pending EXCEPT
                           ![w] = @ \cup (IF update THEN {"repaint"} ELSE {})]
          /\ Resume(w, update)
    BY <1>19 DEF HandlePostJob
  <2>2. ThreadType'
    <3>1. pending' \in [Windows -> SUBSET Flags] BY <2>1 DEF ThreadType, Flags
    <3> QED BY <1>19, <2>1, <3>1, ResumeType DEF HandlePostJob, ThreadType
  <2> QED
    BY <1>19, <2>2 DEF HandlePostJob, GuiType, PlatType, LoopType, SceneType, ChainType,
       GfxType, ChannelType
<1> QED
  BY <1>1, <1>3, <1>4, <1>5, <1>6, <1>8, <1>9, <1>11, <1>12, <1>13, <1>14, <1>15,
     <1>16, <1>17, <1>18, <1>19 DEF RenderStep

-----------------------------------------------------------------------------
\* Going on with a script keeps its type.
LEMMA StepDoneType ==
  ASSUME GuiType, guiTodo # <<>>, StepDone
  PROVE  GuiType'
  BY DEF GuiType, StepDone, GuiPcs

\* Starting a script keeps the types.
LEMMA StartType ==
  ASSUME GuiType, NEW w \in Windows, NEW steps \in Seq(Steps), Start(w, steps)
  PROVE  GuiType'
  BY DEF GuiType, Start

\* maybeUpdate() keeps the types.
LEMMA MaybeUpdateType ==
  ASSUME SceneType, LoopType, NEW w \in Windows, MaybeUpdate(w)
  PROVE  updateRequested' \in [Windows -> BOOLEAN]
  BY DEF SceneType, LoopType, MaybeUpdate, IsRunning

\* update() of a window keeps the types.
LEMMA UpdateWindowType ==
  ASSUME SceneType, LoopType, NEW w \in Windows, UpdateWindow(w)
  PROVE  /\ updateRequested' \in [Windows -> BOOLEAN]
         /\ forceRenderPass' \in [Windows -> BOOLEAN]
  BY MaybeUpdateType DEF LoopType, UpdateWindow

\* handleExposure() keeps the types.
LEMMA HandleExposureType ==
  ASSUME TypeOK, NEW w \in Windows, HandleExposure(w)
  PROVE  LoopType' /\ ThreadType' /\ GuiType'
<1>1. LoopType' BY DEF TypeOK, LoopType, HandleExposure
<1>2. ThreadType' BY DEF TypeOK, ThreadType, HandleExposure, RtPcs
<1>3. <<"syncExpose">> \in Seq(Steps) BY DEF Steps
<1>4. GuiType' BY <1>3, StartType DEF TypeOK, HandleExposure
<1> QED BY <1>1, <1>2, <1>4

\* A step of a script posts an event.
LEMMA StepEventType ==
  ASSUME TypeOK, NEW w \in Windows, NEW step \in BlockingSteps
  PROVE  /\ StepEvent(w, step) \in Event
         /\ StepEvent(w, step).type = TypeOf(step)
         /\ StepEvent(w, step).type \in Blocking
<1> USE DEF BlockingSteps, SyncSteps, ReleaseSteps, EventTypes, Event, Ev, EventOpts,
            Blocking, StepEvent, TypeOf
<1>1. CASE step \in SyncSteps BY <1>1
<1>2. CASE step \in ReleaseSteps BY <1>2
<1>3. CASE step \in {"obscure", "grab", "releaseSwapchain"} BY <1>3
<1> QED BY <1>1, <1>2, <1>3

\* The steps that wait for an answer post a blocking event.
LEMMA PostsBlocking ==
  ASSUME TypeOK, NEW w, NEW step \in Steps, Posts(w, step)
  PROVE  step \in BlockingSteps
  BY DEF Posts, BlockingSteps, SyncSteps, ReleaseSteps, Steps

\* Scripts are put together from steps.
LEMMA StepSeqs ==
  /\ <<>> \in Seq(Steps)
  /\ \A s \in Steps : <<s>> \in Seq(Steps)
  /\ \A s, t \in Seq(Steps) : s \o t \in Seq(Steps)
  OBVIOUS

\* The steps of a script are named.
LEMMA StepNames ==
  {"sync", "syncExpose", "obscure", "release", "destroyRelease", "grab",
   "releaseSwapchain", "destroyHandle", "delete"} \subseteq Steps
  BY DEF Steps

\* hide() makes a script.
LEMMA HideStepsType ==
  ASSUME NEW w \in Windows
  PROVE  HideSteps(w) \in Seq(Steps)
<1>1. <<"obscure">> \in Seq(Steps) /\ <<"release">> \in Seq(Steps)
  BY StepSeqs, StepNames
<1>2. (IF exposed[w] THEN <<"obscure">> ELSE <<>>) \in Seq(Steps) BY <1>1, StepSeqs
<1> QED BY <1>1, <1>2, StepSeqs DEF HideSteps

-----------------------------------------------------------------------------
\* Every call of the GUI thread keeps the types.
LEMMA GuiCallTypeOK ==
  ASSUME TypeOK, NEW w \in Windows, GuiCall(w) \/ GuiEvent(w)
  PROVE  TypeOK'
<1> USE DEF TypeOK, guiVars, platVars, loopVars, sceneVars, chainVars, threadVars,
            gfxVars
<1>1. CASE Change(w)
  <2>1. SceneType' BY <1>1, MaybeUpdateType DEF Change, SceneType
  <2> QED BY <1>1, <2>1 DEF Change, GuiType, PlatType, LoopType, ChainType, ThreadType,
             GfxType, ChannelType
<1>2. CASE Update(w) \/ DeliverFullUpdate(w)
  <2>1. SceneType' BY <1>2, UpdateWindowType DEF Update, DeliverFullUpdate, SceneType
  <2>2. LoopType' BY <1>2, UpdateWindowType DEF Update, DeliverFullUpdate, LoopType
  <2> QED BY <1>2, <2>1, <2>2 DEF Update, DeliverFullUpdate, GuiType, PlatType,
             ChainType, ThreadType, GfxType, ChannelType
<1>3. CASE DeliverUpdateRequest(w)
  <2>1. SceneType' BY <1>3 DEF DeliverUpdateRequest, SceneType
  <2>2. GuiType' BY <1>3, StartType, StepSeqs, StepNames DEF DeliverUpdateRequest
  <2> QED BY <1>3, <2>1, <2>2 DEF DeliverUpdateRequest, PlatType, LoopType,
             ChainType, ThreadType, GfxType, ChannelType
<1>4. CASE Show(w)
  <2>1. PlatType' BY <1>4 DEF Show, PlatType
  <2> QED BY <1>4, <2>1 DEF Show, GuiType, SceneType, LoopType, ChainType, ThreadType,
             GfxType, ChannelType
<1>5. CASE Expose(w)
  <2>1. PlatType' BY <1>5 DEF Expose, PlatType
  <2>2. ChainType' BY <1>5 DEF Expose, ChainType
  <2>3. LoopType' /\ ThreadType' /\ GuiType'
    BY <1>5, HandleExposureType DEF Expose, LoopType, ThreadType, GuiType
  <2> QED BY <1>5, <2>1, <2>2, <2>3 DEF Expose, SceneType, GfxType, ChannelType
<1>6. CASE Obscure(w)
  <2>1. PlatType' BY <1>6 DEF Obscure, PlatType
  <2>2. ChainType' BY <1>6 DEF Obscure, ChainType
  <2>3. GuiType' BY <1>6, StartType, StepSeqs, StepNames DEF Obscure
  <2> QED BY <1>6, <2>1, <2>2, <2>3 DEF Obscure, LoopType, SceneType, ThreadType,
             GfxType, ChannelType
<1>7. CASE Hide(w)
  <2>1. PlatType' BY <1>7 DEF Hide, PlatType
  <2>2. GuiType' BY <1>7, StartType, HideStepsType DEF Hide
  <2> QED BY <1>7, <2>1, <2>2 DEF Hide, LoopType, SceneType, ChainType, ThreadType,
             GfxType, ChannelType
<1>8. CASE DestroySurface(w)
  <2>0. /\ (IF listed[w] THEN <<"releaseSwapchain">> ELSE <<>>) \in Seq(Steps)
        /\ <<"destroyHandle">> \in Seq(Steps)
    BY StepSeqs, StepNames
  <2>1. (IF listed[w] THEN <<"releaseSwapchain">> ELSE <<>>)
          \o HideSteps(w) \o <<"destroyHandle">> \in Seq(Steps)
    BY <2>0, HideStepsType, StepSeqs
  <2>2. GuiType' BY <1>8, <2>1, StartType DEF DestroySurface
  <2> QED BY <1>8, <2>2 DEF DestroySurface, PlatType, LoopType, SceneType, ChainType,
             ThreadType, GfxType, ChannelType
<1>9. CASE DestroyWindow(w)
  <2>1. <<"obscure", "destroyRelease", "delete">> \in Seq(Steps) BY DEF Steps
  <2>2. <<"delete">> \in Seq(Steps) BY DEF Steps
  <2>3. GuiType' BY <1>9, <2>1, <2>2, StartType DEF DestroyWindow
  <2> QED BY <1>9, <2>3 DEF DestroyWindow, PlatType, LoopType, SceneType, ChainType,
             ThreadType, GfxType, ChannelType
<1>10. CASE Release(w) \/ Grab(w)
  <2>1. <<"release">> \in Seq(Steps) /\ <<"grab">> \in Seq(Steps) BY DEF Steps
  <2>2. GuiType' BY <1>10, <2>1, StartType DEF Release, Grab
  <2> QED BY <1>10, <2>2 DEF Release, Grab, PlatType, LoopType, SceneType, ChainType,
             ThreadType, GfxType, ChannelType
<1>11. CASE PostJob(w)
  <2>1. Ev("PostJob", {}) \in Event BY EvType DEF EventTypes
  <2>2. ChannelType' BY <1>11, <2>1 DEF PostJob, AddEvent, ChannelType
  <2> QED BY <1>11, <2>2 DEF PostJob, GuiType, PlatType, LoopType, SceneType, ChainType,
             ThreadType, GfxType
<1>12. CASE ResizeWindow(w) \/ ResizeSurface(w)
  <2>1. PlatType' BY <1>12 DEF ResizeWindow, ResizeSurface, PlatType
  <2> QED BY <1>12, <2>1 DEF ResizeWindow, ResizeSurface, GuiType, LoopType, SceneType,
             ChainType, ThreadType, GfxType, ChannelType
<1> QED
  BY <1>1, <1>2, <1>3, <1>4, <1>5, <1>6, <1>7, <1>8, <1>9, <1>10, <1>11, <1>12
  DEF GuiCall, GuiEvent

\* Every step of the GUI thread through a script keeps the types.
LEMMA GuiProgressTypeOK ==
  ASSUME TypeOK, NEW w \in Windows, GuiProgress(w), InStep
  PROVE  TypeOK'
<1> USE DEF TypeOK, guiVars, platVars, loopVars, sceneVars, chainVars, threadVars,
            gfxVars
<1>1. CASE SkipStep(w)
  <2>1. GuiType' BY <1>1, StepDoneType DEF SkipStep
  <2> QED BY <1>1, <2>1 DEF SkipStep, PlatType, LoopType, SceneType, ChainType,
             ThreadType, GfxType, ChannelType
<1>2. CASE Polish(w)
  <2>1. GuiType' BY <1>2 DEF Polish, GuiType, GuiPcs
  <2>2. SceneType' BY <1>2 DEF Polish, SceneType
  <2>3. LoopType' BY <1>2 DEF Polish, LoopType
  <2>4. PlatType' BY <1>2 DEF Polish, PlatType
  <2> QED BY <1>2, <2>1, <2>2, <2>3, <2>4 DEF Polish, ChainType, ThreadType, GfxType,
             ChannelType
<1>3. CASE LockAndPost(w)
  <2>1. ThisStep \in Steps BY <1>3 DEF LockAndPost, GuiType, ThisStep
  <2>2. StepEvent(w, ThisStep) \in Event
    BY <1>3, <2>1, PostsBlocking, StepEventType DEF LockAndPost
  <2>3. ChannelType' BY <1>3, <2>2 DEF LockAndPost, AddEvent, ChannelType
  <2>4. LoopType' BY <1>3 DEF LockAndPost, LoopType
  <2>5. GuiType' BY <1>3 DEF LockAndPost, GuiType, GuiPcs
  <2> QED BY <1>3, <2>3, <2>4, <2>5 DEF LockAndPost, PlatType, SceneType, ChainType,
             ThreadType, GfxType
<1>4. CASE WaitForWake(w)
  <2>1. GuiType' /\ ChannelType'
    BY <1>4 DEF WaitForWake, GuiType, ChannelType, GuiPcs
  <2> QED BY <1>4, <2>1 DEF WaitForWake, PlatType, LoopType, SceneType, ChainType,
             ThreadType, GfxType
<1>5. CASE FinishSync(w)
  <2>1. GuiType' BY <1>5, StepDoneType DEF FinishSync, WokenIn, InStep
  <2>2. SceneType' BY <1>5 DEF FinishSync, SceneType, LoopType
  <2> QED BY <1>5, <2>1, <2>2 DEF FinishSync, PlatType, LoopType, ChainType,
             ThreadType, GfxType, ChannelType
<1>6. CASE FinishGrab(w) \/ FinishOther(w)
  <2>1. GuiType' BY <1>6, StepDoneType DEF FinishGrab, FinishOther, WokenIn, InStep
  <2> QED BY <1>6, <2>1 DEF FinishGrab, FinishOther, PlatType, LoopType, SceneType,
             ChainType, ThreadType, GfxType, ChannelType
<1>7. CASE FinishRelease(w)
  <2>1. GuiType'
    BY <1>7, StepDoneType DEF FinishRelease, WokenIn, InStep, GuiType, GuiPcs
  <2>2. ChannelType' BY <1>7 DEF FinishRelease, ChannelType
  <2> QED BY <1>7, <2>1, <2>2 DEF FinishRelease, PlatType, LoopType, SceneType,
             ChainType, ThreadType, GfxType
<1>8. CASE JoinThread(w)
  <2>1. GuiType' BY <1>8, StepDoneType DEF JoinThread, InStep
  <2>2. ChannelType' BY <1>8 DEF JoinThread, ChannelType
  <2> QED BY <1>8, <2>1, <2>2 DEF JoinThread, PlatType, LoopType, SceneType,
             ChainType, ThreadType, GfxType
<1>9. CASE DestroyHandle(w)
  <2>1. GuiType' BY <1>9, StepDoneType DEF DestroyHandle, Doing
  <2>2. PlatType' BY <1>9 DEF DestroyHandle, PlatType
  <2> QED BY <1>9, <2>1, <2>2 DEF DestroyHandle, LoopType, SceneType,
             ChainType, ThreadType, GfxType, ChannelType
<1>10. CASE DeleteWindow(w)
  <2>1. GuiType' BY <1>10, StepDoneType DEF DeleteWindow, Doing
  <2>2. PlatType' /\ LoopType' /\ SceneType'
    BY <1>10 DEF DeleteWindow, PlatType, LoopType, SceneType
  <2>3. ChainType' /\ GfxType'
    BY <1>10, ReleaseSwapchainType DEF DeleteWindow, GfxType
  <2>4. ThreadType' BY <1>10, NoEventType DEF DeleteWindow, ThreadType
  <2>5. ChannelType' BY <1>10 DEF DeleteWindow, ChannelType
  <2> QED BY <1>10, <2>1, <2>2, <2>3, <2>4, <2>5 DEF DeleteWindow
<1> QED
  BY <1>1, <1>2, <1>3, <1>4, <1>5, <1>6, <1>7, <1>8, <1>9, <1>10 DEF GuiProgress

-----------------------------------------------------------------------------
\* What a step of a render thread may do to the GUI thread and to other windows.
LEMMA RenderFrame ==
  ASSUME TypeOK, NEW w \in Windows, RenderStep(w)
  PROVE  /\ UNCHANGED <<guiWin, guiTodo, surface>>
         /\ guiPc' = guiPc \/ (guiPc = "blocked" /\ guiWin = w /\ guiPc' = "woken")
         /\ lockedForSync' = lockedForSync \/ Handles(w, "TryRelease")
         /\ \A v \in Windows \ {w} :
              /\ queue'[v] = queue[v] /\ mutex'[v] = mutex[v] /\ rtPc'[v] = rtPc[v]
              /\ active'[v] = active[v] /\ window'[v] = window[v]
              /\ pending'[v] = pending[v] /\ frameReq'[v] = frameReq[v]
              /\ cur'[v] = cur[v]
<1> USE DEF TypeOK, GuiType, ThreadType, ChannelType, guiVars, platVars, GoTo, WakeGui,
            TakeRequests
<1>1. CASE LoopExit(w) BY <1>1 DEF LoopExit
<1>2. CASE LoopIdle(w) BY <1>2 DEF LoopIdle
<1>3. CASE LoopFrame(w) BY <1>3 DEF LoopFrame
<1>4. CASE FrameEmpty(w) BY <1>4 DEF FrameEmpty
<1>5. CASE FrameBuildLost(w) BY <1>5 DEF FrameBuildLost
<1>6. CASE FrameFails(w) BY <1>6 DEF FrameFails, AfterFailure
<1>7. CASE FrameLost(w) BY <1>7 DEF FrameLost, AfterFailure
<1>8. CASE FrameBegun(w) BY <1>8 DEF FrameBegun
<1>9. CASE FailWake(w) BY <1>9 DEF FailWake
<1>10. CASE SyncLock(w) BY <1>10 DEF SyncLock
<1>11. CASE Sync(w) BY <1>11 DEF Sync
<1>12. CASE Render(w) BY <1>12 DEF Render
<1>13. CASE TakeEvent(w) BY <1>13 DEF TakeEvent
<1>14. CASE EventsDone(w) BY <1>14 DEF EventsDone
<1>15. CASE HandleObscure(w) BY <1>15 DEF HandleObscure, Resume
<1>16. CASE HandleRequestSync(w) BY <1>16 DEF HandleRequestSync, Resume
<1>17. CASE HandleTryRelease(w) BY <1>17 DEF HandleTryRelease, Resume
<1>18. CASE HandleGrab(w) BY <1>18 DEF HandleGrab, Resume
<1>19. CASE HandlePostJob(w) BY <1>19 DEF HandlePostJob, Resume
<1>20. CASE HandleReleaseSwapchain(w) BY <1>20 DEF HandleReleaseSwapchain, Resume
<1> QED
  BY <1>1, <1>2, <1>3, <1>4, <1>5, <1>6, <1>7, <1>8, <1>9, <1>10, <1>11, <1>12,
     <1>13, <1>14, <1>15, <1>16, <1>17, <1>18, <1>19, <1>20 DEF RenderStep

\* A step that changes nothing keeps the types.
LEMMA StutterTypeOK ==
  ASSUME TypeOK, UNCHANGED vars
  PROVE  TypeOK'
  BY DEF TypeOK, GuiType, PlatType, LoopType, SceneType, ChainType, ThreadType, GfxType,
     ChannelType, vars, guiVars, platVars, loopVars, sceneVars, chainVars, threadVars,
     gfxVars

\* No step leaves the GUI thread within a script that has no step.
LEMMA InStepStep ==
  ASSUME TypeOK, InStep, [Next]_vars
  PROVE  InStep'
<1>1. CASE UNCHANGED vars BY <1>1 DEF InStep, vars, guiVars
<1>2. ASSUME NEW w \in Windows, RenderStep(w) PROVE InStep'
  <2>1. UNCHANGED guiTodo /\ (guiPc' # guiPc => guiPc = "blocked")
    BY <1>2, RenderFrame
  <2> QED BY <2>1 DEF InStep
<1>3. ASSUME NEW w \in Windows, GuiCall(w) \/ GuiEvent(w) PROVE InStep'
  <2>1. guiPc' = "idle" \/ UNCHANGED <<guiPc, guiTodo>>
    BY <1>3 DEF GuiCall, GuiEvent, Change, Update, Show, Expose, HandleExposure, Obscure,
       Hide, DestroySurface, DestroyWindow, Release, Grab, PostJob, ResizeWindow,
       ResizeSurface, DeliverFullUpdate, DeliverUpdateRequest, Start, GuiFree, guiVars
  <2> QED BY <2>1 DEF InStep
<1>4. ASSUME NEW w \in Windows, GuiProgress(w) PROVE InStep'
  <2>1. guiPc' = "idle" \/ (guiTodo # <<>> /\ UNCHANGED guiTodo)
    BY <1>4 DEF GuiProgress, SkipStep, Polish, LockAndPost, WaitForWake, FinishSync,
       FinishGrab, FinishOther, FinishRelease, JoinThread, DestroyHandle, DeleteWindow,
       StepDone, WokenIn, InStep, Doing
  <2> QED BY <2>1 DEF InStep
<1> QED BY <1>1, <1>2, <1>3, <1>4 DEF Next

\* Every variable keeps its type, whatever the graphics stack does: in particular a
\* thread is always at a known place and the GUI thread inside a known step.
THEOREM TypeCorrect == Spec => []TypeOK
<1>1. Init => TypeOK /\ InStep BY InitTypeOK DEF Init, InStep
<1>2. TypeOK /\ InStep /\ [Next]_vars => TypeOK' /\ InStep'
  <2> SUFFICES ASSUME TypeOK, InStep, [Next]_vars PROVE TypeOK' /\ InStep' OBVIOUS
  <2>1. CASE UNCHANGED vars BY <2>1, InStepStep, StutterTypeOK
  <2>2. CASE Next
    <3>1. TypeOK'
      BY <2>2, RenderTypeOK, GuiCallTypeOK, GuiProgressTypeOK DEF Next
    <3> QED BY <2>2, <3>1, InStepStep
  <2> QED BY <2>1, <2>2
<1> QED BY <1>1, <1>2, PTL DEF Spec

-----------------------------------------------------------------------------
(* Steps of a render thread.                                                *)

\* A window whose thread does nothing keeps its part of the invariant when the
\* thread of another window wakes the GUI thread.
LEMMA OtherWindow ==
  ASSUME IInv, NEW w \in Windows, NEW v \in Windows, v # w,
         UNCHANGED <<guiWin, guiTodo>>,
         guiPc' = guiPc \/ (guiPc = "blocked" /\ guiWin = w /\ guiPc' = "woken"),
         queue'[v] = queue[v], mutex'[v] = mutex[v], rtPc'[v] = rtPc[v],
         active'[v] = active[v], window'[v] = window[v], pending'[v] = pending[v],
         frameReq'[v] = frameReq[v], cur'[v] = cur[v], surface'[v] = surface[v]
  PROVE  WinInv(v)'
  BY DEF IInv, WinInv, RequestInv, Asks, PlaceInv, OweInv, OwesWake, MutexInv, ActiveInv,
               InQueue, InHandler, InFlags, InFrame, ExposeRequested, ExposeRequest,
               GuiWaitsFor, IsRunning, ThisStep, TypeOf, SyncSteps, ReleaseSteps

\* A step of a render thread: the stepping thread's own window keeps its part.
LEMMA RenderWin ==
  ASSUME IInv, NEW w \in Windows, RenderStep(w)
  PROVE  WinInv(w)'
<1> USE DEF WinInv, RequestInv, Asks, PlaceInv, OweInv, OwesWake, MutexInv, ActiveInv,
            InQueue, InHandler, InFlags, InFrame, ExposeRequested, ExposeRequest,
            GuiWaitsFor, IsRunning, ThisStep, TypeOf, SyncSteps, ReleaseSteps
<1>0. /\ UNCHANGED <<guiWin, guiTodo, surface>>
      /\ guiPc' = guiPc \/ (guiPc = "blocked" /\ guiWin = w /\ guiPc' = "woken")
  BY RenderFrame DEF IInv
<1>t. TypeOK BY DEF IInv
<1>i. GuiInv /\ WinInv(w) BY DEF IInv
\* Where the GUI thread is woken, it is in the wait: the request is here, so it is
\* locked or blocked, and it does not hold the mutex.
<1>b. ASSUME OwesWake(w), mutex[w] # "gui", WakeGui(w)
      PROVE  guiPc = "blocked" /\ guiWin = w /\ guiPc' = "woken"
  BY <1>b, <1>i, <1>t DEF TypeOK, ChannelType, WakeGui
<1>1. CASE LoopExit(w)
  <2>1. /\ rtPc[w] = "loop" /\ ~active[w] /\ rtPc'[w] = "stopped"
        /\ UNCHANGED <<guiPc, queue, mutex, active, window, pending, frameReq, cur>>
    BY <1>1, <1>t DEF LoopExit, GoTo, TypeOK, ThreadType, guiVars
  <2> QED BY <1>0, <1>i, <2>1
<1>2. CASE LoopIdle(w) \/ LoopFrame(w) \/ EventsDone(w)
  <2>1. /\ rtPc[w] \in {"loop", "events"}
        /\ rtPc'[w] \in {"loop", "frame", "events", "wait"}
        /\ UNCHANGED <<guiPc, queue, mutex, active, window, pending, frameReq, cur>>
    BY <1>2, <1>t DEF LoopIdle, LoopFrame, EventsDone, GoTo, TypeOK, ThreadType, guiVars
  <2> QED BY <1>0, <1>i, <2>1
\* The two early returns forget the request.
<1>3. CASE FrameEmpty(w) \/ FrameBuildLost(w)
  <2>1. ~NoEarlyReturn
    BY <1>3, <1>i DEF FrameEmpty, FrameBuildLost, NoEarlyReturn, Fault
  <2>2. /\ rtPc[w] = "frame" /\ rtPc'[w] = "events" /\ pending'[w] = {}
        /\ UNCHANGED <<guiPc, queue, mutex, active, window, cur>>
    BY <1>3, <1>t DEF FrameEmpty, FrameBuildLost, TakeRequests, GoTo, TypeOK, ThreadType,
       guiVars
  <2> QED BY <1>0, <1>i, <2>1, <2>2
<1>4. CASE FrameFails(w) \/ FrameLost(w) \/ FrameBegun(w)
  <2>1. /\ rtPc[w] = "frame"
        /\ rtPc'[w] = IF FrameBegun(w)
                      THEN IF SyncRequested(w) THEN "syncLock" ELSE "render"
                      ELSE IF SyncRequested(w) THEN "failWake" ELSE "events"
        /\ frameReq'[w] = pending[w] /\ pending'[w] = {}
        /\ UNCHANGED <<guiPc, queue, mutex, active, window, cur>>
    BY <1>4, <1>t DEF FrameFails, FrameLost, FrameBegun, TakeRequests, AfterFailure,
       GoTo, TypeOK, ThreadType, guiVars
  <2> QED BY <1>0, <1>i, <2>1 DEF SyncRequested
<1>5. CASE SyncLock(w)
  <2>1. /\ rtPc[w] = "syncLock" /\ rtPc'[w] = "sync"
        /\ mutex[w] = "free" /\ mutex'[w] = "rt"
        /\ UNCHANGED <<guiPc, queue, active, window, pending, frameReq, cur>>
    BY <1>5, <1>t DEF SyncLock, GoTo, TypeOK, ThreadType, ChannelType, guiVars
  <2> QED BY <1>0, <1>i, <2>1
<1>6. CASE FailWake(w)
  <2>1. /\ rtPc[w] = "failWake" /\ rtPc'[w] = "events" /\ mutex[w] = "free"
        /\ UNCHANGED <<queue, mutex, active, window, pending, frameReq, cur>>
    BY <1>6, <1>t DEF FailWake, GoTo, TypeOK, ThreadType
  <2>2. guiPc = "blocked" /\ guiWin = w /\ guiPc' = "woken"
    BY <1>6, <1>b, <2>1 DEF FailWake
  <2> QED BY <1>0, <1>i, <2>1, <2>2
<1>7. CASE Sync(w) /\ ExposeRequested(w)
  <2>1. /\ rtPc[w] = "sync" /\ rtPc'[w] = "render"
        /\ UNCHANGED <<guiPc, queue, mutex, active, window, pending, frameReq, cur>>
    BY <1>7, <1>t DEF Sync, GoTo, TypeOK, ThreadType, guiVars
  <2> QED BY <1>0, <1>i, <1>7, <2>1
<1>8. CASE Sync(w) /\ ~ExposeRequested(w)
  <2>1. /\ rtPc[w] = "sync" /\ rtPc'[w] = "render" /\ mutex'[w] = "free"
        /\ WakeGui(w)
        /\ UNCHANGED <<queue, active, window, pending, frameReq, cur>>
    BY <1>8, <1>t DEF Sync, GoTo, TypeOK, ThreadType, ChannelType
  <2>2. guiPc = "blocked" /\ guiWin = w /\ guiPc' = "woken" BY <1>b, <1>i, <2>1
  <2> QED BY <1>0, <1>i, <1>8, <2>1, <2>2
<1>9. CASE Render(w) /\ ExposeRequested(w)
  <2>1. /\ rtPc[w] = "render" /\ rtPc'[w] = "events" /\ mutex'[w] = "free"
        /\ WakeGui(w) /\ "sync" \notin pending'[w]
        /\ UNCHANGED <<queue, active, window, frameReq, cur>>
    BY <1>9, <1>t DEF Render, GoTo, TypeOK, ThreadType, ChannelType
  <2>2. guiPc = "blocked" /\ guiWin = w /\ guiPc' = "woken"
    BY <1>9, <1>b, <1>i, <2>1
  <2> QED BY <1>0, <1>i, <1>9, <2>1, <2>2
<1>10. CASE Render(w) /\ ~ExposeRequested(w)
  <2>1. /\ rtPc[w] = "render" /\ rtPc'[w] = "events" /\ "sync" \notin pending'[w]
        /\ UNCHANGED <<guiPc, queue, mutex, active, window, frameReq, cur>>
    BY <1>10, <1>t DEF Render, GoTo, TypeOK, ThreadType, guiVars
  <2> QED BY <1>0, <1>i, <1>10, <2>1
<1>11. CASE TakeEvent(w)
  <2>1. /\ rtPc[w] \in {"events", "wait"} /\ rtPc'[w] = "handle"
        /\ queue[w] \in Seq(Event) /\ queue[w] # <<>>
        /\ cur'[w] = queue[w][1] /\ queue'[w] = Tail(queue[w])
        /\ UNCHANGED <<guiPc, mutex, active, window, pending, frameReq>>
    BY <1>11, <1>t DEF TakeEvent, GoTo, TypeOK, ThreadType, ChannelType, guiVars
  <2>2. /\ Len(queue'[w]) = Len(queue[w]) - 1
        /\ \A i \in 1..Len(queue'[w]) : queue'[w][i] = queue[w][i + 1]
        /\ DOMAIN queue[w] = 1..Len(queue[w]) /\ DOMAIN queue'[w] = 1..Len(queue'[w])
        /\ Len(queue[w]) \in Nat \ {0}
    BY <2>1
  <2>3. InHandler(w)' \/ InQueue(w)' <=> InQueue(w)
    <3>1. ASSUME InQueue(w) PROVE InHandler(w)' \/ InQueue(w)'
      <4>1. PICK i \in 1..Len(queue[w]) : queue[w][i].type \in Blocking BY <2>2, <3>1
      <4>2. CASE i = 1 BY <2>1, <4>1, <4>2
      <4>3. CASE i # 1
        <5>1. i - 1 \in 1..Len(queue'[w]) /\ queue'[w][i - 1] = queue[w][i]
          BY <2>2, <4>1, <4>3
        <5> QED BY <2>2, <4>1, <5>1
      <4> QED BY <4>2, <4>3
    <3>2. ASSUME InQueue(w)' PROVE InQueue(w)
      <4>1. PICK i \in 1..Len(queue'[w]) : queue'[w][i].type \in Blocking BY <2>2, <3>2
      <4>2. i + 1 \in 1..Len(queue[w]) /\ queue'[w][i] = queue[w][i + 1] BY <2>2, <4>1
      <4> QED BY <2>2, <4>1, <4>2
    <3>3. ASSUME InHandler(w)' PROVE InQueue(w)
      <4>1. 1 \in DOMAIN queue[w] BY <2>2
      <4> QED BY <2>1, <3>3, <4>1
    <3> QED BY <3>1, <3>2, <3>3
  <2>4. /\ InHandler(w)' => Asks(cur'[w])
        /\ ~(InQueue(w)' /\ InHandler(w)')
        /\ \A i \in 1..Len(queue'[w]) : queue'[w][i].type \in Blocking =>
             i = Len(queue'[w]) /\ Asks(queue'[w][i])
    BY <1>i, <2>1, <2>2
  <2>5. ~InHandler(w) BY <2>1
  <2> HIDE DEF InQueue, InHandler
  <2>6. RequestInv(w)' BY <1>0, <1>i, <2>1, <2>4
  <2>7. PlaceInv(w)' BY <1>i, <2>1, <2>3, <2>4
  <2>8. OweInv(w)' BY <1>0, <1>i, <2>1, <2>3, <2>5
  <2>9. MutexInv(w)' /\ ActiveInv(w)' BY <1>0, <1>i, <2>1
  <2> QED BY <1>0, <1>i, <2>6, <2>7, <2>8, <2>9
<1>12. ASSUME NEW wakes, Resume(w, wakes), rtPc[w] = "handle"
       PROVE  /\ rtPc'[w] \in {"loop", "events", "wait"}
              /\ cur'[w].type \notin Blocking
  BY <1>12, <1>t DEF Resume, GoTo, TypeOK, ThreadType, NoEvent, Ev, Blocking
<1>17. CASE HandleGrab(w)
  <2>1. /\ rtPc[w] = "handle" /\ cur[w].type \in Blocking /\ mutex[w] = "free"
        /\ rtPc'[w] \in {"loop", "events", "wait"} /\ cur'[w].type \notin Blocking
    BY <1>12, <1>17, <1>t DEF HandleGrab, Handles, Blocking, EventTypes
  <2>2. WakeGui(w) /\ UNCHANGED <<queue, mutex, active, window, frameReq>>
    BY <1>17 DEF HandleGrab
  <2>3. "sync" \in pending'[w] <=> "sync" \in pending[w]
    <3>1. pending \in [Windows -> SUBSET Flags] BY <1>t DEF TypeOK, ThreadType
    <3>2. UNCHANGED pending \/ \E repaint \in BOOLEAN :
            pending' = [pending EXCEPT ![w] = @ \cup (IF repaint /\ window[w]
                                                     THEN {"repaint"} ELSE {})]
      BY <1>17 DEF HandleGrab
    <3> QED BY <3>1, <3>2
  <2>4. guiPc = "blocked" /\ guiWin = w /\ guiPc' = "woken" BY <1>b, <2>1, <2>2
  <2> QED BY <1>0, <1>i, <2>1, <2>2, <2>3, <2>4
<1>13. CASE HandleObscure(w) \/ HandleReleaseSwapchain(w)
  <2>1. /\ rtPc[w] = "handle" /\ cur[w].type \in Blocking /\ mutex[w] = "free"
        /\ rtPc'[w] \in {"loop", "events", "wait"} /\ cur'[w].type \notin Blocking
        /\ WakeGui(w) /\ (window'[w] => window[w])
        /\ UNCHANGED <<queue, mutex, active, pending, frameReq>>
    BY <1>12, <1>13, <1>t DEF HandleObscure, HandleReleaseSwapchain, Handles,
       TypeOK, ThreadType, Blocking, EventTypes
  <2>2. guiPc = "blocked" /\ guiWin = w /\ guiPc' = "woken" BY <1>b, <2>1
  <2> QED BY <1>0, <1>i, <2>1, <2>2
<1>14. CASE HandleRequestSync(w)
  <2>1. /\ rtPc[w] = "handle" /\ cur[w].type = "RequestSync"
        /\ rtPc'[w] \in {"loop", "events", "wait"} /\ cur'[w].type \notin Blocking
        /\ window'[w] /\ "sync" \in pending'[w]
        /\ UNCHANGED <<guiPc, queue, mutex, active, frameReq>>
    BY <1>12, <1>14, <1>t DEF HandleRequestSync, Handles, RequestedFlags, TypeOK,
       ThreadType, guiVars
  <2>2. cur[w].type \in Blocking BY <2>1 DEF Blocking, EventTypes
  <2> QED BY <1>0, <1>i, <2>1, <2>2
<1>15. CASE HandlePostJob(w)
  <2>1. /\ rtPc[w] = "handle" /\ cur[w].type \notin Blocking
        /\ rtPc'[w] \in {"loop", "events", "wait"} /\ cur'[w].type \notin Blocking
        /\ "sync" \in pending'[w] <=> "sync" \in pending[w]
        /\ UNCHANGED <<guiPc, queue, mutex, active, window, frameReq>>
    BY <1>12, <1>15, <1>t DEF HandlePostJob, Handles, Blocking, TypeOK, ThreadType,
       guiVars
  <2> QED BY <1>0, <1>i, <2>1
<1>16. CASE HandleTryRelease(w)
  <2>1. /\ rtPc[w] = "handle" /\ cur[w].type = "TryRelease" /\ mutex[w] = "free"
        /\ rtPc'[w] \in {"loop", "events", "wait"} /\ cur'[w].type \notin Blocking
        /\ WakeGui(w)
        /\ ~active'[w] => ~active[w] \/ ~window[w] \/ "destructor" \in cur[w].opts
        /\ UNCHANGED <<queue, mutex, window, pending, frameReq>>
    BY <1>12, <1>16, <1>t DEF HandleTryRelease, MayRelease, Handles, TypeOK, ThreadType
  <2>2. cur[w].type \in Blocking BY <2>1 DEF Blocking, EventTypes
  <2>3. guiPc = "blocked" /\ guiWin = w /\ guiPc' = "woken" BY <1>b, <2>1, <2>2
  <2>4. ThisStep \in ReleaseSteps BY <1>i, <2>1, <2>2
  <2>5. ~active'[w] => ~window[w]
    <3>1. guiTodo \in Seq(Steps) /\ guiTodo # <<>>
      BY <1>i, <1>t, <2>3 DEF TypeOK, GuiType, GuiInv, InStep
    <3>2. CASE ThisStep = "destroyRelease"
      <4>1. guiTodo[1] = "destroyRelease" /\ 1 \in 1..Len(guiTodo) BY <3>1, <3>2
      <4> QED BY <1>i, <2>3, <4>1 DEF GuiInv
    <3> QED BY <1>i, <2>1, <2>2, <2>4, <3>2
  <2> QED BY <1>0, <1>i, <2>1, <2>2, <2>3, <2>4, <2>5
<1> QED
  BY <1>1, <1>2, <1>3, <1>4, <1>5, <1>6, <1>7, <1>8, <1>9, <1>10, <1>11, <1>13, <1>14,
     <1>15, <1>16, <1>17 DEF RenderStep

\* ... and the GUI thread finds what it waits for.
LEMMA RenderGui ==
  ASSUME IInv, NEW w \in Windows, RenderStep(w)
  PROVE  GuiInv' /\ LockInv'
<1> USE DEF WinInv, RequestInv, Asks, PlaceInv, OweInv, OwesWake, MutexInv, ActiveInv,
            InQueue, InHandler, InFlags, InFrame, ExposeRequested, ExposeRequest,
            GuiWaitsFor, IsRunning, ThisStep, TypeOf, SyncSteps, ReleaseSteps
<1>0. /\ UNCHANGED <<guiWin, guiTodo, surface>>
      /\ guiPc' = guiPc \/ (guiPc = "blocked" /\ guiWin = w /\ guiPc' = "woken")
      /\ lockedForSync' = lockedForSync \/ Handles(w, "TryRelease")
      /\ \A v \in Windows \ {w} : window'[v] = window[v]
  BY RenderFrame DEF IInv
<1>t. TypeOK BY DEF IInv
<1>i. GuiInv /\ LockInv /\ WinInv(w) BY DEF IInv
\* Only WM_RequestSync shows a window to its thread.
<1>1. window'[w] => window[w] \/ HandleRequestSync(w)
  <2> USE <1>t DEF TypeOK, ThreadType, threadVars
  <2>1. ASSUME LoopExit(w) \/ LoopIdle(w) \/ LoopFrame(w) \/ FrameEmpty(w)
            \/ FrameBuildLost(w) \/ FrameFails(w) \/ FrameLost(w) \/ FrameBegun(w)
            \/ FailWake(w) \/ SyncLock(w)
        PROVE  UNCHANGED window
    BY <2>1 DEF LoopExit, LoopIdle, LoopFrame, FrameEmpty, FrameBuildLost, FrameFails,
       FrameLost, FrameBegun, FailWake, SyncLock
  <2>2. ASSUME Sync(w) \/ Render(w) \/ TakeEvent(w) \/ EventsDone(w)
            \/ HandleTryRelease(w) \/ HandleGrab(w) \/ HandlePostJob(w)
            \/ HandleReleaseSwapchain(w)
        PROVE  UNCHANGED window
    BY <2>2 DEF Sync, Render, TakeEvent, EventsDone, HandleTryRelease, HandleGrab,
       HandlePostJob, HandleReleaseSwapchain
  <2>3. ASSUME HandleObscure(w) PROVE ~window'[w] BY <2>3 DEF HandleObscure
  <2> QED BY <2>1, <2>2, <2>3 DEF RenderStep
<1>2. HandleRequestSync(w) => guiWin = w /\ ThisStep \in SyncSteps
  BY <1>i DEF HandleRequestSync, Handles, Blocking, EventTypes
\* Only WM_Obscure wakes a GUI thread that is obscuring.
<1>3. guiPc' = "woken" /\ guiPc = "blocked" /\ ThisStep = "obscure" => ~window'[guiWin]
  <2> SUFFICES ASSUME guiPc' = "woken", guiPc = "blocked", guiWin = w,
                      ThisStep = "obscure"
               PROVE  ~window'[w]
    BY <1>0
  <2>1. /\ ~InFlags(w) /\ ~InFrame(w)
        /\ InHandler(w) => cur[w].type = "Obscure"
    BY <1>i
  <2>2. HandleObscure(w)
    <3>1. ASSUME LoopExit(w) \/ LoopIdle(w) \/ LoopFrame(w) \/ FrameEmpty(w)
              \/ FrameBuildLost(w) \/ FrameFails(w) \/ FrameLost(w) \/ FrameBegun(w)
              \/ SyncLock(w) \/ TakeEvent(w) \/ EventsDone(w) \/ HandleRequestSync(w)
              \/ HandlePostJob(w)
          PROVE  FALSE
      BY <3>1 DEF LoopExit, LoopIdle, LoopFrame, FrameEmpty, FrameBuildLost, FrameFails,
         FrameLost, FrameBegun, SyncLock, TakeEvent, EventsDone, HandleRequestSync,
         HandlePostJob, guiVars
    <3>2. ASSUME FailWake(w) \/ Sync(w) \/ Render(w) PROVE FALSE
      BY <2>1, <3>2 DEF FailWake, Sync, Render, guiVars
    <3>3. ASSUME HandleTryRelease(w) \/ HandleGrab(w) \/ HandleReleaseSwapchain(w)
          PROVE  FALSE
      BY <2>1, <3>3 DEF HandleTryRelease, HandleGrab, HandleReleaseSwapchain, Handles,
         Blocking, EventTypes
    <3> QED BY <3>1, <3>2, <3>3 DEF RenderStep
  <2> QED BY <2>2, <1>t DEF HandleObscure, TypeOK, ThreadType
<1>4. guiTodo \in Seq(Steps) /\ guiWin \in Windows BY <1>t DEF TypeOK, GuiType
<1>5. LockInv'
  <2>1. Handles(w, "TryRelease") => guiWin = w /\ ThisStep \notin SyncSteps
    BY <1>i DEF Handles, Blocking, EventTypes
  <2>2. Handles(w, "TryRelease") /\ guiPc' # guiPc => guiPc' = "woken" BY <1>0
  <2> QED BY <1>0, <1>i, <2>1 DEF LockInv
<1>6. GuiInv'
  <2>1. \A i \in 1..Len(guiTodo) : guiTodo[i] = "destroyRelease" =>
          \/ i > 1 /\ guiTodo[i - 1] = "obscure"
          \/ i = 1 /\ ~window'[guiWin]
    BY <1>0, <1>1, <1>2, <1>4, <1>i DEF GuiInv, InStep
  <2>2. guiPc' = "woken" /\ ThisStep = "obscure" => ~window'[guiWin]
    BY <1>0, <1>1, <1>2, <1>3, <1>4, <1>i DEF GuiInv, InStep
  <2> QED BY <1>0, <1>i, <2>1, <2>2 DEF GuiInv, InStep
<1> QED BY <1>5, <1>6

-----------------------------------------------------------------------------
(* Steps of the GUI thread.                                                 *)

\* A thread nobody waits for keeps its part of the invariant whatever the GUI
\* thread does next, short of asking it something.
LEMMA FreeWindow ==
  ASSUME IInv, NEW v \in Windows, ~GuiWaitsFor(v), ~GuiWaitsFor(v)',
         ~(guiPc \in {"woken", "join"} /\ ThisStep \in ReleaseSteps /\ guiWin = v),
         mutex'[v] = "gui" => mutex[v] = "gui", mutex'[v] = "rt" <=> mutex[v] = "rt",
         ~(guiPc' = "join" /\ guiWin' = v), mutex'[v] # "gui",
         queue'[v] = queue[v], rtPc'[v] = rtPc[v],
         active'[v] = active[v], window'[v] = window[v], pending'[v] = pending[v],
         frameReq'[v] = frameReq[v], cur'[v] = cur[v], surface'[v] = surface[v]
  PROVE  WinInv(v)'
  BY DEF IInv, WinInv, RequestInv, Asks, PlaceInv, OweInv, OwesWake, MutexInv, ActiveInv,
               InQueue, InHandler, InFlags, InFrame, ExposeRequested, ExposeRequest,
               GuiWaitsFor, IsRunning, ThisStep, TypeOf, SyncSteps, ReleaseSteps

\* The plans that the calls of the application make for the GUI thread never
\* release a window in its destructor before the thread has let go of it.
SafePlan(s) ==
  /\ s \in Seq(Steps)
  /\ \A i \in 1..Len(s) : s[i] = "destroyRelease" => i > 1 /\ s[i - 1] = "obscure"

\* The scripts of hide() and of a window's destruction are safe plans.
LEMMA HideStepsSafe ==
  ASSUME NEW w \in Windows
  PROVE  /\ SafePlan(HideSteps(w))
         /\ SafePlan((IF listed[w] THEN <<"releaseSwapchain">> ELSE <<>>)
                       \o HideSteps(w) \o <<"destroyHandle">>)
<1> DEFINE Other == Steps \ {"destroyRelease"}
<1>1. \A s \in Seq(Other) : SafePlan(s) BY DEF SafePlan
<1>2. \A s, t \in Seq(Other) : s \o t \in Seq(Other) OBVIOUS
<1>3. /\ <<>> \in Seq(Other) /\ <<"obscure">> \in Seq(Other)
      /\ <<"release">> \in Seq(Other) /\ <<"releaseSwapchain">> \in Seq(Other)
      /\ <<"destroyHandle">> \in Seq(Other)
  BY DEF Steps
<1> HIDE DEF Other
<1>4. HideSteps(w) \in Seq(Other)
  <2>1. (IF exposed[w] THEN <<"obscure">> ELSE <<>>) \in Seq(Other) BY <1>3
  <2> QED BY <1>2, <1>3, <2>1 DEF HideSteps
<1>5. (IF listed[w] THEN <<"releaseSwapchain">> ELSE <<>>) \in Seq(Other) BY <1>3
<1> QED BY <1>1, <1>2, <1>3, <1>4, <1>5

\* A call, or the delivery of an event, finds the GUI thread in its event loop and
\* leaves it with a plan.
LEMMA CallPlans ==
  ASSUME TypeOK, NEW w \in Windows, GuiCall(w) \/ GuiEvent(w), ~ResizeSurface(w)
  PROVE  /\ GuiFree /\ guiPc' = "idle" /\ SafePlan(guiTodo')
         /\ UNCHANGED <<mutex, pending, frameReq, cur, surface>>
         /\ \/ UNCHANGED <<queue, rtPc, active, window>>
            \/ /\ queue' = [queue EXCEPT ![w] = Append(@, Ev("PostJob", {}))]
               /\ UNCHANGED <<rtPc, active, window>>
            \/ /\ window' = [window EXCEPT ![w] = TRUE]
               /\ IF IsRunning(w)
                  THEN UNCHANGED <<rtPc, active>>
                  ELSE /\ active' = [active EXCEPT ![w] = TRUE]
                       /\ rtPc' = [rtPc EXCEPT ![w] = "loop"]
               /\ UNCHANGED queue
<1> USE DEF guiVars, platVars, threadVars, GuiFree
<1>1. /\ SafePlan(<<>>) /\ SafePlan(<<"sync">>) /\ SafePlan(<<"syncExpose">>)
      /\ SafePlan(<<"obscure">>) /\ SafePlan(<<"release">>) /\ SafePlan(<<"grab">>)
      /\ SafePlan(<<"delete">>) /\ SafePlan(<<"obscure", "destroyRelease", "delete">>)
  BY DEF SafePlan, Steps
<1>2. CASE Change(w) \/ Update(w) \/ Show(w) \/ ResizeWindow(w) \/ DeliverFullUpdate(w)
  BY <1>1, <1>2 DEF Change, Update, Show, ResizeWindow, DeliverFullUpdate
<1>3. CASE Obscure(w) \/ DeliverUpdateRequest(w)
  BY <1>1, <1>3 DEF Obscure, DeliverUpdateRequest, Start
<1>4. CASE Hide(w) \/ DestroySurface(w)
  BY HideStepsSafe, <1>4 DEF Hide, DestroySurface, Start
<1>5. CASE DestroyWindow(w) \/ Release(w) \/ Grab(w)
  BY <1>1, <1>5 DEF DestroyWindow, Release, Grab, Start
<1>6. CASE PostJob(w) BY <1>1, <1>6 DEF PostJob, AddEvent
<1>7. CASE Expose(w)
  <2>1. CASE HandleExposure(w)
    BY <1>1, <1>7, <2>1 DEF Expose, HandleExposure, Start
  <2>2. CASE UNCHANGED <<guiVars, threadVars>>
    BY <1>1, <1>7, <2>2 DEF Expose
  <2> QED BY <1>7, <2>1, <2>2 DEF Expose
<1> QED BY <1>2, <1>3, <1>4, <1>5, <1>6, <1>7 DEF GuiCall, GuiEvent

\* A call of the GUI thread (expose, hide, update, grab, release, job, destruction) keeps IInv.
LEMMA GuiCallInv ==
  ASSUME IInv, NEW w \in Windows, GuiCall(w) \/ GuiEvent(w), ~ResizeSurface(w)
  PROVE  GuiInv' /\ LockInv' /\ \A v \in Windows : WinInv(v)'
<1>t. TypeOK BY DEF IInv
<1>0. /\ GuiFree /\ guiPc' = "idle" /\ SafePlan(guiTodo')
      /\ UNCHANGED <<mutex, pending, frameReq, cur, surface>>
  BY <1>t, CallPlans
<1>1. GuiInv' BY <1>0 DEF GuiInv, InStep, SafePlan
<1>2. LockInv' BY <1>0 DEF LockInv
<1>3. ASSUME NEW v \in Windows,
             queue'[v] = queue[v], rtPc'[v] = rtPc[v], active'[v] = active[v],
             window'[v] = window[v]
      PROVE  WinInv(v)'
  <2>1. mutex[v] # "gui" BY <1>0 DEF IInv, WinInv, MutexInv, GuiFree
  <2> QED BY <1>0, <1>3, <2>1, FreeWindow DEF GuiFree, GuiWaitsFor
<1>p. \/ UNCHANGED <<queue, rtPc, active, window>>
      \/ /\ queue' = [queue EXCEPT ![w] = Append(@, Ev("PostJob", {}))]
         /\ UNCHANGED <<rtPc, active, window>>
      \/ /\ window' = [window EXCEPT ![w] = TRUE]
         /\ IF IsRunning(w)
            THEN UNCHANGED <<rtPc, active>>
            ELSE /\ active' = [active EXCEPT ![w] = TRUE]
                 /\ rtPc' = [rtPc EXCEPT ![w] = "loop"]
         /\ UNCHANGED queue
  BY <1>t, CallPlans
<1>4. WinInv(w)'
  <2> USE DEF WinInv, RequestInv, Asks, PlaceInv, OweInv, OwesWake, MutexInv, ActiveInv,
              InQueue, InHandler, InFlags, InFrame, ExposeRequested, ExposeRequest,
              GuiWaitsFor, IsRunning, ThisStep, TypeOf, SyncSteps, ReleaseSteps
  <2>1. CASE UNCHANGED <<queue, rtPc, active, window>> BY <1>3, <2>1
  <2>2. CASE /\ queue' = [queue EXCEPT ![w] = Append(@, Ev("PostJob", {}))]
             /\ UNCHANGED <<rtPc, active, window>>
    <3>1. queue[w] \in Seq(Event) BY <1>t DEF TypeOK, ChannelType
    <3>2. /\ Len(queue'[w]) = Len(queue[w]) + 1
          /\ \A i \in 1..Len(queue[w]) : queue'[w][i] = queue[w][i]
          /\ queue'[w][Len(queue[w]) + 1].type \notin Blocking
          /\ DOMAIN queue[w] = 1..Len(queue[w]) /\ DOMAIN queue'[w] = 1..Len(queue'[w])
          /\ Len(queue[w]) \in Nat
      BY <1>t, <2>2, <3>1 DEF TypeOK, ChannelType, Ev, Blocking
    <3>3. ~OwesWake(w) BY <1>0 DEF IInv, GuiFree
    <3>4. ~InQueue(w)' BY <3>2, <3>3
    <3> QED BY <1>0, <2>2, <3>2, <3>3, <3>4 DEF IInv, GuiFree
  <2>3. CASE /\ window' = [window EXCEPT ![w] = TRUE]
             /\ IF IsRunning(w)
                THEN UNCHANGED <<rtPc, active>>
                ELSE /\ active' = [active EXCEPT ![w] = TRUE]
                     /\ rtPc' = [rtPc EXCEPT ![w] = "loop"]
             /\ UNCHANGED queue
    <3>1. /\ window'[w]
          /\ IF rtPc[w] # "stopped"
             THEN rtPc'[w] = rtPc[w] /\ active'[w] = active[w]
             ELSE rtPc'[w] = "loop" /\ active'[w]
      BY <1>t, <2>3 DEF TypeOK, ThreadType
    <3> QED BY <1>0, <2>3, <3>1 DEF IInv, GuiFree
  <2> QED BY <1>p, <2>1, <2>2, <2>3
<1>5. ASSUME NEW v \in Windows, v # w PROVE WinInv(v)'
  <2>1. /\ queue'[v] = queue[v] /\ rtPc'[v] = rtPc[v] /\ active'[v] = active[v]
        /\ window'[v] = window[v]
    BY <1>t, <1>5, <1>p DEF TypeOK, ThreadType, ChannelType
  <2> QED BY <1>3, <2>1
<1> QED BY <1>1, <1>2, <1>4, <1>5

\* The windowing system changes the surface, which only the early returns look at.
LEMMA ResizeSurfaceInv ==
  ASSUME IInv, NEW w \in Windows, ResizeSurface(w)
  PROVE  GuiInv' /\ LockInv' /\ \A v \in Windows : WinInv(v)'
<1>1. ~NoEarlyReturn
      /\ UNCHANGED <<guiPc, guiWin, guiTodo, lockedForSync, queue, mutex, rtPc, active, window,
                     pending, frameReq, cur>>
  BY DEF ResizeSurface, NoEarlyReturn, guiVars, threadVars
<1>2. GuiInv' /\ LockInv' BY <1>1 DEF IInv, GuiInv, InStep, LockInv, ThisStep
<1>3. ASSUME NEW v \in Windows PROVE WinInv(v)'
  BY <1>1 DEF IInv,
     WinInv, RequestInv, Asks, PlaceInv, OweInv, OwesWake, MutexInv, ActiveInv,
     InQueue, InHandler, InFlags, InFrame, ExposeRequested, ExposeRequest,
     GuiWaitsFor, IsRunning, ThisStep, TypeOf, SyncSteps, ReleaseSteps
<1> QED BY <1>2, <1>3

\* Taking the first step off a plan keeps it in order, if a step that has the
\* thread let go of the window has done so.
LEMMA StepDoneGui ==
  ASSUME TypeOK, GuiInv, guiTodo # <<>>, StepDone,
         window'[guiWin] => window[guiWin],
         ThisStep = "obscure" => ~window'[guiWin]
  PROVE  GuiInv' /\ LockInv'
<1>1. /\ guiTodo \in Seq(Steps) /\ guiPc' = "idle" /\ guiTodo' = Tail(guiTodo)
      /\ guiWin' = guiWin
  BY DEF TypeOK, GuiType, StepDone
<1>2. /\ Len(guiTodo') = Len(guiTodo) - 1 /\ Len(guiTodo) \in Nat \ {0}
      /\ \A i \in 1..Len(guiTodo') : guiTodo'[i] = guiTodo[i + 1]
      /\ ThisStep = guiTodo[1]
  BY <1>1 DEF ThisStep
<1>3. ASSUME NEW i \in 1..Len(guiTodo'), guiTodo'[i] = "destroyRelease"
      PROVE  \/ i > 1 /\ guiTodo'[i - 1] = "obscure"
             \/ i = 1 /\ ~window'[guiWin]
  <2>1. i + 1 \in 1..Len(guiTodo) /\ guiTodo[i + 1] = "destroyRelease"
    BY <1>2, <1>3
  <2>2. i + 1 > 1 /\ guiTodo[(i + 1) - 1] = "obscure" BY <2>1 DEF GuiInv
  <2>3. guiTodo[i] = "obscure" BY <2>2
  <2>4. CASE i = 1 BY <1>2, <2>3, <2>4
  <2>5. CASE i > 1
    <3>1. i - 1 \in 1..Len(guiTodo') BY <2>5
    <3>2. guiTodo'[i - 1] = guiTodo[(i - 1) + 1] BY <1>2, <3>1
    <3> QED BY <2>3, <2>5, <3>2
  <2> QED BY <2>4, <2>5
<1>4. GuiInv' BY <1>1, <1>3 DEF GuiInv, InStep
<1>5. LockInv' BY <1>1 DEF LockInv
<1> QED BY <1>4, <1>5

\* Steps of the GUI thread that leave the render thread, its queue and its mutex as
\* they are, between two calls.
LEMMA QuietStepInv ==
  ASSUME IInv, NEW w \in Windows,
         SkipStep(w) \/ Polish(w) \/ FinishSync(w) \/ FinishGrab(w) \/ FinishOther(w)
         \/ DestroyHandle(w)
  PROVE  GuiInv' /\ LockInv' /\ \A v \in Windows : WinInv(v)'
<1>t. TypeOK BY DEF IInv
<1>1. /\ guiPc \in {"idle", "woken"} /\ guiPc' \in {"idle", "polished"}
      /\ guiWin = w /\ guiTodo # <<>>
      /\ guiPc = "woken" => ThisStep \notin ReleaseSteps
      /\ UNCHANGED <<queue, mutex, rtPc, active, window, pending, frameReq, cur, surface>>
  BY DEF SkipStep, Polish, FinishSync, FinishGrab, FinishOther, DestroyHandle, WokenIn,
     StepDone, Doing, platVars, threadVars, IInv, GuiInv, InStep, ReleaseSteps,
     SyncSteps
<1>2. ASSUME NEW v \in Windows PROVE WinInv(v)'
  <2>1. mutex[v] # "gui" BY <1>1 DEF IInv, WinInv, MutexInv
  <2> QED BY <1>1, <2>1, FreeWindow DEF GuiWaitsFor
<1>3. CASE Polish(w)
  <2>1. /\ guiPc' = "polished" /\ UNCHANGED <<guiWin, guiTodo>>
        /\ ThisStep \in SyncSteps \cup {"grab"}
    BY <1>3 DEF Polish, Doing, SyncSteps
  <2>2. GuiInv' BY <1>1, <2>1 DEF IInv, GuiInv, InStep, ThisStep
  <2>3. LockInv' BY <2>1 DEF LockInv
  <2> QED BY <1>2, <2>2, <2>3
<1>4. CASE ~Polish(w)
  <2>1. StepDone BY <1>4 DEF SkipStep, FinishSync, FinishGrab, FinishOther, DestroyHandle
  <2>2. ThisStep = "obscure" => ~window[guiWin]
    <3>1. CASE SkipStep(w)
      BY <1>1, <3>1 DEF SkipStep, Posts, SyncSteps, IInv, WinInv, ActiveInv
    <3>2. CASE ~SkipStep(w)
      BY <1>1, <1>4, <3>2 DEF FinishSync, FinishGrab, FinishOther, DestroyHandle, Doing,
         WokenIn, SyncSteps, IInv, GuiInv
    <3> QED BY <3>1, <3>2
  <2> QED BY <1>1, <1>2, <2>1, <2>2, StepDoneGui DEF IInv
<1> QED BY <1>3, <1>4

\* Locking a render thread's mutex and posting a blocking event to it keeps IInv.
LEMMA LockAndPostInv ==
  ASSUME IInv, NEW w \in Windows, LockAndPost(w)
  PROVE  GuiInv' /\ LockInv' /\ \A v \in Windows : WinInv(v)'
<1>t. TypeOK BY DEF IInv
<1>1. /\ guiPc \in {"idle", "polished"} /\ guiPc' = "locked" /\ guiWin = w
      /\ guiTodo # <<>> /\ mutex[w] = "free" /\ mutex'[w] = "gui"
      /\ Posts(w, ThisStep)
      /\ queue' = [queue EXCEPT ![w] = Append(@, StepEvent(w, ThisStep))]
      /\ UNCHANGED <<guiWin, guiTodo, rtPc, active, window, pending, frameReq, cur,
                     surface>>
  BY <1>t DEF LockAndPost, AddEvent, TypeOK, ChannelType, platVars, threadVars
<1>2. ThisStep \in BlockingSteps
  <2>1. ThisStep \in Steps BY <1>1, <1>t DEF TypeOK, GuiType, ThisStep
  <2> QED BY <1>1, <1>t, <2>1, PostsBlocking
<1>3. GuiInv' BY <1>1, <1>2 DEF IInv, GuiInv, InStep, ThisStep
<1>4. LockInv' BY <1>1 DEF LockAndPost, LockInv, ThisStep
<1>5. ASSUME NEW v \in Windows, v # w PROVE WinInv(v)'
  <2>1. mutex'[v] = mutex[v] /\ queue'[v] = queue[v]
    BY <1>5, <1>t DEF LockAndPost, AddEvent, TypeOK, ChannelType
  <2>2. mutex[v] # "gui" BY <1>1, <1>5 DEF IInv, WinInv, MutexInv
  <2> QED BY <1>1, <1>5, <2>1, <2>2, FreeWindow DEF GuiWaitsFor
<1>6. WinInv(w)'
  <2> USE DEF WinInv, RequestInv, Asks, PlaceInv, OweInv, OwesWake, MutexInv, ActiveInv,
              InQueue, InHandler, InFlags, InFrame, ExposeRequested, ExposeRequest,
              GuiWaitsFor, IsRunning, ThisStep, TypeOf, SyncSteps, ReleaseSteps
  <2>1. ~OwesWake(w) /\ IsRunning(w) /\ active[w]
    BY <1>1, <1>2 DEF IInv, Posts, BlockingSteps
  <2> DEFINE e == StepEvent(w, ThisStep)
  <2>2. e.type \in Blocking /\ Asks(e)
    <3>1. e.type \in Blocking /\ e.type = TypeOf(ThisStep)
      BY <1>t, <1>2, StepEventType
    <3>2. "destructor" \in e.opts => ThisStep = "destroyRelease"
      BY <1>2 DEF StepEvent, Ev, BlockingSteps
    <3> QED BY <3>1, <3>2
  <2>3. /\ queue[w] \in Seq(Event) /\ e \in Event
    BY <1>t, <1>2, StepEventType DEF TypeOK, ChannelType
  <2> HIDE DEF e
  <2>4. /\ Len(queue'[w]) = Len(queue[w]) + 1
        /\ \A i \in 1..Len(queue[w]) : queue'[w][i] = queue[w][i]
        /\ queue'[w][Len(queue[w]) + 1] = e
        /\ DOMAIN queue[w] = 1..Len(queue[w]) /\ DOMAIN queue'[w] = 1..Len(queue'[w])
        /\ Len(queue[w]) \in Nat
    BY <1>1, <1>t, <2>3 DEF TypeOK, ChannelType, e
  <2>5. InQueue(w)'
    <3>1. Len(queue[w]) + 1 \in DOMAIN queue'[w] BY <2>4
    <3> QED BY <2>2, <2>4, <3>1
  <2>6. \A i \in 1..Len(queue'[w]) : queue'[w][i].type \in Blocking =>
          i = Len(queue'[w]) /\ Asks(queue'[w][i])
    BY <2>1, <2>2, <2>4
  <2> HIDE DEF InQueue
  <2>7. RequestInv(w)' BY <1>1, <2>1, <2>6
  <2>8. PlaceInv(w)' BY <1>1, <2>1
  <2>9. OweInv(w)' BY <1>1, <2>5 DEF IInv
  <2>10. MutexInv(w)' /\ ActiveInv(w)' BY <1>1, <2>1 DEF IInv
  <2> QED BY <1>1, <2>7, <2>8, <2>9, <2>10 DEF IInv
<1> QED BY <1>3, <1>4, <1>5, <1>6

\* The GUI thread's wait(), its wake-up and the unlock() keep IInv.
LEMMA WaitInv ==
  ASSUME IInv, NEW w \in Windows, WaitForWake(w)
  PROVE  GuiInv' /\ LockInv' /\ \A v \in Windows : WinInv(v)'
<1> USE DEF WinInv, RequestInv, Asks, PlaceInv, OweInv, OwesWake, MutexInv, ActiveInv,
            InQueue, InHandler, InFlags, InFrame, ExposeRequested, ExposeRequest,
            GuiWaitsFor, IsRunning, ThisStep, TypeOf, SyncSteps, ReleaseSteps
<1>t. TypeOK BY DEF IInv
<1>1. /\ guiPc = "locked" /\ guiPc' = "blocked" /\ guiWin = w
      /\ mutex' = [mutex EXCEPT ![w] = "free"]
      /\ UNCHANGED <<guiWin, guiTodo, lockedForSync, queue, rtPc, active, window, pending,
                     frameReq, cur, surface>>
  BY DEF WaitForWake, platVars, threadVars
<1>2. GuiInv' /\ LockInv' BY <1>1 DEF IInv, GuiInv, InStep, LockInv
<1>3. ASSUME NEW v \in Windows PROVE WinInv(v)'
  <2>1. mutex'[v] = IF v = w THEN "free" ELSE mutex[v]
    BY <1>1, <1>t DEF TypeOK, ChannelType
  <2> QED BY <1>1, <2>1 DEF IInv
<1> QED BY <1>2, <1>3

\* releaseResources() after the answer, and after the thread has finished.
LEMMA ReleaseInv ==
  ASSUME IInv, NEW w \in Windows, FinishRelease(w) \/ JoinThread(w)
  PROVE  GuiInv' /\ LockInv' /\ \A v \in Windows : WinInv(v)'
<1> USE DEF WinInv, RequestInv, Asks, PlaceInv, OweInv, OwesWake, MutexInv, ActiveInv,
            InQueue, InHandler, InFlags, InFrame, ExposeRequested, ExposeRequest,
            GuiWaitsFor, IsRunning, ThisStep, TypeOf, SyncSteps, ReleaseSteps
<1>t. TypeOK BY DEF IInv
<1>0. /\ guiWin = w /\ guiTodo # <<>> /\ guiWin' = guiWin
      /\ guiPc \in {"woken", "join"} /\ ThisStep \in ReleaseSteps
      /\ UNCHANGED <<queue, rtPc, active, window, pending, frameReq, cur, surface>>
  BY DEF FinishRelease, JoinThread, WokenIn, StepDone, IInv, GuiInv, InStep, platVars,
     threadVars
<1>1. CASE guiPc' = "join"
  <2>1. /\ guiPc = "woken" /\ ~active[w] /\ guiTodo' = guiTodo /\ mutex[w] = "free"
        /\ mutex' = [mutex EXCEPT ![w] = "gui"]
    BY <1>1, <1>t DEF FinishRelease, JoinThread, WokenIn, StepDone
  <2>2. GuiInv' /\ LockInv' BY <1>0, <1>1, <2>1 DEF IInv, GuiInv, InStep, LockInv
  <2>3. ASSUME NEW v \in Windows PROVE WinInv(v)'
    <3>1. mutex'[v] = IF v = w THEN "gui" ELSE mutex[v]
      BY <1>t, <2>1 DEF TypeOK, ChannelType
    <3> QED BY <1>0, <1>1, <2>1, <3>1 DEF IInv
  <2> QED BY <2>2, <2>3
<1>2. CASE guiPc' # "join"
  <2>1. /\ StepDone
        /\ active[w] \/ ~IsRunning(w)
        /\ \/ UNCHANGED mutex /\ mutex[w] = "free"
           \/ mutex' = [mutex EXCEPT ![w] = "free"]
    BY <1>2 DEF FinishRelease, JoinThread, WokenIn, StepDone
  <2>2. GuiInv' /\ LockInv'
    <3>1. ThisStep # "obscure" BY <1>0
    <3> QED BY <1>0, <2>1, <3>1, StepDoneGui DEF IInv
  <2>3. ASSUME NEW v \in Windows PROVE WinInv(v)'
    <3>1. mutex'[v] = IF v = w THEN "free" ELSE mutex[v]
      BY <1>t, <2>1 DEF TypeOK, ChannelType
    <3>2. guiPc' = "idle" BY <2>1 DEF StepDone
    <3>3. mutex[w] # "rt"
      BY <1>0, <2>1 DEF IInv
    <3> QED BY <1>0, <2>1, <3>1, <3>2, <3>3 DEF IInv
  <2> QED BY <2>2, <2>3
<1> QED BY <1>1, <1>2

\* The window is deleted.
LEMMA DeleteInv ==
  ASSUME IInv, NEW w \in Windows, DeleteWindow(w)
  PROVE  GuiInv' /\ LockInv' /\ \A v \in Windows : WinInv(v)'
<1>t. TypeOK BY DEF IInv
<1>0. /\ guiPc = "idle" /\ guiWin = w /\ guiTodo # <<>> /\ ~IsRunning(w)
      /\ ThisStep = "delete" /\ StepDone /\ UNCHANGED <<rtPc, mutex>>
  BY DEF DeleteWindow, Doing
<1>1. /\ ~window'[w] /\ ~active'[w] /\ pending'[w] = {} /\ queue'[w] = <<>> /\ surface'[w]
      /\ \A v \in Windows \ {w} :
           /\ window'[v] = window[v] /\ active'[v] = active[v] /\ pending'[v] = pending[v]
           /\ queue'[v] = queue[v] /\ surface'[v] = surface[v] /\ cur'[v] = cur[v]
           /\ frameReq'[v] = frameReq[v]
  BY <1>t DEF DeleteWindow, TypeOK, ThreadType, ChannelType, PlatType
<1>2. GuiInv' /\ LockInv'
  BY <1>0, <1>1, StepDoneGui DEF IInv
<1>3. ASSUME NEW v \in Windows, v # w PROVE WinInv(v)'
  <2>1. mutex[v] # "gui" BY <1>0 DEF IInv, WinInv, MutexInv
  <2> QED BY <1>0, <1>1, <1>3, <2>1, FreeWindow DEF GuiWaitsFor, StepDone
<1>4. WinInv(w)'
  BY <1>0, <1>1 DEF IInv, StepDone,
     WinInv, RequestInv, Asks, PlaceInv, OweInv, OwesWake, MutexInv, ActiveInv,
     InQueue, InHandler, InFlags, InFrame, ExposeRequested, ExposeRequest,
     GuiWaitsFor, IsRunning, ThisStep, TypeOf, SyncSteps, ReleaseSteps
<1> QED BY <1>2, <1>3, <1>4

-----------------------------------------------------------------------------
\* Every step of the GUI thread through a script keeps IInv.
LEMMA GuiProgressInv ==
  ASSUME IInv, NEW w \in Windows, GuiProgress(w)
  PROVE  GuiInv' /\ LockInv' /\ \A v \in Windows : WinInv(v)'
  BY QuietStepInv, LockAndPostInv, WaitInv, ReleaseInv, DeleteInv DEF GuiProgress

\* Every step of a render thread keeps IInv: the one that wakes the GUI thread is the one it waits for.
LEMMA RenderStepInv ==
  ASSUME IInv, NEW w \in Windows, RenderStep(w)
  PROVE  GuiInv' /\ LockInv' /\ \A v \in Windows : WinInv(v)'
<1>1. ASSUME NEW v \in Windows, v # w PROVE WinInv(v)'
  BY <1>1, RenderFrame, OtherWindow DEF IInv
<1> QED BY <1>1, RenderWin, RenderGui

\* The inductive invariant holds in every state, whatever the graphics stack does.
LEMMA InitInv == Init => IInv
<1> SUFFICES ASSUME Init PROVE IInv OBVIOUS
<1>1. TypeOK BY InitTypeOK
<1>2. GuiInv /\ LockInv BY DEF Init, GuiInv, InStep, LockInv
<1>3. ASSUME NEW w \in Windows PROVE WinInv(w)
  <2>1. /\ guiPc = "idle" /\ rtPc[w] = "stopped" /\ queue[w] = <<>> /\ pending[w] = {}
        /\ ~active[w] /\ ~window[w] /\ mutex[w] = "free" /\ surface[w]
    BY DEF Init
  <2> QED BY <2>1 DEF
       WinInv, RequestInv, Asks, PlaceInv, OweInv, OwesWake, MutexInv, ActiveInv,
       InQueue, InHandler, InFlags, InFrame, ExposeRequested, ExposeRequest,
       GuiWaitsFor, IsRunning, ThisStep, TypeOf, SyncSteps, ReleaseSteps
<1> QED BY <1>1, <1>2, <1>3 DEF IInv

LEMMA NextInv == IInv /\ [Next]_vars => IInv'
<1> SUFFICES ASSUME IInv, [Next]_vars PROVE IInv' OBVIOUS
<1>1. CASE UNCHANGED vars
  <2>1. TypeOK' BY <1>1, StutterTypeOK DEF IInv
  <2>2. GuiInv' /\ LockInv'
    BY <1>1 DEF IInv, GuiInv, InStep, LockInv, ThisStep, vars, guiVars, threadVars
  <2>3. ASSUME NEW w \in Windows PROVE WinInv(w)'
    BY <1>1 DEF IInv,
       WinInv, RequestInv, Asks, PlaceInv, OweInv, OwesWake, MutexInv, ActiveInv,
       InQueue, InHandler, InFlags, InFrame, ExposeRequested, ExposeRequest,
       GuiWaitsFor, IsRunning, ThisStep, TypeOf, SyncSteps, ReleaseSteps,
       vars, guiVars, platVars, threadVars
  <2> QED BY <2>1, <2>2, <2>3 DEF IInv
<1>2. ASSUME NEW w \in Windows, RenderStep(w) PROVE IInv'
  BY <1>2, RenderTypeOK, RenderStepInv DEF IInv
<1>3. ASSUME NEW w \in Windows, GuiCall(w) \/ GuiEvent(w) PROVE IInv'
  BY <1>3, GuiCallTypeOK, GuiCallInv, ResizeSurfaceInv DEF IInv
<1>4. ASSUME NEW w \in Windows, GuiProgress(w) PROVE IInv'
  BY <1>4, GuiProgressTypeOK, GuiProgressInv DEF IInv, GuiInv
<1> QED BY <1>1, <1>2, <1>3, <1>4 DEF Next

THEOREM Invariance == Spec => []IInv
  BY InitInv, NextInv, PTL DEF Spec

-----------------------------------------------------------------------------
(* What it says.                                                            *)

LEMMA OwedLemma == IInv => (NoEarlyReturn => WaitIsOwed) /\ NoStrayRequest
  BY DEF IInv, WinInv, OweInv, WaitIsOwed, NoStrayRequest, GuiWaitsFor, TypeOK, GuiType

\* The GUI thread never waits without the render thread having its request: no
\* wait of the GUI thread is forgotten, whatever the application calls, for any
\* number of windows.
THEOREM EveryWaitIsOwed == ASSUME NoEarlyReturn PROVE Spec => []WaitIsOwed
  BY OwedLemma, Invariance, PTL

\* A request never outlives the wait it was posted for, so that no wake-up of the
\* render thread ends another wait than its own.
THEOREM NoRequestIsStray == Spec => []NoStrayRequest
  BY OwedLemma, Invariance, PTL

\* The scene graph is synchronized only with the GUI thread asleep in
\* polishAndSync() of that window.
THEOREM SyncIsExclusive == Spec => []SyncOnlyWhileBlocked
<1>1. ASSUME IInv, NEW w \in Windows, rtPc[w] = "sync"
      PROVE  /\ lockedForSync /\ mutex[w] = "rt" /\ guiPc = "blocked" /\ guiWin = w
             /\ ThisStep \in SyncSteps
  <2>1. OwesWake(w) /\ InFrame(w) BY <1>1 DEF OwesWake, InFrame
  <2>2. guiPc \in {"locked", "blocked"} /\ guiWin = w /\ ThisStep \in SyncSteps
    BY <1>1, <2>1 DEF IInv, WinInv, OweInv, GuiWaitsFor, RequestInv
  <2>3. mutex[w] = "rt" /\ guiPc # "locked" BY <1>1, <2>2 DEF IInv, WinInv, MutexInv
  <2> QED BY <1>1, <2>2, <2>3 DEF IInv, LockInv
<1>2. IInv => SyncOnlyWhileBlocked BY <1>1 DEF SyncOnlyWhileBlocked
<1> QED BY <1>2, Invariance, PTL

-----------------------------------------------------------------------------
(* The refinement: ThreadedRenderLoop implements the blocking protocol      *)
(* GuiBlock, since the data a window shares is written by one thread at a   *)
(* time, the one that has it.                                               *)

Gui == CASE guiPc \in {"idle", "polished"}  -> "owns"
         [] guiPc \in {"locked", "blocked"} -> "asked"
         [] guiPc \in {"woken", "join"}     -> "answered"
Holder == IF guiPc \in {"idle", "polished"} THEN NoWindow ELSE guiWin
Shared == [w \in Windows |-> <<dirty[w], window[w], updateDuringSync[w]>>]

\* A step that touches the data of no window but w.
Touches(w) ==
  \A v \in Windows \ {w} :
    /\ dirty'[v] = dirty[v] /\ window'[v] = window[v]
    /\ updateDuringSync'[v] = updateDuringSync[v]

\* A step that touches window w alone changes GuiBlock's variable at w alone.
LEMMA TouchShared ==
  ASSUME TypeOK, TypeOK', NEW w \in Windows, Touches(w)
  PROVE  \E d \in SharedData : Shared' = [Shared EXCEPT ![w] = d]
<1>1. Shared'[w] \in SharedData
  BY DEF Shared, SharedData, TypeOK, SceneType, ThreadType, LoopType
<1>2. Shared' = [Shared EXCEPT ![w] = Shared'[w]] BY DEF Shared, Touches
<1> QED BY <1>1, <1>2

\* The five ways a step looks like one of GuiBlock.
LEMMA Simulates ==
  ASSUME TypeOK, TypeOK', NEW w \in Windows,
         \/ UNCHANGED <<Gui, Holder, Shared>>
         \/ Touches(w) /\ Gui = "owns" /\ UNCHANGED <<Gui, Holder>>
         \/ Gui = "owns" /\ Gui' = "asked" /\ Holder' = w /\ UNCHANGED Shared
         \/ Touches(w) /\ Gui = "asked" /\ Holder = w /\ UNCHANGED <<Gui, Holder>>
         \/ Touches(w) /\ Gui = "asked" /\ Holder = w /\ Gui' = "answered"
            /\ UNCHANGED Holder
         \/ Gui = "answered" /\ Gui' = "owns" /\ Holder' = NoWindow /\ UNCHANGED Shared
  PROVE  [Block!Next]_(Block!vars)
<1> USE DEF Block!Next, Block!vars, Block!TakeBack, Block!Edit, Block!Ask, Block!Work,
            Block!Answer
<1>1. Touches(w) => \E d \in SharedData : Shared' = [Shared EXCEPT ![w] = d]
  BY TouchShared
<1> QED BY <1>1 DEF Gui, Holder, Shared

\* A step of a render thread is a step of GuiBlock or leaves its variables alone.
LEMMA RenderSimulates ==
  ASSUME IInv, TypeOK', NEW w \in Windows, RenderStep(w)
  PROVE  [Block!Next]_(Block!vars)
<1>t. TypeOK BY DEF IInv
<1>0. /\ UNCHANGED <<guiWin, guiTodo>>
      /\ guiPc' = guiPc \/ (guiPc = "blocked" /\ guiWin = w /\ guiPc' = "woken")
  BY <1>t, RenderFrame
<1>1. Touches(w)
  <2>1. \A v \in Windows \ {w} : window'[v] = window[v] BY <1>t, RenderFrame
  <2>2. \A v \in Windows \ {w} :
          dirty'[v] = dirty[v] /\ updateDuringSync'[v] = updateDuringSync[v]
    <3>1. CASE Sync(w) \/ HandleGrab(w)
      BY <1>t, <3>1 DEF Sync, HandleGrab, SyncScene, TypeOK, SceneType, LoopType
    <3>2. CASE ~(Sync(w) \/ HandleGrab(w))
      BY <3>2 DEF RenderStep, LoopExit, LoopIdle, LoopFrame, FrameEmpty, FrameBuildLost,
         FrameFails, FrameLost, FrameBegun, FailWake, SyncLock, Render, TakeEvent,
         EventsDone, HandleObscure, HandleRequestSync, HandleTryRelease, HandlePostJob,
         HandleReleaseSwapchain, loopVars, sceneVars
    <3> QED BY <3>1, <3>2
  <2> QED BY <2>1, <2>2 DEF Touches
\* Only a thread that owes the GUI thread an answer touches the data.
<1>2. OwesWake(w) \/ UNCHANGED <<dirty, window, updateDuringSync>>
  <2>1. CASE Sync(w) \/ HandleGrab(w) \/ HandleObscure(w) \/ HandleRequestSync(w)
    BY <2>1 DEF Sync, HandleGrab, HandleObscure, HandleRequestSync, Handles, OwesWake,
       InFrame, InHandler, Blocking, EventTypes
  <2>2. CASE ~(Sync(w) \/ HandleGrab(w) \/ HandleObscure(w) \/ HandleRequestSync(w))
    BY <2>2 DEF RenderStep, LoopExit, LoopIdle, LoopFrame, FrameEmpty, FrameBuildLost,
       FrameFails, FrameLost, FrameBegun, FailWake, SyncLock, Render, TakeEvent,
       EventsDone, HandleTryRelease, HandlePostJob, HandleReleaseSwapchain, loopVars,
       sceneVars, threadVars
  <2> QED BY <2>1, <2>2
<1>3. CASE guiPc' # guiPc
  <2>1. Gui = "asked" /\ Holder = w /\ Gui' = "answered" /\ UNCHANGED Holder
    BY <1>0, <1>3 DEF Gui, Holder
  <2> QED BY <1>t, <1>1, <2>1, Simulates
<1>4. CASE guiPc' = guiPc
  <2>1. UNCHANGED <<Gui, Holder>> BY <1>0, <1>4 DEF Gui, Holder
  <2>2. CASE OwesWake(w)
    <3>1. Gui = "asked" /\ Holder = w
      BY <2>2 DEF IInv, WinInv, OweInv, GuiWaitsFor, Gui, Holder
    <3> QED BY <1>t, <1>1, <2>1, <3>1, Simulates
  <2>3. CASE UNCHANGED <<dirty, window, updateDuringSync>>
    <3>1. UNCHANGED Shared BY <2>3 DEF Shared
    <3> QED BY <1>t, <2>1, <3>1, Simulates
  <2> QED BY <1>2, <2>2, <2>3
<1> QED BY <1>3, <1>4

\* A step of the GUI thread is a step of GuiBlock or leaves its variables alone.
LEMMA GuiSimulates ==
  ASSUME IInv, TypeOK', NEW w \in Windows, GuiCall(w) \/ GuiEvent(w) \/ GuiProgress(w)
  PROVE  [Block!Next]_(Block!vars)
<1>t. TypeOK BY DEF IInv
<1> USE DEF guiVars, loopVars, sceneVars, threadVars
\* The calls, and polishing, edit the data or nothing; the GUI thread owns it.
<1>1. CASE Change(w) \/ Expose(w) \/ Polish(w) \/ DeleteWindow(w)
  <2>1. guiPc \in {"idle", "polished"} /\ guiPc' \in {"idle", "polished"}
    BY <1>1 DEF Change, Expose, HandleExposure, Start, Polish, DeleteWindow, StepDone,
       GuiFree
  <2>2. Touches(w)
    BY <1>1, <1>t DEF Touches, Change, Expose, HandleExposure, Polish, DeleteWindow, TypeOK,
       SceneType, LoopType, ThreadType
  <2>3. Gui = "owns" /\ UNCHANGED <<Gui, Holder>> BY <2>1 DEF Gui, Holder
  <2> QED BY <1>t, <2>2, <2>3, Simulates
<1>2. CASE ResizeSurface(w) \/ WaitForWake(w) \/ (FinishRelease(w) /\ ~active[w])
  <2>1. UNCHANGED <<Gui, Holder, Shared>>
    BY <1>2 DEF ResizeSurface, WaitForWake, FinishRelease, WokenIn, Gui, Holder, Shared
  <2> QED BY <1>t, <2>1, Simulates
<1>3. CASE Update(w) \/ DeliverFullUpdate(w) \/ DeliverUpdateRequest(w) \/ Show(w)
           \/ Obscure(w) \/ Hide(w) \/ DestroySurface(w) \/ DestroyWindow(w)
           \/ Release(w) \/ Grab(w) \/ PostJob(w) \/ ResizeWindow(w) \/ SkipStep(w)
           \/ DestroyHandle(w)
  <2>1. guiPc = "idle" /\ guiPc' = "idle"
    BY <1>3 DEF Update, DeliverFullUpdate, DeliverUpdateRequest, Show, Obscure, Hide,
       DestroySurface, DestroyWindow, Release, Grab, PostJob, ResizeWindow, SkipStep,
       DestroyHandle, Start, StepDone, GuiFree
  <2>2. UNCHANGED <<dirty, window, updateDuringSync>>
    BY <1>3 DEF Update, UpdateWindow, DeliverFullUpdate, DeliverUpdateRequest, Show,
       Obscure, Hide, DestroySurface, DestroyWindow, Release, Grab, PostJob, ResizeWindow,
       SkipStep, DestroyHandle
  <2>3. UNCHANGED <<Gui, Holder, Shared>> BY <2>1, <2>2 DEF Gui, Holder, Shared
  <2> QED BY <1>t, <2>3, Simulates
<1>4. CASE LockAndPost(w)
  <2>1. /\ guiPc \in {"idle", "polished"} /\ guiPc' = "locked" /\ guiWin' = w
        /\ UNCHANGED <<dirty, window, updateDuringSync>>
    BY <1>4 DEF LockAndPost
  <2>2. Gui = "owns" /\ Gui' = "asked" /\ Holder' = w /\ UNCHANGED Shared
    BY <2>1 DEF Gui, Holder, Shared
  <2> QED BY <1>t, <2>2, Simulates
<1>5. CASE FinishSync(w) \/ FinishGrab(w) \/ FinishOther(w) \/ JoinThread(w)
           \/ (FinishRelease(w) /\ active[w])
  <2>1. /\ guiPc \in {"woken", "join"} /\ guiPc' = "idle"
        /\ UNCHANGED <<dirty, window, updateDuringSync>>
    BY <1>5 DEF FinishSync, FinishGrab, FinishOther, JoinThread, FinishRelease, WokenIn,
       StepDone
  <2>2. Gui = "answered" /\ Gui' = "owns" /\ Holder' = NoWindow /\ UNCHANGED Shared
    BY <2>1 DEF Gui, Holder, Shared
  <2> QED BY <1>t, <2>2, Simulates
<1> QED BY <1>1, <1>2, <1>3, <1>4, <1>5 DEF GuiCall, GuiEvent, GuiProgress

\* The detailed loop implements the blocking protocol: the unlocked data a window
\* shares between its threads has one owner at every moment, handed over by posting
\* a request and by answering it.
THEOREM Refinement == Spec => BlockSpec
<1>1. Init => Block!Init
  <2> SUFFICES ASSUME Init PROVE Block!Init OBVIOUS
  <2>1. TypeOK BY InitTypeOK
  <2>2. Shared \in [Windows -> SharedData]
    BY <2>1 DEF Shared, SharedData, TypeOK, SceneType, ThreadType, LoopType
  <2>3. guiPc = "idle" BY DEF Init
  <2> QED BY <2>2, <2>3 DEF Block!Init, Shared
<1>2. IInv /\ IInv' /\ [Next]_vars => [Block!Next]_(Block!vars)
  <2> SUFFICES ASSUME IInv, IInv', [Next]_vars PROVE [Block!Next]_(Block!vars) OBVIOUS
  <2>1. TypeOK' BY DEF IInv
  <2>2. CASE UNCHANGED vars
    BY <2>2 DEF Block!vars, vars, guiVars, sceneVars, threadVars, loopVars
  <2> QED BY <2>1, <2>2, RenderSimulates, GuiSimulates DEF Next
<1> QED BY <1>1, <1>2, Invariance, PTL DEF Spec, BlockSpec, Block!Spec

=============================================================================
