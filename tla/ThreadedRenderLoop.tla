------------------------- MODULE ThreadedRenderLoop -------------------------
(***************************************************************************)
(* Qt Quick's threaded render loop: the GUI thread and one render thread   *)
(* per window, and what the two promise each other.                        *)
(***************************************************************************)
EXTENDS RenderThread, RenderLoopGui

CONSTANT NoWindow
ASSUME NoWindowAssumption == NoWindow \notin Windows

Init ==
  /\ guiPc = "idle" /\ guiWin \in Windows /\ guiTodo = <<>>
  /\ lockedForSync \in BOOLEAN            \* the constructor leaves it unset
  /\ visible = [w \in Windows |-> FALSE]
  /\ exposed = [w \in Windows |-> FALSE]
  /\ handle  = [w \in Windows |-> FALSE]
  /\ area    = [w \in Windows |-> TRUE]
  /\ surface = [w \in Windows |-> TRUE]
  /\ listed  = [w \in Windows |-> FALSE]
  /\ updateDuringSync = [w \in Windows |-> FALSE]
  /\ forceRenderPass  = [w \in Windows |-> FALSE]
  /\ dirty = [w \in Windows |-> TRUE]
  /\ updateRequested = [w \in Windows |-> FALSE]
  /\ fullUpdate = [w \in Windows |-> FALSE]
  /\ renderer = [w \in Windows |-> FALSE]
  /\ swapchain = [w \in Windows |-> "none"]
  /\ hasRenderable  = [w \in Windows |-> FALSE]
  /\ justRenderable = [w \in Windows |-> FALSE]
  /\ rtPc = [w \in Windows |-> "stopped"]
  /\ active = [w \in Windows |-> FALSE]
  /\ window = [w \in Windows |-> FALSE]
  /\ windowSize = [w \in Windows |-> FALSE]
  /\ pending = [w \in Windows |-> {}]
  /\ frameReq = [w \in Windows |-> {}]
  /\ sleeping = [w \in Windows |-> FALSE]
  /\ stop = [w \in Windows |-> FALSE]
  /\ cur = [w \in Windows |-> NoEvent]
  /\ rhi = [w \in Windows |-> "none"]
  /\ sgInit = [w \in Windows |-> FALSE]
  /\ queue = [w \in Windows |-> <<>>]
  /\ mutex = [w \in Windows |-> "free"]

Next == \E w \in Windows :
  RenderStep(w) \/ GuiCall(w) \/ GuiEvent(w) \/ GuiProgress(w)

Spec == Init /\ [][Next]_vars

(* A render thread that can go on does, and so does the GUI thread inside  *)
(* an operation; the event loop delivers what is posted to it.  What the   *)
(* application and the windowing system do, GuiCall, is never forced.      *)
Fairness ==
  \A w \in Windows :
    /\ WF_vars(RenderStep(w))
    /\ WF_vars(GuiProgress(w))
    /\ SF_vars(DeliverUpdateRequest(w))
    /\ SF_vars(DeliverFullUpdate(w))

FairSpec == Spec /\ Fairness

-----------------------------------------------------------------------------
GuiType ==
  /\ guiPc \in GuiPcs /\ guiWin \in Windows /\ guiTodo \in Seq(Steps)
PlatType ==
  /\ visible \in [Windows -> BOOLEAN] /\ exposed \in [Windows -> BOOLEAN]
  /\ handle \in [Windows -> BOOLEAN] /\ area \in [Windows -> BOOLEAN]
  /\ surface \in [Windows -> BOOLEAN]
LoopType ==
  /\ listed \in [Windows -> BOOLEAN]
  /\ updateDuringSync \in [Windows -> BOOLEAN]
  /\ forceRenderPass \in [Windows -> BOOLEAN]
SceneType ==
  /\ dirty \in [Windows -> BOOLEAN] /\ updateRequested \in [Windows -> BOOLEAN]
  /\ fullUpdate \in [Windows -> BOOLEAN]
ChainType ==
  /\ swapchain \in [Windows -> {"none", "new", "failed", "active"}]
  /\ hasRenderable \in [Windows -> BOOLEAN]
  /\ justRenderable \in [Windows -> BOOLEAN]
ThreadType ==
  /\ rtPc \in [Windows -> RtPcs]
  /\ active \in [Windows -> BOOLEAN] /\ window \in [Windows -> BOOLEAN]
  /\ windowSize \in [Windows -> BOOLEAN]
  /\ pending \in [Windows -> SUBSET Flags] /\ frameReq \in [Windows -> SUBSET Flags]
  /\ sleeping \in [Windows -> BOOLEAN] /\ stop \in [Windows -> BOOLEAN]
  /\ cur \in [Windows -> Event]
GfxType ==
  /\ rhi \in [Windows -> {"none", "ready", "lost", "doomed"}]
  /\ sgInit \in [Windows -> BOOLEAN] /\ renderer \in [Windows -> BOOLEAN]
ChannelType ==
  /\ queue \in [Windows -> Seq(Event)]
  /\ mutex \in [Windows -> {"free", "gui", "rt"}]

(* Type invariant: what each variable of the model may hold. *)
TypeOK ==
  /\ GuiType /\ lockedForSync \in BOOLEAN /\ PlatType /\ LoopType /\ SceneType
  /\ ChainType /\ ThreadType /\ GfxType /\ ChannelType

-----------------------------------------------------------------------------
(* The rendezvous *)

GuiWaitsFor(w) == guiPc \in {"locked", "blocked"} /\ guiWin = w

\* The places a request of the GUI thread can be in until its answer.
InQueue(w)   == \E i \in DOMAIN queue[w] : queue[w][i].type \in Blocking
InHandler(w) == rtPc[w] = "handle" /\ cur[w].type \in Blocking
InFlags(w)   == "sync" \in pending[w]
InFrame(w)   == \/ rtPc[w] \in {"failWake", "syncLock", "sync"}
                \/ rtPc[w] = "render" /\ ExposeRequested(w)
OwesWake(w)  == InQueue(w) \/ InHandler(w) \/ InFlags(w) \/ InFrame(w)

\* "release the block only after the render thread is done syncing": whenever the
\* GUI thread waits, with no predicate to fall back on, the render thread still
\* has its request somewhere and will answer it.
WaitIsOwed == guiPc \in {"locked", "blocked"} => OwesWake(guiWin)

\* Nothing is answered twice or left over: a request exists only while the GUI
\* thread waits for it, so a wake-up can never end a later, unrelated wait.
NoStrayRequest == \A w \in Windows : OwesWake(w) => GuiWaitsFor(w)

\* sync()'s assertion and its comment "make sure GUI is blocking": the scene is
\* synchronized only with the GUI thread asleep in the wait of a polishAndSync()
\* of this very window, under this thread's mutex.
SyncOnlyWhileBlocked ==
  \A w \in Windows : rtPc[w] = "sync" =>
    /\ lockedForSync /\ mutex[w] = "rt"
    /\ guiPc = "blocked" /\ guiWin = w /\ ThisStep \in SyncSteps

\* The render thread dereferences its QRhi whenever the window has a swapchain,
\* and the scene graph's resources live in it: none outlives the QRhi.
GraphicsNest ==
  \A w \in Windows :
    /\ swapchain[w] # "none" => rhi[w] = "ready"
    /\ sgInit[w] \/ renderer[w] => rhi[w] = "ready"

\* invalidateGraphics()'s warning "swapchain still alive, this should not happen":
\* no swapchain outlives the platform window it presents to.
SwapchainHasSurface == \A w \in Windows : swapchain[w] # "none" => handle[w]

\* exposureChanged() calls into the swapchain on the strength of these flags: they are
\* set only while the window has one that was built.
RenderableHasSwapchain ==
  \A w \in Windows :
    hasRenderable[w] \/ justRenderable[w] => swapchain[w] = "active"

\* run()'s assertion "The graphics context should be cleaned up before exiting the
\* render thread", and nothing is left in the queue of a thread that has ended.
StoppedIsClean ==
  \A w \in Windows : ~IsRunning(w) =>
    rhi[w] # "ready" /\ queue[w] = <<>> /\ ~window[w]

\* hide(): "rendering for that window is fully done and over with by the time this
\* function exits".
HiddenIsQuiet ==
  \A w \in Windows : GuiFree /\ ~visible[w] =>
    /\ ~window[w]
    /\ rtPc[w] \notin {"frame", "failWake", "syncLock", "sync", "render"}

\* maybeUpdate(): "Will post an event to ourselves that a sync is needed": when the
\* GUI thread is back in its event loop, a shown window whose scene has changed
\* has an update under way.
NoLostUpdate ==
  \A w \in Windows :
    GuiFree /\ window[w] /\ dirty[w] /\ CanSync(w) =>
      updateRequested[w] \/ fullUpdate[w]

-----------------------------------------------------------------------------
(* Action properties *)

\* In an expose the GUI thread is released only after the frame is submitted (or
\* could not be begun): it never goes on right after the synchronization.
ExposeWaitsForFrame ==
  [][\A w \in Windows :
       guiPc = "blocked" /\ guiPc' = "woken" /\ guiWin = w /\ ThisStep = "syncExpose"
         => rtPc[w] \in {"render", "failWake"}]_vars

-----------------------------------------------------------------------------
(* Liveness *)

\* Every blocking operation of the GUI thread comes to its end.
GuiUnblocks == guiTodo # <<>> ~> GuiFree

\* A repaint the render thread asked itself for is drawn while the window shows.
RepaintDrawn ==
  \A w \in Windows :
    "repaint" \in pending[w] /\ window[w] ~> rtPc[w] = "frame" \/ ~window[w]

\* A changed scene is synchronized while the window shows, or the frame that was to
\* do so cannot begin; NoLostUpdate then says that it is tried again.
ChangeSynced ==
  \A w \in Windows :
    dirty[w] /\ window[w] ~> rtPc[w] \in {"sync", "failWake"} \/ ~window[w]

-----------------------------------------------------------------------------
(* Refinement *)

\* The unlocked data a window's two threads share: the dirty list of its scene,
\* QSGRenderThread::window and Window::updateDuringSync.
SharedData == BOOLEAN \X BOOLEAN \X BOOLEAN

Block == INSTANCE GuiBlock WITH
  Data   <- SharedData,
  gui    <- CASE guiPc \in {"idle", "polished"}  -> "owns"
              [] guiPc \in {"locked", "blocked"} -> "asked"
              [] guiPc \in {"woken", "join"}     -> "answered",
  holder <- IF guiPc \in {"idle", "polished"} THEN NoWindow ELSE guiWin,
  shared <- [w \in Windows |-> <<dirty[w], window[w], updateDuringSync[w]>>]

\* The loop implements the blocking protocol: none of the shared data is written
\* by a render thread but the one the GUI thread waits for, nor by the GUI thread
\* while it waits.
BlockSpec == Block!Spec

=============================================================================
