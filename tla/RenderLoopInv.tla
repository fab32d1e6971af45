---------------------------- MODULE RenderLoopInv ----------------------------
(***************************************************************************)
(* The inductive invariants of ThreadedRenderLoop.  Behind the rendezvous: *)
(* where a request of the GUI thread is, which step of the GUI thread it   *)
(* belongs to, who holds the mutex, and when a thread may finish.  On top  *)
(* of it, for the graphics: which window a thread shows and until when,    *)
(* and what of its QRhi, swapchain and scene graph is there.               *)
(***************************************************************************)
EXTENDS ThreadedRenderLoop

ReleaseSteps == {"release", "destroyRelease"}
BlockingSteps ==
  SyncSteps \cup ReleaseSteps \cup {"obscure", "grab", "releaseSwapchain"}

\* The type of event a step of the GUI thread posts.
TypeOf(step) ==
  CASE step \in SyncSteps          -> "RequestSync"
    [] step \in ReleaseSteps       -> "TryRelease"
    [] step = "obscure"            -> "Obscure"
    [] step = "grab"               -> "Grab"
    [] step = "releaseSwapchain"   -> "ReleaseSwapchain"
    [] OTHER                       -> "PostJob"

\* The GUI thread is inside a step of some operation unless it is idle.
InStep == guiPc # "idle" => guiTodo # <<>>

\* The step is one it can be inside of; after WM_Obscure, and in the destructor, the
\* thread has let go of the window.
GuiInv ==
  /\ InStep
  /\ guiPc \in {"locked", "blocked", "woken"} => ThisStep \in BlockingSteps
  /\ guiPc = "join" => ThisStep \in ReleaseSteps
  /\ guiPc = "polished" => ThisStep \in SyncSteps \cup {"grab"}
  /\ \A i \in 1..Len(guiTodo) : guiTodo[i] = "destroyRelease" =>
       \/ i > 1 /\ guiTodo[i - 1] = "obscure"
       \/ i = 1 /\ ~window[guiWin]
  /\ guiPc = "woken" /\ ThisStep = "obscure" => ~window[guiWin]

\* The event is what the GUI thread's step posts.
Asks(e) ==
  /\ e.type = TypeOf(ThisStep)
  /\ "destructor" \in e.opts => ThisStep = "destroyRelease"

\* A request is the last event of the queue and the one the GUI thread's step
\* posts, also in the handler; in the flags and in a frame it is a sync.
RequestInv(w) ==
  /\ \A i \in 1..Len(queue[w]) : queue[w][i].type \in Blocking =>
       i = Len(queue[w]) /\ Asks(queue[w][i])
  /\ InHandler(w) => Asks(cur[w])
  /\ InFlags(w) \/ InFrame(w) => ThisStep \in SyncSteps

\* It is in one place at a time.
PlaceInv(w) ==
  /\ ~(InQueue(w) /\ InHandler(w))
  /\ ~(InQueue(w) \/ InHandler(w)) \/ ~(InFlags(w) \/ InFrame(w))
  /\ rtPc[w] \in {"failWake", "syncLock", "sync", "render"} => ~InFlags(w)

\* Neither of the early returns of syncAndRender() that forget the GUI thread.
NoEarlyReturn == "emptySurface" \notin Faults /\ "buildLost" \notin Faults

\* A request is there only while the GUI thread waits; and as long as it waits, but
\* for those early returns.
OweInv(w) ==
  /\ OwesWake(w) => GuiWaitsFor(w)
  /\ NoEarlyReturn => surface[w] /\ (GuiWaitsFor(w) => OwesWake(w))

MutexInv(w) ==
  /\ mutex[w] = "gui" <=> guiPc \in {"locked", "join"} /\ guiWin = w
  /\ mutex[w] = "rt" <=> rtPc[w] = "sync" \/ (rtPc[w] = "render" /\ ExposeRequested(w))

\* A thread told to finish shows nothing, and the GUI thread that told it so is
\* about to wait for it; nobody asks it anything any more.
ActiveInv(w) ==
  /\ ~IsRunning(w) => ~active[w]
  /\ ~active[w] => ~window[w]
  /\ ~active[w] /\ IsRunning(w) =>
       guiWin = w /\ guiPc \in {"woken", "join"} /\ ThisStep \in ReleaseSteps
  /\ GuiWaitsFor(w) => IsRunning(w) /\ active[w]

\* polishAndSync() has set m_lockedForSync for as long as its request is out.
LockInv ==
  guiPc \in {"locked", "blocked"} /\ ThisStep \in SyncSteps => lockedForSync

WinInv(w) == RequestInv(w) /\ PlaceInv(w) /\ OweInv(w) /\ MutexInv(w) /\ ActiveInv(w)

\* What every step preserves, whatever the graphics stack does.
IInv == TypeOK /\ GuiInv /\ LockInv /\ \A w \in Windows : WinInv(w)

-----------------------------------------------------------------------------
(* The graphics.                                                           *)

\* The current operation has this step before it, or is in it.
Ahead(step) == \E i \in 1..Len(guiTodo) : guiTodo[i] = step

\* A thread shows a window that is listed and has its platform window, until the GUI
\* thread has it obscured; frames are of windows that are shown.
ShownInv(w) ==
  /\ window[w] => /\ listed[w] /\ handle[w]
                  /\ (visible[w] /\ exposed[w]) \/ (guiWin = w /\ Ahead("obscure"))
  /\ rtPc[w] \in {"frame", "failWake", "syncLock", "sync", "render"} => window[w]

\* A swapchain is of a listed window with a platform window and a QRhi, the scene graph
\* has a QRhi, and what is known to be renderable has a swapchain that was built.
NestInv(w) ==
  /\ swapchain[w] # "none" => rhi[w] = "ready" /\ handle[w] /\ listed[w]
  /\ sgInit[w] \/ renderer[w] => rhi[w] = "ready"
  /\ hasRenderable[w] \/ justRenderable[w] => swapchain[w] = "active"

\* A thread told to finish has no QRhi and no events left: the request that told it so
\* was the last.
CleanInv(w) ==
  /\ ~active[w] => rhi[w] # "ready" /\ queue[w] = <<>>
  /\ InHandler(w) => queue[w] = <<>>

\* The request of an expose says so wherever it is.
ExposeInv(w) ==
  GuiWaitsFor(w) /\ ThisStep = "syncExpose" =>
    /\ \A i \in 1..Len(queue[w]) : queue[w][i].type \in Blocking => "expose" \in queue[w][i].opts
    /\ InHandler(w) => "expose" \in cur[w].opts
    /\ InFlags(w) => ExposeRequest \subseteq pending[w]
    /\ rtPc[w] \in {"failWake", "syncLock", "sync"} => ExposeRequested(w)

\* A window is synchronized only while it shows; before its platform window is
\* destroyed it has been obscured and its swapchain released.
StepInv ==
  /\ guiPc \in {"locked", "blocked"} /\ ThisStep \in SyncSteps => window[guiWin]
  /\ Ahead("destroyHandle") =>
       /\ ~window[guiWin]
       /\ \/ swapchain[guiWin] = "none"
          \/ ThisStep = "releaseSwapchain" /\ guiPc # "woken"

WinGfx(w) == ShownInv(w) /\ NestInv(w) /\ CleanInv(w) /\ ExposeInv(w)

GfxInv == IInv /\ StepInv /\ \A w \in Windows : WinGfx(w)

-----------------------------------------------------------------------------
(* The updates.                                                            *)

\* What makes NoLostUpdate hold: a QRhi is always to be had again, beginFrame() fails
\* only in ways that post a full update, and no grab synchronizes on the side.
UpdatesKept ==
  /\ Faults \cap {"noRhi", "buildFails", "frameError"} = {}
  /\ "grab" \notin Calls

\* The GUI thread is in a polishAndSync() that has not synchronized yet, or will ask for
\* the next one.
Coming(w) ==
  /\ guiWin = w /\ guiTodo # <<>> /\ ThisStep \in SyncSteps
  /\ \/ guiPc \in {"idle", "polished"}
     \/ guiPc \in {"locked", "blocked"} /\ ~(rtPc[w] = "render" /\ ExposeRequested(w))
     \/ updateDuringSync[w]

\* A shown window whose scene has changed has an update under way, and every
\* synchronization finds a QRhi.
UpdateInv(w) ==
  /\ window[w] /\ windowSize[w] /\ dirty[w] =>
       updateRequested[w] \/ fullUpdate[w] \/ Coming(w)
  /\ rhi[w] # "doomed"
  /\ rtPc[w] \in {"frame", "syncLock", "sync"} => rhi[w] = "ready"
  /\ rtPc[w] = "failWake" => fullUpdate[w]
  /\ swapchain[w] # "failed"

UpdInv == GfxInv /\ ~Ahead("grab") /\ \A w \in Windows : UpdateInv(w)

=============================================================================
