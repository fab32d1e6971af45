# Formal models of Qt Declarative

TLA+ models of the core protocols of Qt Declarative 6.2 (the QML engine and
Qt Quick), between its threads and between its callbacks, the TLC runs that check
them on small instances, and theorems that TLAPS checks for every instance.  All
paths are relative to the repository; the library's code is under `src/` of the
repository, so a module that cites `quick/scenegraph/qsgthreadedrenderloop.cpp`
means `src/quick/scenegraph/qsgthreadedrenderloop.cpp`.

Six parts of the system are modelled so far:

| part | code | modules |
|---|---|---|
| threaded render loop | `quick/scenegraph/qsgthreadedrenderloop.cpp`, its callers in `quick/items/qquickwindow.cpp` | `RenderLoopState`, `RenderThread`, `RenderLoopGui`, `ThreadedRenderLoop`, `GuiBlock`, `RenderLoopInv`, `RenderLoopProofs`, `RenderLoopGraphics`, `MC_RenderLoop` |
| QML loader thread | `qml/qml/ftw/qqmlthread.cpp`, `qml/qml/qqmltypeloaderthread.cpp`, parts of `qml/qml/qqmltypeloader.cpp` | `QmlThread`, `LoaderThread`, `LoaderProofs`, `MC_LoaderThread` |
| data blobs: files and their dependencies | `qml/qml/qqmldatablob.cpp`, `qqmltypedata.cpp`, `qqmlscriptblob.cpp`, `qqmldirdata.cpp`, `qqmltypeloader.cpp` | `DataBlob`, `DataBlobProofs`, `MC_DataBlob` |
| pixmap cache and its reader thread | `quick/util/qquickpixmapcache.cpp`, the loading half of `quick/items/qquickimagebase.cpp` | `PixmapCache`, `PixmapProofs`, `MC_PixmapCache` |
| incubators | `qml/qml/qqmlincubator.cpp`, its callers in `qqmlcomponent.cpp` | `Incubator`, `IncubatorProofs`, `MC_Incubator` |
| bindings, notifiers and signal handlers | `qml/qml/qqmlnotifier.cpp`, `qqmljavascriptexpression.cpp`, `qqmlbinding.cpp`, parts of `qqmlengine.cpp`, `qqmlproperty.cpp`, `qqmlboundsignal.cpp`, `qml/types/qqmlconnections.cpp` | `Binding`, `BindingProofs`, `MC_Binding` |

`SequenceLemmas` has what the last four proof modules share: lemmas about pushing,
popping and removing elements of a sequence, and about lists that hold each of
their elements once.  `PROJECT.json` lists the runs, the mutants each property is
tried against, the source lines of every definition, the hazards and the theorems.

To check one run: `tlc -workers 2 -config safety.cfg MC_RenderLoop.tla`.
To check the proofs of a module: `tlapm RenderLoopProofs.tla`; none takes more than
a few minutes.

## 1. Inventory

### What is in the repository

Qt Declarative is a library of two layers.  **Qt QML** (`src/qml`,
`src/qmlmodels`, `src/qmlworkerscript`) loads QML documents and JavaScript,
compiles them and runs them in a JavaScript engine; **Qt Quick** (`src/quick`,
`src/quickcontrols2` and others) is the scene of items that these documents
build, drawn by a scene graph.  Most of the code runs on one thread, the GUI
thread, and is data: parsing, byte code, layout, geometry.  The parts that are
hard to get right and hard to test are those where threads, callbacks and
posted events meet.  They are listed here with the state each keeps, what it
does and what makes it correct.

**Threaded render loop.**  *State:* per window a `Window` record and a
`QSGRenderThread` with its event queue, mutex, condition, flags
(`pendingUpdate`, `sleeping`, `stopEventProcessing`, `active`, `window`), the
QRhi, swapchain and scene-graph context, and on the GUI side `m_lockedForSync`,
`updateDuringSync`, `forceRenderPass`.  *Operations:* `exposureChanged`,
`handleExposure`, `handleObscurity`, `polishAndSync`, `update`, `maybeUpdate`,
`grab`, `hide`, `windowDestroyed`, `releaseResources`, `postJob`, the event
filter for platform windows; on the render thread `run`, `processEvents`,
`event`, `syncAndRender`, `sync`, `handleDeviceLoss`, `invalidateGraphics`.
*Interaction:* the GUI thread posts an event and sleeps on the thread's
condition, without a predicate, until the thread wakes it.  *Hard:* every path
of the render thread, those of lost devices and empty surfaces included, has to
wake the sleeper exactly once; graphics objects must be destroyed in the order
they nest, on the right thread, whatever was going on; no repaint may be lost.
*Correct when:* each wait is answered once, the scene is read only while the
GUI thread is blocked, nothing outlives the QRhi or the platform window, hidden
windows are quiet, changes are drawn.

**QQmlThread and the QML loader thread.**  *State:* `threadList`, `mainList`,
`mainSync`, five flags, one mutex and one condition that both threads sleep on,
and an event queue of each thread.  *Operations:* `callMethodInThread`,
`callMethodInMain`, `postMethodToThread`, `postMethodToMain`,
`waitForNextMessage`, `startup`, `shutdown`, the handlers `threadEvent` and
`mainEvent`; the clients' `doLoad`, `getType`, `loadThread`, `setData`,
`callCompleted`, `initializeEngine`.  *Interaction:* each thread calls into the
other, so that each may sleep while the other needs it.  *Hard:* wake-ups on a
shared condition, calls nested in the messages they run, application callbacks
that load more or run event loops, destruction of the engine in the middle.
*Correct when:* the two threads never sleep on each other, a synchronous
message runs once with its caller blocked, calls return when their work is
done, every load is reported.

**Data blobs.**  *State:* per file its status, `m_isDone`, `m_waitingFor`,
`m_waitingOnMe`, errors and, for QML files, `m_typesResolved`,
`m_compositeSingletons`.  *Operations:* `startLoading`, `addDependency`,
`setError`, `tryDone`, `notifyAllWaitingOnMe`, `notifyComplete`,
`allDependenciesDone`, `resolveTypes`, `done`.  *Interaction:* a graph of files
that call one another back, recursively, on the loader thread.  *Hard:* cycles,
dependencies found late (types after imports, the imports a qmldir brings
along), errors on any path, network replies in any order.  *Correct when:* a
file is done exactly once, after everything it needs, with the errors of what
it needs, and no callback of a file is entered while another one runs.

**Pixmap cache.**  *State:* `QQuickPixmapData` with their reference counts, the
hash of cached ones, the list of unreferenced ones with its cost and its timer;
in each engine's `QQuickPixmapReader` the jobs, the cancelled ones, those under
way at the network, and a `QQuickPixmapReply` per request that belongs to both
threads.  *Operations:* `load`, `clear`, `release`, `referencePixmap`,
`unreferencePixmap`, `shrinkCache`, `timerEvent`, `purgeCache`, `getImage`,
`cancel`, and on the reader thread `processJobs`, `processJob`,
`networkRequestDone`.  *Hard:* cancellation races with every stage of a job, the
network limit, one pixmap shared by images that come and go in each other's
handlers, the engine going first.  *Correct when:* no pointer between the
threads dangles, the book-keeping is exact, every image that loads is answered,
what nobody uses expires.

**Incubation.**  *State:* per incubator its status, progress, errors, object,
who it waits for; in the engine the list the controller works off and the
counter `inProgressCreations`.  *Operations:* `incubate` (of the engine and of
the incubator), `clear`, `forceCompletion`, `incubateFor`, destruction.  *Hard:*
each of them calls back into the application, which may call any of them for any
incubator, the same one included; nested incubators hold up the one they are
nested in.  *Correct when:* what is ready is whole, the list and the counter
stay right, calls return, everything completes.

**Bindings and notifiers.**  *State:* the endpoints connected to a property,
their `senderPtr`, which during a notification points into the stack of
`emitNotify()`, the guards of each binding and its flags.  *Operations:*
`emitNotify`, `connect`, `disconnect`, `cancelNotify`, `captureProperty`,
`update`, `setEnabled`, removal, `QQmlData::destroyed`, `setTarget`.  *Hard:*
notifications nest, and what they call disconnects, deletes, reuses and changes
what they are about to call.  *Correct when:* nothing that is gone is called, no
guard is lost, and a binding at rest has seen the last change of all it read.

**Import database and plugin importer** (`qqmlimport.cpp`,
`qqmlpluginimporter.cpp`): a process-wide registry of plugins used by the
loader threads of several engines, its lock released before the plugin's
`initializeEngine()` runs.  **Worker scripts**
(`qquickworkerscript.cpp`): a thread per engine with events both ways.
**Animators** (`qquickanimatorcontroller.cpp`): jobs handed to the render
thread during the sync.  **Delegate model and list compositor**
(`qqmllistcompositor.cpp`): range arithmetic.  **Memory manager**
(`qv4mm.cpp`): mark and sweep.  **Basic render loop and QQuickRenderControl**,
**event delivery**, **debug server**, **JavaScript engine**, **compiler**,
**item types**, **tools**: see `components` in `PROJECT.json` for each and why
it is not modelled yet or at all.

### How the parts interact

The GUI thread owns items, bindings and JavaScript.  Creating a component asks
the type loader for a file; the loader thread loads it and all it depends on
and posts `completed()` back, or the GUI thread waits for it.  Imports call
`initializeEngine()` of plugins on the GUI thread.  A component creates its
objects at once or through an incubator, and bindings connect their properties.
Images ask the pixmap cache, whose reader thread answers with events.  What the
documents create are items; when they change the window calls `maybeUpdate()` of the render
loop, which leads to `polishAndSync()` and a frame on the render thread.  The
protocols share no state, so they are separate compositions here; what
connects them is the GUI thread, which may be inside only one blocking call at
a time of each.  Where one calls another, the callback is in the model as what
the application may do at that point.

## 2. The threaded render loop

### State and steps

`RenderLoopState` declares the variables and the operators both threads use.
`RenderThread` has the steps of a render thread, `RenderLoopGui` those of the
GUI thread and of the windowing system, `ThreadedRenderLoop` composes them and
states the properties.  A step is what happens between two points where another
thread can see or change the state: a lock, an unlock, a wait, a posted event,
a return to the event loop.

* **Render thread.**  `rtPc[w]` is where it is: `loop` (the top of `run()`'s
  loop), `frame` (in `syncAndRender()`), `failWake` (the wake-up of a frame that
  could not begin), `syncLock` and `sync`, `render`, `events`
  (`processEvents()`), `wait` (`processEventsAndWaitForMore()`), `handle` (in
  `event()`), `stopped`.  `cur[w]` is the event in its hands, `frameReq[w]` the
  flags that `syncAndRender()` took from `pendingUpdate`.
* **GUI thread.**  Operations that involve the render thread are scripts of
  steps, `guiTodo`: hiding a window is `obscure` then `release`, a window's
  destruction is `releaseSwapchain`, `obscure`, `destroyRelease`,
  `destroyHandle`.  Each blocking step goes through `locked` (the mutex is held
  and the event is posted), `blocked` (asleep in the condition, the mutex
  released), `woken`; a release may go on to `join` (`QThread::wait()` with the
  mutex held).  `polished` is `polishAndSync()` after the polish and before the
  lock, where the render thread may still do anything.
* **The condition** has no predicate in the code, and none here: whoever wakes
  it wakes the GUI thread, if that sleeps there, and is lost otherwise.
* **Graphics.**  `rhi`, `swapchain`, `sgInit` and `renderer` are the life
  cycles of the QRhi, the window's swapchain, the render context and the
  window's renderer.  What the graphics stack may do wrong is chosen by
  `Faults`: no QRhi, an empty surface, a failing or device-losing
  `createOrResize()`, and the three results of `beginFrame()` other than
  success.
* **Application and platform** are `Calls`: scene changes (also while the scene
  is being synchronized, from `updatePaintNode()`), animations, `update()`,
  grabs, `releaseResources()`, render jobs, hiding, destroying the platform
  window or the window.  Exposing and resizing are always possible.

### Properties

`WaitIsOwed` and `NoStrayRequest` say together that a wait of the GUI thread
and a request in the render thread's hands exist at the same times: no wait is
forgotten and no wake-up is left over to end a later one.
`SyncOnlyWhileBlocked` is the assertion of `sync()` and the design comment at
the top of the file, `GraphicsNest` and `SwapchainHasSurface` the order of
destruction, `StoppedIsClean` what must be gone with the thread,
`HiddenIsQuiet` the comment in `hide()`, `RenderableHasSwapchain` the flags that
`exposureChanged()` acts on, `NoLostUpdate` that a changed scene has an update
under way, `ExposeWaitsForFrame` that a window is not shown before its first
frame.  `GuiUnblocks`, `RepaintDrawn` and `ChangeSynced` are
the liveness properties.

`GuiBlock` is the abstract specification: the data of a window that its two
threads share changes hands between them, with no events, queues or locks.
`BlockSpec` maps the detailed state to it (`gui` from `guiPc`; the shared data
is the dirty scene, `QSGRenderThread::window` and `updateDuringSync`), so the
refinement says that the render thread touches them only while the GUI thread
waits for that very thread, and the GUI thread only while it does not.

### Runs and bounds

| run | instance | what it shows |
|---|---|---|
| `safety` | one window that releases its graphics when it is hidden; all faults; all calls | nesting of graphics objects and windows, the flags of the swapchain, hiding, expose, thread exit |
| `protocol` | two windows, one with a persistent scene graph, sharing `m_lockedForSync`, and destroyed | the inductive invariant of the proofs, the rendezvous and its exclusion, and the refinement of `GuiBlock`: no request is answered by the other window's thread |
| `liveness` | under `FairSpec`, a window with persistent graphics, lost devices, stale swapchains and a platform window that may be destroyed | no change is forgotten, repaints are drawn and changes synchronized, every blocking call ends |
| `empty_surface` | violation of `WaitIsOwed` | see *Findings* |

One window is enough for all that concerns one pair of threads: windows share
only the GUI thread, which is in one call at a time, and `m_lockedForSync`, and
`protocol` checks what those could confuse; its only `Calls` is the destruction of
the platform window, and what else happens to a persistent scene graph is left to
`liveness`.  `MaxJobs = 1` bounds the render
jobs in one queue: a second one is handled like the first and changes none of
the state the properties read.  Queues need no other bound because the GUI
thread waits for each of its other events.

`ChangeSynced` ends with the synchronization or with a frame that cannot begin:
a device may be lost again in every frame.  `NoLostUpdate` then says that a new
update is under way.  It does not hold with `frameError` in `Faults`: after
`FrameOpError` the code prints a warning and asks for nothing (line 713).

`CHECK_DEADLOCK FALSE`: a hidden window whose thread has stopped, in an
application that makes no more calls, is a state in which the program may stay;
that nobody waits there is what `WaitIsOwed` and `GuiUnblocks` say.

`WaitIsOwed` and `IInv` are not among the properties of `safety`, because the
faults there include the two early returns, under which they are false.

Fairness: `WF` of a render thread's step and of the GUI thread inside an
operation, because the operating system schedules a thread that can run; `SF`
of the delivery of `UpdateRequest` and `FullUpdateRequest` to the window,
because an event loop delivers what is posted to it, although a blocking
operation disables delivery for a while.  Calls of the application and of the
windowing system are never forced.

### Proofs

`RenderLoopProofs` and `RenderLoopGraphics` prove, for any set of windows, any
persistence, any `Faults`, any `Calls` and any number of jobs:

| theorem | statement | assumption |
|---|---|---|
| `TypeCorrect` | `Spec => []TypeOK` | none |
| `Invariance` | `Spec => []IInv` | none |
| `EveryWaitIsOwed` | `Spec => []WaitIsOwed` | `NoEarlyReturn` |
| `NoRequestIsStray` | `Spec => []NoStrayRequest` | none |
| `SyncIsExclusive` | `Spec => []SyncOnlyWhileBlocked` | none |
| `Refinement` | `Spec => BlockSpec` | none |
| `GraphicsInvariance` | `Spec => []GfxInv` | none |
| `GraphicsAreNested` | `Spec => []GraphicsNest` | none |
| `SwapchainsHaveSurfaces` | `Spec => []SwapchainHasSurface` | none |
| `RenderablesHaveSwapchains` | `Spec => []RenderableHasSwapchain` | none |
| `ThreadsEndClean` | `Spec => []StoppedIsClean` | none |
| `HiddenWindowsAreQuiet` | `Spec => []HiddenIsQuiet` | none |
| `ExposesWaitForFrames` | `Spec => ExposeWaitsForFrame` | none |
| `UpdatesAreKept` | `Spec => []NoLostUpdate` | `UpdatesKept` |

`NoEarlyReturn` leaves out the faults `emptySurface` and `buildLost`: under those
two `WaitIsOwed` is false, as the run `empty_surface` shows for one of them, so
that the theorem holds for exactly the code whose two early returns wake the
sleeper.  All that does not say that a wait ends is proved with them.
`UpdatesKept` leaves out a QRhi that cannot be created, a swapchain that cannot be
built, `FrameOpError`, and grabs.  Each of them can be seen to lose an update when
it is added to the run `liveness`: a lost QRhi that cannot be made again, a swapchain
that cannot be built and `FrameOpError` end a frame that nobody asks for again, and
grabs are a finding (section 8).

**The rendezvous.**  `WaitIsOwed` is not inductive.  `IInv` (in `RenderLoopInv`)
adds what it rests on, in named parts: `GuiInv`, which step of which operation
the GUI thread may be in; `RequestInv`, the request is the last event of the
queue and the one that step posts; `PlaceInv`, a request is in one place at a
time: the queue, the handler, the flags, or a frame; `OweInv`, it exists only if
the GUI thread waits, and, without the early returns, whenever it does;
`MutexInv`, who holds the mutex; `ActiveInv`, a thread told to finish is one the
GUI thread is about to join, so that nobody posts to a thread that will not look
again; `LockInv` for `m_lockedForSync`.  The proof has one lemma per kind of step
(`GuiCallInv`, `LockAndPostInv`, `WaitInv`, `RenderStepInv`) and in it one step
per action and conjunct.  The refinement follows from `IInv`: where a render step
changes the shared data, `RequestInv` and `OweInv` place the GUI thread in the
matching wait.

**Graphics.**  `GfxInv` puts on top of `IInv` what a window has in every position
of both threads: `ShownInv`, the platform window is exposed as long as the thread
shows the window, or an obscure is still ahead in the GUI thread's script;
`NestInv`, the swapchain needs the QRhi and the platform window, the scene graph
the QRhi; `CleanInv`, a thread that is told to finish has nothing left; `ExposeInv`,
where the request of an expose is until it is answered; `StepInv`, a window is
obscured and its swapchain released before its platform window is destroyed.  That the GUI thread stays blocked in a step until
the graphics have followed is where `IInv` is needed: `HandlerAsks` says of the
event in a handler that it is the one that is waited for, and `WakesReleasing`
that only the released swapchain ends a wait for it.

**Updates.**  `UpdateInv`, under `UpdatesKept`: a shown window whose scene has
changed has an update requested, a full update posted, or the GUI thread in a
`polishAndSync()` that has not synchronized yet or will ask for the next one
(`Coming`); and every synchronization finds a QRhi.

Only model-checked: the three liveness properties.

## 3. The QML loader thread

### State and steps

`QmlThread` is `QQmlThread` itself; `LoaderThread` adds what the type loader and
the application do with it.  A region of the code between `lock()` and the next
`unlock()` or `wait()` is one step.

* **Main thread.**  `main` is its call stack, innermost frame first: `startup`,
  `event` (in `mainEvent()`), `handler` (a message being called), `call` (in
  `callMethodInThread()`), `await`, `enter` and `next` (the loop of `doLoad()`
  and `getType()` around `waitForNextMessage()`, and that function), `shutdown`,
  `join`.  A handler of a completed load may call in again, so the stack grows;
  it is bounded by the number of loads.
* **Loader thread.**  `loader` is what it does next.  It is never re-entered, so
  it needs no stack: `load` (a message is called), `data` (the file is worked
  on), `callMain` (asleep in `callMethodInMain()`), `resumed`, `complete`,
  `finish`.
* **The condition** `_wait` is one for both threads: `asleep` is the set of
  those that sleep, and `WakeOne` wakes any one of them.
* **Messages.**  `threadList` holds the loads, which stay at the head while they
  are called, `mainList` the callbacks, `mainSync` the synchronous message.
  Posted events are counted, `threadEvents` and `mainEvents`.
* **Clients.**  `LoadAsync`, `LoadSync` (`PreferSynchronous`, and `Synchronous`
  with its loop), `Await` (`getType()` of a file being loaded), `Close` (the
  engine is destroyed), event loops and calls from callbacks.  A load in
  `Remote` ends with a network reply, one in `Plugins` calls
  `initializeEngine()` in the main thread.

### Properties and runs

`SyncCallBlocksLoader`: a message run in the main thread through `mainSync` runs
while its caller sleeps in the call and the message, which lives on its stack,
exists.  `CallReturnsLoaded`: a synchronous call returns when its own load has
been processed, whatever was called back meanwhile.  `LoadsReported` and
`MainReturns` are what the clients are promised in the end; that the threads
never sleep on each other, that whoever sleeps is owed a wake-up and that no
wake-up goes to the wrong one is what these two need.

The run `loader` has three loads, one remote, two with plugins, and every call
of the application except those of the findings.  Three loads are the least for
one to be called, one awaited and one queued behind them.  Under `FairSpec` it
also checks that every load is reported unless the engine is
destroyed, and that every call of the main thread returns, destruction
included.  Fairness: `WF` for each thread's own steps; `SF` for the two event
loops, whose delivery is disabled while a message runs; `SF` for network
replies, since a request ends with data or an error.

`CHECK_DEADLOCK FALSE`: when every load is reported, or the engine is gone, the
program has nothing to do.

### Proofs

`LoaderProofs` proves, for any loads, any of them remote or with plugins, and any
`Calls`: `Invariance` (`Spec => []IInv`), `SyncCallTheorem`
(`[]SyncCallBlocksLoader`) and `CallReturnsTheorem` (`CallReturnsLoaded`).  The
assumption is `NoNestedWait`: a call made in `initializeEngine()` does not wait
for the loader thread, which is waiting for it.  It is the assertion of
`callMethodInThread()`; section 8 says how to see what happens without it.

The invariant is over the main thread's stack, whose height is not bounded:
`StackInv`, a synchronous message is its innermost frame and is `mainSync`, and
each `completed()` lies on the `mainEvent()` that called it; `SyncInv`, the loader
thread sleeps only in `callMethodInMain()`, and does as long as its message is
there, whatever wakes the condition; `LoaderInv`, the message that is worked off
stays at the head of `threadList` until it is finished, so that its load is not
taken twice; `CallInv`, a load that is not processed is listed, and a call waits
only for a load that was asked for.  Only model-checked: the liveness properties.

Not in the model: nested event loops while `shutdown()` runs a callback and in
`initializeEngine()`, builds without threads, `discard()`.

## 4. Data blobs

### State and steps

`DataBlob` has one action per callback step of the loader thread.  What the
files contain is a graph, chosen in `Init`: `imports` are known when a file's
data is there, `types` only when its imports are done.  `stack` is the nest of
callbacks: `data` (`dataReceived()`), `ready` (`notifyComplete()`), `types`
(`resolveTypes()`), `settle` (the end of `setData()` or `notifyComplete()`,
`tryDone()`), `notify` (`notifyAllWaitingOnMe()`).  A file that nobody has asked
for is loaded at once, on top of the stack (`GetUnknown`), one in the cache is
added as a dependency (`GetKnown`).  `SkipSingleton` is the code's exception
for composite singletons.  A qmldir waits for nothing itself, but brings its
imports to whoever imports it: at once if it is complete already (`Got`),
otherwise when the importer is notified (`NotifyWaiting`); these may be qmldir files
again, which bring theirs.  Two complete qmldir files that import each other refill
`todo` for ever, as `updateQmldir()`, `loadImportDependencies()` and `addImport()` call
one another without end.  Parsing, compiling,
type lookup and the network fail by choice (`Fail`, `Done`,
`NetworkReplyFinished`) for the files in `Faulty`.  After `shutdown()` the loader
thread leaves its event loop when it has nothing more to do (`LoaderQuits`,
`qqmlthread.cpp:203`), `shutdownThread()` deletes the network manager, and the
requests in `network` are never answered.

The statuses `WaitingForDependencies` and `ResolvingDependencies` are one value,
`waiting`: the code distinguishes them nowhere, `isWaiting()` is true of both.
The order in which `resolveTypes()` looks at types is that of a map's keys; it
is left open here, except that singletons come first.  `m_waitingOnMe` is a
sequence, and notified from its end.

### Properties and runs

`NotReentered`: no file is on the stack twice, so its one flag `m_inCallback` is
right.  `WaitsAreMutual`: both lists of a wait agree.  `CompleteIsWhole`: a
complete file has only complete dependencies, which contains the assertions of
`done()` and says that no error is lost.  `SetErrorOnceUnlessCyclic`: the
assertion of `setError()`.  `LoadsFinish`: every file that was asked for is done
and reported unless it leads to a cycle, or the loader thread has quit while the file
needs one that the network has not delivered, under weak fairness of the loader
thread and of each network reply, both only as long as the thread runs its event
loop; `LeadsToCycle` does not count cycles closed by a
composite singleton that is loaded for that use from the file system, so this
also says that the exception for singletons works there.

`blobs` has two files that the main thread asks for and a composite singleton
that only they use, hence a late one: each of the two may use the other and the
singleton, and the singleton the first of them.  The first file may import a local
qmldir, which may import a remote one, which may bring a script along; the second
file may import the remote one directly.  The graph is any part of this; the first
file, the remote qmldir and the script may fail, and the engine may be destroyed at
any moment.  It is the least for a dependency shared by two, for a singleton that
waits for a file that waits for it, so that the exception is taken, for an import
that a qmldir brings to one file at once and to another in `notifyComplete()`, for an
import that comes late through a chain of two qmldir files, and for errors of two
dependencies of one file.

`CHECK_DEADLOCK FALSE`: the loader thread rests when all is loaded;
`LoadsFinish` says what must hold then.

### Proofs

`DataBlobProofs` proves, for any files, any graph of imports and types, cyclic
ones included, and any failures: `Invariance`, `WaitsAgree`
(`[]WaitsAreMutual`), `CallbacksDoNotNest` (`[]NotReentered`) and
`CompleteStaysWhole` (`[]CompleteIsWhole`), `CyclesHold` (`[]CycleInv`) and
`ErrorsAreSetOnce`, the action property `SetErrorOnceUnlessCyclic`.

`NotReentered` needs the deepest argument: why can what completes on top of the
stack never notify a file whose callback is further down?  `ApartInv`: for every
frame there is a set of files that has the frame's own, is closed under "waits
for", and has none of the files above it.  So what is done above the frame is not
among those its file waits for, however indirectly.  A new dependency keeps this
because only the topmost frame's file gets one, on which the sets of the frames
below say nothing, and a file that is loaded on top of the stack is waited for by
nobody yet.  `CompleteIsWhole` rests on `TrackInv`, no dependency is forgotten: it is
complete or in error, waited for, or yet to be looked at by a frame; for the types
of a file once they are being resolved.  For imports it says that there is a set with
all the file imports and, for each complete qmldir in it that the file has seen, all
that this one imports; of its members none is forgotten.  The chain of qmldir files may
have any length, and the least such set is what `done()` looks at (`Provided`).
`ListsInv`, `LoadInv`, `FrameInv` and `DoneInv` say that the two lists are
inverse and without repetition, that what is queued has not been touched, what
each kind of frame may rely on, and what `tryDone()` leaves.

`ErrorsAreSetOnce` needs `CycleInv` besides.  A callback can find its file in error
only after `addDependency()` has set that error, since every other `setError()`
ends the loop it is in; so each file that is in error and still waits or is in a
loop has to lead to a cycle (`ErrorInv`).  `addDependency()` sees that the two files
wait for each other, and a file leads to all that it waits for (`WaitsLead`), which
makes the cycle.  That is so at once for imports and for what a qmldir brings along
(`TodoLeads`), but paths that end with the use of a late singleton do not count, so
no file may ever wait for one.  Such a singleton is loaded where it is first used
and `IsCyclicSingleton` leaves it out when it waits; what remains is that it is met
while its own data is still being looked at, further down the stack.  `AboveInv`
excludes this: above a file in `dataReceived()` are only files that were imported,
for there is a set of imported files that holds all files above it, all that are
yet to be loaded, and all that wait for any of these.  Imported files are scripts and
qmldir files, which do not use types (a qmldir may import qmldir files): `BlobAssumption` says so of the graph, and
`resolveTypes()` is only in `QQmlTypeData`.  Paths are sets closed under the edges
(`Reaches`), so that the proof needs no induction.

Only model-checked: `LoadsFinish`.

## 5. The pixmap cache

### State and steps

`PixmapCache` has the GUI thread and one reader thread.  A pixmap's data and the
reply created for it have one id, used again when both are gone, as an address
is: two ids are enough for one to be shared, one to be cancelled and one to take
its place.  `data`, `cache`, `unref`, `cost` and `timer` are the store; `reply`,
`jobs`, `cancelled`, `underWay`, `current` and `posted` the reader; `image` an
image's `pix` and `status`; `frame` is the `finished()` signal being emitted,
whose handlers may load, clear and delete any image.  A step of the reader
thread is what it does with the mutex held, or between two such regions:
`ProcessJobs` takes a job or ends cancelled ones, `ProcessJob` decodes it or
hands it to the network, `PostReply` posts the answer if it was not cancelled.
`Load` is one of `LoadCached`, `LoadSync`, `LoadAsync` and `LoadWithoutEngine`.
What an image is loaded from is a key with a kind and a cost; decoding and the
network succeed or fail by choice.

### Properties, run and fairness

`PointersAreLive`: data and reply point to each other from two threads, and no
pointer or list of the reader outlives what it points to, in every state of the
reader.  It names one exception, which is real: `~QQuickPixmapReader()` takes the
reply of a load under way its way to the pixmap, but not the pixmap its way to the
reply, which the event loop then deletes.  Such a pixmap is marked `orphan` when the
destructor runs (a mark of the model), and only its `data->reply` may dangle (section
8).  What the code then writes through that pointer is undefined; in the model it
is written to a record that nothing reads.  `CacheIsExact`: the
reference count is the number of images, what nobody uses is on the list once,
its cost is counted within the limit with the timer running, and the hash holds
exactly what says it is cached.  `LoadsAnswered`: an image that is Loading becomes
something else unless the engine goes.  `CacheExpires`: what nobody uses is gone
in the end.

`pixmaps` has two images, a local and a remote file, a network limit of one and
a cache limit of one large pixmap, three loads, and the engine may go at any
time.  The limit of the network is a constant of the code, 8: with one, a job
waits for another after two loads.  `CacheExpires` is checked for costs from 4
on: `timerEvent()` removes `cost / 4`, so that a total of less than four bytes
would stay, which no texture has.  Fairness: `WF` of the GUI thread's event
delivery, of the reader thread and of the timer; `SF` of a request's end, which
a cancellation may disable.  Jobs are taken from the end of the list, so that an
endless stream of loads could starve the first; `MaxLoads` excludes that.

### Proofs

`PixmapProofs` proves, for any images, ids, keys, kinds, costs and limits:
`Invariance`, `PointersStayLive` (`[]PointersAreLive`) and `CacheStaysExact`
(`[]CacheIsExact`).

`StoreInv` is about the GUI thread's side: users are counted, what has none is on
the list once and paid for, the hash and the flags agree.  It is stated of a list,
pixmaps and images given as arguments (`DataInv`, `CachedInv`), because
`release()` changes the pixmaps before `shrinkCache()` shortens the list: `Shrinks`
is the lemma about any prefix of the list being dropped, from which
`ReleaseStore`, the timer and the purge follow.  The cost is a sum over the list;
since there is no induction over data in the prover, the lemmas on sums take the
least index at which two sums differ (`AddsOnce`) or do not exist (`AddsThere`).
`ReplyInv` is about both threads: `PairInv`, pixmap and reply point to each other
or not at all, except while the reply emits and but for the orphans, which there are
only once the reader goes; `OneReply`, a reply is queued, loads,
has an answer posted, emits, or waits to be deleted, one at a time, and a cancelled
one is still loading.  Only model-checked: `LoadsAnswered` and `CacheExpires`.

Not in the model: redirects, progress, `setImage()` and `setPixmap()`, item
grabs, texture factories, image responses that answer from inside the request,
and handlers that reload the image whose own load is being started.  The destructor
of `QQuickPixmapReader` answers no load under way, which is why `LoadsAnswered` excludes
it.

## 6. Incubators

### State and steps

`Incubator` is one thread with a stack of frames: `incubate()` between two
callbacks (`enter`, `create`, `initial`, `checked`, `finalize`, `finish`,
`ended`, `count`), the engine's `incubate()` (`starting`, `loading`), `clear()`
(`clear`, `null`) and `forceCompletion()` (`force`).  A frame that is in a virtual
function of the incubator has `callback` set, and there, as in the event loop,
the program may start, clear, force or delete any incubator.  `recursed` is what
the frame's `QRecursionWatcher` has seen; a reference to a private keeps it, and
one that nothing refers to is deleted before anything else happens (`Reap`).
The object creator is a choice: an object, errors, or an interruption; `incubate()`
itself may fail at its start, because its object is gone or because the call stack
is too deep (`qqmlincubator.cpp:288`).

Whom a nested incubator joins is the first that a context names, from the one it is
created in outwards (`Joins`; line 63).  A context goes on naming its incubator when
that has ended: `clear()` resets `context->incubator()` only through `rootContext`,
which is set when `finalize()` has succeeded (line 380), hence `finalized` and
`Names`.  So something started in the object of an incubator that failed joins it,
and waits for what is no longer created; and the search ends at an incubator that is
cleared while the new one is started.  `inside` says that an incubator's own
contexts are those of the object its parent has now.

### Properties, run and fairness

`ListIsExact`: the list of the controller holds exactly what is asynchronous and
not finished, once each, and in the event loop nobody waits for what has ended, but
for what was started in the object of one that has failed.
`NeverUndercounted`: binding errors are held back while `inProgressCreations` is
not zero, so that it may not fall below what is loading.  `ReadyIsWhole`: what
becomes Ready has an object, no error and nothing to wait for, and what is nested and
still under creation makes somebody else wait.  `CallsReturn` and `Completes`: calls
come to an end, and what is incubated is ready, in error or cleared in the end; both
leave out `Hangs`, the two loops of section 8 that nothing ends: `ForceHangs`, which
`force_hang` shows, and `ClearHangs`.

`incubators` has a page, an item nested in it and a part nested in that, the
least for an incubator that waits and is waited for, and five calls of the
program, so that each may be started and two more calls clear, force or delete in
callbacks.  The item may be deleted, since it is both nested and waited for; with the
page deleted instead, or all three, the states are more than a run can visit.  The
five calls reach both hangs and what the code's assertion in `clear()` excludes (see
*Proofs*): the properties of the run hold all the same.  Fairness: `WF` of
the calls, of the deletion of privates and of `incubateFor()`, which the
controller of a window calls in every frame; `SF` of the end of `finalize()`,
which is reached piecewise, with an interruption between any two pieces, and
each piece makes progress.

Left out: calls of the application from inside the creation of an object (only
what starts nested incubators happens there); and whatever is started in an object
after `clear()` has left it to `deleteLater()`, or after its incubator was deleted:
such an object starts nothing (`Alive`).

### Proofs

`IncubatorProofs` proves, for any incubators, modes and contexts and any number of
calls: `Invariance`, `CountIsKept` (`[]NeverUndercounted`) and `ReadyAreWhole`
(`ReadyIsWhole`), and `ListStaysExact`, `Spec /\ []ClearsOnce => []ListIsExact`.

`ClearsOnce` is the assertion `Q_ASSERT(d->compilationUnit.isNull())` of `clear()`
(`qqmlincubator.cpp:602`): what is being cleared has not been started again when it
is cleared at last.  It does not follow from the code, since `clear()` calls back
into the program through the incubators that are nested: section 8 has the
behaviour, which takes five calls.  `ListIsExact` holds in the run all the same; the
theorem needs the assertion because more calls can go on from there.

`IInv` describes the stack by how calls overtake each other.  A frame of
`incubate()` that goes on (no `QRecursionWatcher` has seen a call for the same
incubator) has its unit, and what is above it in the stack for the same incubator
has it marked (`Overtaken`).  `OneIncubator` says where a unit has to be listed, that
a nested one keeps somebody waiting, that loading without a unit is a `clear()` under
way, and (`Made`) how far the object is: what is Null has none and what is Ready was
finalized, so that what still names a context without a unit has failed or is being
cleared.
The counter is not the number of units, but at least that number plus the frames
that have still to subtract, `Weight(stack)`.  Under `ClearsOnce`, `SyncInv` adds
that what is created synchronously has a frame that no interruption ends
(`Steady`), so that nobody can be waiting for it in the event loop.  Every
action moves the stack in one way, `Moves`: it drops at most one frame, puts at
most two on top and marks those below; the lemmas about `Moves` carry the parts of
the invariant over, and the actions that change nothing else are one lemma
(`QuietKeeps`).  Only model-checked: `CallsReturn` and `Completes`.

## 7. Bindings and notifiers

### State and steps

`Binding` is one thread with a stack of frames: `emit` (`emitNotify()`), `handle`
(a signal handler), and `evaluate`, `write` and `done` of `QQmlBinding::update()`.
`endpoints` is the list of a notifier, `sender` and `notifying` are the two
meanings of `senderPtr`: an endpoint that is notifying points to an entry of a
frame of `emitNotify()`, and reads its sender there.  `emitNotify()` takes the
list when it starts, and calls each entry whose slot still holds a sender.  An
evaluation reads some of `Reads[b]` in any order, taking the guards of the last
evaluation again, in their order, as `captureProperty()` does.  `read`, `looped`
and `stale` are history: what was read, whether a loop was reported, and which
guards' properties changed since they were captured.

### Properties and run

`NotifyingIsLive`, `WatchesAgree` and `CallbackIsLive`: what `emitNotify()` is
going to write to or call is there, and still connected to what has changed; the
last names the one case in which the code does call what is deleted (below).
`GuardsExact`: at rest a binding listens to exactly what it has read and no guard
is lost.  `UpToDate`: at rest it has been evaluated since the last change of that.
`NoNeedlessUpdate`: a binding that has been evaluated since the change is not
evaluated for it again.

`bindings` has two bindings that may read what the other one writes, a third
property with a handler, four guards (two reads for each binding) and three calls
of the program besides enabling bindings; all happen in the event loop, in the
handler or in an evaluation.  Guards are interchangeable, and a symmetry set.
A binding may be removed, or the object that it writes to destroyed, in its own
evaluation: the `DeleteWatcher`s of `update()` and of the capture are made for that
(`selfDeletingBinding` in `tst_qqmlecmascript.cpp` tests it), and a binding that is
deleted captures and writes nothing more.  But what it has not captured again until
then stays in `capture.guards`, connected, until the evaluation returns; when the
evaluation goes on to change one of these properties,
`QQmlJavaScriptExpressionGuard_callback()` calls the binding through freed memory.
`LeftOver` is exactly this case, and what `CallbackIsLive` leaves open; the model lets
the callback return without an effect, the other outcome being the end of the program.

With `Ruthless` the object that notifies may be destroyed in what it calls.  The
run leaves that out:
`senderPtr` stays pointing into the frame of `emitNotify()` that has returned
(`disconnectNotifiers()` resets the slot, line 1594 of `qqmlengine.cpp`, and
`stopNotifying()` is only called while the slot is set), which is why
`QQmlData::destroyed()` aborts for handlers of the object itself and `isNotifying()`
is asked by `QQmlConnections`; setting `Ruthless = TRUE` shows it as a violation of
`NotifyingIsLive`.

`CHECK_DEADLOCK FALSE` in this run and in those of the two parts before it: the
program may stop calling.

### Proofs

`BindingProofs` proves, for any properties, bindings, handlers and guards, any
reads, any number of calls and any depth of the stack:

| theorem | statement | assumption |
|---|---|---|
| `Invariance`, `TypeCorrect` | `Spec => []IInv`, `Spec => []TypeOK` | none |
| `PointersAreLive` | `Spec => []NotifyingIsLive` | `~Ruthless` |
| `CallsTheConnected` | `Spec => []WatchesAgree` | none |
| `CallbacksAreLive` | `Spec => []CallbackIsLive` | none |
| `ListensToWhatItReads` | `Spec => []GuardsExact` | none |
| `IsUpToDate` | `Spec => []UpToDate` | none |
| `UpdatesAreNeeded` | `Spec => NoNeedlessUpdate` | none |
| `ConnectedPointersAreLive` | the pointer of a connected endpoint points to an entry of its own that is not passed | none |

`~Ruthless` is what the code asks of its callers (see above), and TLC refutes the
property without it.  `ConnectedPointersAreLive` is what is left then: only
endpoints that were disconnected by the destruction of their sender keep a pointer
into a frame that returns.  The other properties do not need the assumption.

None of the properties is inductive: most speak of the event loop only, and all
depend on what every frame below the top has still to do.  `IInv` has, beside
`TypeOK`, four parts:

* `ListInv`: the list of a notifier holds what has it as its sender, each once; a
  guard in the pool is connected to nothing.
* `EmitInv`: an entry that an `emitNotify()` has not passed watches a slot of its own
  frame or of one below, and if what it watches still agrees, the endpoint is
  connected to this notifier and, if a guard, stale (`SlotInv`).  A pointer leads
  to such an entry of its own endpoint (`PointInv`): this is why nested
  notifications can share a slot, the frame that owns it being the last to pass it.
* `OwnInv`: a guard in use is on exactly one list, the active one of its binding or
  the `rest` of the evaluation that has not captured it again; a binding has at most
  one `update()` on the stack, which `updating` records.
* `HearInv`: a binding that was not told that it loops listens to what it has read
  (`ReadsInv`), and each stale guard of it has an entry that some frame has still to
  call (`PendsInv`).  At rest there is no frame, hence nothing stale.

The lemmas follow the steps of the code and not the conjuncts of the invariant: how
lists change when endpoints are taken out or put first, what a frame pushed, popped
or advanced does to the entries of the others, and what clearing and capturing
guards does to their owners; `QuietKeeps` is the case of a step that notifies
nobody.  `Without` is a recursive function of its own in `Binding`, since the prover
does not expand `SelectSeq`; `WithoutKeeps` proves what it does, by the least prefix
for which it would not.

## 8. Findings

The violation runs show where the code does not do what a comment or a document
of the repository says.

| run | what |
|---|---|
| `empty_surface` | a surface that becomes empty: `syncAndRender()` returns without the wake-up that `run()`'s comment demands, the GUI thread waits for ever |
| `closing_load` | a `completed()` callback run by `shutdown()` asks for a file: no event is posted, because `threadEvent()` left `m_threadProcessing` set, and the engine's destruction never returns |
| `ready_too_soon` | an image whose handler reloads another listener of the same pixmap: that one stays connected to the old reply and becomes Ready with a pixmap that is still loading |
| `force_hang` | `forceCompletion()` called from the Error status of a nested incubator loops for ever on the one that has failed |

More was seen while modelling, and can be seen again by changing a
configuration or adding the invariant named:

* `empty_surface.cfg` with `Faults = {"buildLost"}`: a device lost while the
  swapchain is built (line 691) is the same return without a wake-up.
* An `update()` from `updatePaintNode()` while `WM_Grab` synchronizes is recorded
  in `updateDuringSync`, which `grab()` never reads: `NoLostUpdate` with
  `Calls = {"grab", "change"}`.
* `WM_Grab` after the platform window of a persistent window was destroyed finds
  a QRhi but no swapchain, against the comment at line 447.
* A ring of three files that use one another is not noticed at all; and of two
  files that use each other, which are noticed, neither is done, against "`done()`
  will always eventually be called" at `qqmltypeloader.cpp:112`.
* `completed()` is "only invoked if an asynchronous load for this blob is made"
  (`qqmldatablob.cpp:497`); `tryDone()` posts it for every file (line 530), and the
  models do so.
* Nor is a file done that waits for a network reply when the engine is destroyed: the
  loader thread quits, its network manager is deleted, and `invalidate()` only releases
  what was requested (`qqmltypeloader.cpp:127`), again against line 112: `LoadsFinish`
  without its last disjunct.
* An image that outlives its engine may use a deleted reply: `~QQuickPixmapReader()`
  (`qquickpixmapcache.cpp:544`) clears `reply->data` of the loads under way, but not
  `data->reply`, although "`this->data->reply` must be set to zero" (line 1228).  The
  reader thread calls `deleteLater()` for the reply, and after that `clear(this)` (line
  1748), `release()` (1289) and `connectFinished()` (1772) of an image go through the
  pointer.  `pixmaps` reaches this; the invariant `PointersAreLive` without
  `~data[n].orphan` shows it.
* A plugin's `initializeEngine()` that loads a file synchronously fails an
  assertion of `callMethodInThread()`: `Calls = {"sync", "initLoads"}`.
* `inProgressCreations` stays above zero for good when an incubator is cleared in
  its own Error status, or deleted while it loads; from then on errors of bindings
  are held back for ever (`qqmljavascriptexpression.cpp:65`).  So the counter may be
  too high, and `NeverUndercounted` says that it is never too low.
* `Q_ASSERT(d->compilationUnit.isNull())` at `qqmlincubator.cpp:602` can fail: a
  page is in Error with an item still waiting for it; clearing the page clears the
  item first; the item's `statusChanged(Null)` clears the page again, and in the
  `statusChanged(Null)` of that the program starts the page anew; then the outer
  `clear()` goes on with the new unit.  The invariant `ClearsOnce` in `incubators`
  shows it.
* `clear()` may loop for ever as well: `while (waitingFor.first()) { if (i) i->clear(); }`
  (`qqmlincubator.cpp:165`) needs the `QQmlIncubator` of what it waits for.  Delete the
  item that a page waits for while a part nested in the item is still being created:
  the part keeps the item's private alive and in the page's `waitingFor`, and clearing
  the page never ends.  `CallsReturn` in `incubators` without `ClearHangs` shows it.
* A binding that removes itself in its own evaluation, by an assignment to its
  property or by deleting its object, and then changes what it has read the last time
  but not yet this time, is called through a dangling pointer
  (`qqmljavascriptexpression.cpp:602`), against "All code that follows must check with
  watcher before it accesses data members incase we have been deleted" (line 270): the
  capture's guards are not told.  `bindings` reaches it; `CallbackIsLive` without
  `LeftOver` shows it.
* An incubator started in the object of one that has failed joins the failed one
  (line 65): it is created asynchronously, and what waits for it never goes on, which
  nobody notices, since it had ended before.

`SetErrorOnceUnlessCyclic` leaves cycles out because after `addDependency()` has
set the status to Error for a cycle, `resolveTypes()` goes on and calls
`setError()` for the next type it cannot resolve.

## 9. Hazards without a property

`PROJECT.json` lists the hazards of the modelled code at their lines.  Those that
no property covers, and why: the animation timer is not modelled; bit-fields
written by two threads (only the logic of the flags is covered, with every access
atomic); a message run again in a nested event loop; reference counts of files
and `trimCache()`; the reader thread's use of `QQuickPixmapData` without the mutex
(`frameCount`, line 918), which is a data race in the code; objects destroyed in
their own notification (section 7).  Two more need a model in which a deleted
object can be used: `forceCompletion()` and `clear()` of an incubator touch the
private after callbacks that may have deleted it.  And one needs `DataBlob` under
`LoaderThread`: a wake-up of `waitForNextMessage()` whose caller leaves its loop
because its file failed meanwhile (`qqmlthread.cpp:429`).

## 10. What is only model-checked, and what is not modelled

Proved for every value of the constants are all invariants that the passing runs
check and all their action properties: `ExposeWaitsForFrame`, `CallReturnsLoaded`,
`SetErrorOnceUnlessCyclic`, `ReadyIsWhole` and `NoNeedlessUpdate`, under the
assumptions named in the tables and paragraphs above.  Only TLC checks:

* the liveness properties (`GuiUnblocks`, `RepaintDrawn`, `ChangeSynced`,
  `LoadsReported`, `MainReturns`, `LoadsFinish`, `LoadsAnswered`, `CacheExpires`,
  `CallsReturn`, `Completes`), for which the prover has no fairness and no `ENABLED`.

Not modelled: rendering itself, polishing and item trees; animators and the
animation driver; the contents of files, their compilation and the disk cache;
redirects, progress reports and directory caches; destruction of blobs;
memory-order effects, every access to a shared variable being atomic and
sequentially consistent.  Most of the repository is not a protocol: the item
types, styles, layout, the JavaScript engine and compiler, the renderers and the
tools are computations on one thread whose data a model of explicit states does
not reach, so the modules cover a small part of its lines, the part where steps
of several actors meet.

## 11. Plan

Done in the order of importance: the render loop (1), its proofs and refinement
(2), the loader thread (3), the data blobs (4), the pixmap cache (5), incubators
(6), bindings (7), and the proofs about all of them.  Next:

1. **Loader thread on top of data blobs**, and an abstract specification of the
   loader, "asked for, then loaded after what it needs, then reported".
2. **Plugin importer**: several engines' loader threads and the process-wide
   registry.  **Animators**, with `ThreadedRenderLoop`: jobs change hands only
   during the sync.  **Worker scripts**, and the **list compositor** as pure
   operators against a reference definition.
