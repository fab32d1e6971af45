----------------------------- MODULE LoaderThread -----------------------------
(***************************************************************************)
(* The QML loader thread and the main thread of one engine: how            *)
(* QQmlTypeLoader and QQmlTypeLoaderThread use QQmlThread to load files in *)
(* the background, and what they promise.                                  *)
(*                                                                         *)
(* Source: qml/qml/qqmltypeloader.cpp, qml/qml/qqmltypeloaderthread.cpp.   *)
(* Here a load is one file: what it depends on is in DataBlob.             *)
(***************************************************************************)
EXTENDS QmlThread

CONSTANTS
  Remote,    \* loads that end only with a network reply, their own or that of
             \* something they import
  Plugins,   \* loads that import a plugin: it is initialized in the main thread
  Calls      \* what the application does

CallKinds ==
  {"async", "sync", "await", "close",
   "nested",     \* calls from a completed() callback
   "eventLoop",  \* event loops run from a completed() callback
   "closing",    \* calls from a completed() callback that shutdown() runs
   "initLoads"}  \* calls from a plugin's initializeEngine()

ASSUME LoaderAssumption ==
  /\ NoLoad \notin Loads
  /\ Remote \subseteq Loads /\ Plugins \subseteq Loads /\ Calls \subseteq CallKinds

VARIABLES
  status,       \* QQmlDataBlob::status(): new (not asked for), loading, network
                \* (waiting for a reply), done (complete or in error)
  cur,          \* the load the loader thread works on
  reply,        \* it does so in a network reply, not in a message
  initialized,  \* plugins initialized for this engine
  reported      \* completed() callbacks run on the main thread

loadVars == <<status, cur, reply, initialized, reported>>
vars == <<threadVars, loadVars>>

Init ==
  /\ threadList = <<>> /\ mainList = <<>> /\ mainSync = NoLoad
  /\ threadProcessing = FALSE /\ mainProcessing = FALSE
  /\ shutdown = FALSE /\ mainThreadWaiting = FALSE
  /\ threadEvents = 0 /\ mainEvents = 0
  /\ asleep = {"main"} /\ exiting = FALSE           \* startup() waits for run()
  /\ main = <<Plain("startup")>> /\ loader = "start"
  /\ status = [l \in Loads |-> "new"]
  /\ cur = NoLoad /\ reply = FALSE /\ initialized = {}
  /\ reported = [l \in Loads |-> 0]

-----------------------------------------------------------------------------
(* The main thread.                                                        *)

Idle == main = <<>> /\ ~shutdown
InCompleted == MainRuns("handler") /\ ~Head(main).sync
InInitialize == MainRuns("handler") /\ Head(main).sync

CanCall ==
  \/ Idle
  \/ InCompleted /\ "nested" \in Calls /\ (shutdown => "closing" \in Calls)
  \/ InInitialize /\ "initLoads" \in Calls /\ ~shutdown

\* doLoad(), from another thread than the loader thread.
StartLoading(l) ==
  /\ CanCall /\ status[l] = "new"
  /\ status' = [status EXCEPT ![l] = "loading"]
  /\ UNCHANGED <<cur, reply, initialized, reported>>

LoadAsync(l) ==
  /\ "async" \in Calls
  /\ StartLoading(l) /\ PostMethodToThread(l)

\* waits: mode Synchronous; otherwise PreferSynchronous.
LoadSync(l, waits) ==
  /\ "sync" \in Calls
  /\ StartLoading(l) /\ CallMethodInThread(l, waits)

\* getType() of a file that an asynchronous load is already fetching.
Await(l) ==
  /\ "await" \in Calls /\ CanCall
  /\ status[l] \in {"loading", "network"}
  /\ main' = <<Frame("await", l, FALSE)>> \o main
  /\ UNCHANGED <<flagVars, listVars, eventVars, asleep, exiting, loader, loadVars>>

AwaitTest ==
  /\ MainRuns("await")
  /\ LET l == Head(main).load IN
     main' = IF status[l] = "done" THEN Tail(main)
             ELSE <<Frame("enter", l, FALSE)>> \o Tail(main)
  /\ UNCHANGED <<flagVars, listVars, eventVars, asleep, exiting, loader, loadVars>>

\* callCompletedMain() runs completed(); the other messages are initializeEngine().
HandlerReturns ==
  /\ MessageReturns
  /\ reported' = IF Head(main).sync THEN reported
                 ELSE [reported EXCEPT ![Head(main).load] = @ + 1]
  /\ UNCHANGED <<status, cur, reply, initialized>>

EventLoopMain ==
  /\ Idle \/ (InCompleted /\ "eventLoop" \in Calls /\ ~shutdown)
  /\ DeliverMainEvent
  /\ UNCHANGED loadVars

\* The engine is destroyed.
Close == "close" \in Calls /\ Idle /\ Shutdown /\ UNCHANGED loadVars

MainProgress ==
  \/ CallResumes /\ UNCHANGED loadVars
  \/ EnterWait /\ UNCHANGED loadVars
  \/ WaitResumes /\ UNCHANGED loadVars
  \/ MainEvent /\ UNCHANGED loadVars
  \/ StartupReturns /\ UNCHANGED loadVars
  \/ ShutdownResumes /\ UNCHANGED loadVars
  \/ Join /\ UNCHANGED loadVars
  \/ AwaitTest
  \/ HandlerReturns

MainCall ==
  \/ \E l \in Loads :
       LoadAsync(l) \/ Await(l) \/ \E waits \in BOOLEAN : LoadSync(l, waits)
  \/ Close

-----------------------------------------------------------------------------
(* The loader thread.                                                      *)

\* loadThread() gives up after shutdown; the flag is read without the lock.
LoadThread ==
  /\ loader = "load"
  /\ cur' = Head(threadList)
  /\ \/ /\ shutdown
        /\ status' = [status EXCEPT ![Head(threadList)] = "done"]
        /\ loader' = "complete"
     \/ /\ ~shutdown
        /\ loader' = "data" /\ UNCHANGED status
  /\ UNCHANGED <<reply, initialized, reported, flagVars, listVars, eventVars, asleep,
                 exiting, main>>

\* An import loads its plugin and has it initialized.
InitializeEngine ==
  /\ loader = "data" /\ cur \in Plugins \ initialized
  /\ initialized' = initialized \cup {cur}
  /\ CallMethodInMain(cur)
  /\ UNCHANGED <<status, cur, reply, reported>>

\* setData() is over: the file is done, or waits for the network.
SetData ==
  /\ loader \in {"data", "resumed"}
  /\ \/ /\ cur \in Remote /\ ~reply
        /\ status' = [status EXCEPT ![cur] = "network"] /\ loader' = "finish"
     \/ /\ cur \notin Remote \/ reply
        /\ status' = [status EXCEPT ![cur] = "done"] /\ loader' = "complete"
  /\ UNCHANGED <<cur, reply, initialized, reported, flagVars, listVars, eventVars, asleep,
                 exiting, main>>

CallCompleted ==
  /\ loader = "complete" /\ loader' = "finish"
  /\ PostMethodToMain(cur)
  /\ UNCHANGED loadVars

MessageDone ==
  /\ loader = "finish" /\ ~reply
  /\ ThreadLoop(Tail(threadList))
  /\ UNCHANGED loadVars

ReplyDone ==
  /\ loader = "finish" /\ reply
  /\ loader' = "loop" /\ reply' = FALSE
  /\ UNCHANGED <<flagVars, listVars, eventVars, asleep, exiting, main,
                 status, cur, initialized, reported>>

NetworkReplyFinished(l) ==
  /\ loader = "loop" /\ status[l] = "network"
  /\ loader' = "data" /\ cur' = l /\ reply' = TRUE
  /\ UNCHANGED <<flagVars, listVars, eventVars, asleep, exiting, main,
                 status, initialized, reported>>

LoaderProgress ==
  \/ RunStart /\ UNCHANGED loadVars
  \/ ThreadEvent /\ UNCHANGED loadVars
  \/ CallMainResumes /\ UNCHANGED loadVars
  \/ LeaveExec /\ UNCHANGED loadVars
  \/ LoadThread \/ InitializeEngine \/ SetData \/ CallCompleted
  \/ MessageDone \/ ReplyDone

EventLoopLoader == DeliverThreadEvent /\ UNCHANGED loadVars

Next ==
  \/ MainCall \/ MainProgress \/ EventLoopMain
  \/ LoaderProgress \/ EventLoopLoader
  \/ \E l \in Loads : NetworkReplyFinished(l)

Spec == Init /\ [][Next]_vars

(* Both threads go on when they can, their event loops deliver what is     *)
(* posted to them, and a network request is answered, be it by an error.   *)
Fairness ==
  /\ WF_vars(MainProgress) /\ WF_vars(LoaderProgress)
  /\ SF_vars(EventLoopMain) /\ SF_vars(EventLoopLoader)
  /\ \A l \in Loads : SF_vars(NetworkReplyFinished(l))

FairSpec == Spec /\ Fairness

-----------------------------------------------------------------------------
\* Type invariant: what each variable may hold.
TypeOK ==
  /\ threadList \in Seq(Loads) /\ mainList \in Seq(Loads)
  /\ mainSync \in Loads \cup {NoLoad}
  /\ threadProcessing \in BOOLEAN /\ mainProcessing \in BOOLEAN
  /\ shutdown \in BOOLEAN /\ mainThreadWaiting \in BOOLEAN
  /\ threadEvents \in Nat /\ mainEvents \in Nat
  /\ asleep \subseteq Threads /\ exiting \in BOOLEAN
  /\ main \in Seq(Frames) /\ loader \in LoaderPcs
  /\ status \in [Loads -> {"new", "loading", "network", "done"}]
  /\ cur \in Loads \cup {NoLoad} /\ reply \in BOOLEAN
  /\ initialized \subseteq Loads /\ reported \in [Loads -> Nat]

\* Every variable keeps its type; and callMethodInMain() is synchronous: while the
\* main thread runs its message, once, the loader thread sleeps in the call and the
\* message is alive, whatever wakes it up.
SyncCallBlocksLoader ==
  /\ TypeOK
  /\ \A i \in 1..Len(main) : main[i].at = "handler" /\ main[i].sync =>
       /\ loader = "callMain" /\ "loader" \in asleep /\ mainSync = main[i].load
       /\ \A j \in 1..Len(main) : main[j].at = "handler" /\ main[j].sync => i = j

Calling(l) == \E i \in 1..Len(main) : main[i].at = "call" /\ main[i].load = l

\* callMethodInThread() "synchronously invokes": it returns only when the load has
\* been processed.
CallReturnsLoaded ==
  [][\A l \in Loads : Calling(l) /\ ~Calling(l)' => status'[l] \in {"network", "done"}]_vars

\* Every load that was asked for is reported, unless the engine goes away.
LoadsReported == \A l \in Loads : status[l] # "new" ~> reported[l] = 1 \/ shutdown

\* Every operation of the main thread ends, with the engine's destruction too.
MainReturns == main # <<>> ~> main = <<>>

=============================================================================
