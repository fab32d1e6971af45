------------------------------- MODULE QmlThread -------------------------------
(***************************************************************************)
(* QQmlThread: how the engine's thread ("main") and the QML loader thread  *)
(* call and post methods to one another, under one mutex and one wait      *)
(* condition that both of them sleep on.                                   *)
(*                                                                         *)
(* Source: qml/qml/ftw/qqmlthread.cpp.  A region of the code between a     *)
(* lock() and the next unlock() or wait() is one step here.  What a        *)
(* message does when it is called is left to LoaderThread, the clients.    *)
(***************************************************************************)
EXTENDS Integers, Sequences, FiniteSets

CONSTANTS
  Loads,      \* the QQmlDataBlobs the main thread asks for, also the messages
  NoLoad

VARIABLES
  \* QQmlThreadPrivate
  threadList,        \* messages for the loader thread: loads
  mainList,          \* messages for the main thread: completed() callbacks
  mainSync,          \* the load whose initializeEngine() call waits, or NoLoad
  threadProcessing, mainProcessing, shutdown, mainThreadWaiting,
  threadEvents, mainEvents,  \* QEvent::User posted and not yet delivered
  asleep,            \* the threads in _wait.wait()
  exiting,           \* quit() was called on the loader thread's event loops
  \* Where the two threads are.
  main,              \* call stack of the main thread, innermost frame first
  loader             \* what the loader thread does next

flagVars == <<threadProcessing, mainProcessing, shutdown, mainThreadWaiting>>
listVars == <<threadList, mainList, mainSync>>
eventVars == <<threadEvents, mainEvents>>
threadVars == <<flagVars, listVars, eventVars, asleep, exiting, main, loader>>

Threads == {"main", "loader"}

(* Frames of the main thread: startup(), mainEvent(), a message being      *)
(* called, callMethodInThread(), doLoad()'s waiting loop (at its test, or  *)
(* about to enter waitForNextMessage()), waitForNextMessage(), shutdown()  *)
(* and the join in it.  sync marks a message that is mainSync, and a       *)
(* call whose caller goes on to wait until its load is done.               *)
FrameKinds == {"startup", "event", "handler", "call", "await", "enter", "next",
               "shutdown", "join"}
Frame(at, load, sync) == [at |-> at, load |-> load, sync |-> sync]
Frames == [at : FrameKinds, load : Loads \cup {NoLoad}, sync : BOOLEAN]
Plain(at) == Frame(at, NoLoad, FALSE)

LoaderPcs == {"start", "loop", "event", "load", "data", "callMain", "resumed",
              "complete", "finish", "finished"}

MainRuns(at) == main # <<>> /\ Head(main).at = at /\ "main" \notin asleep

-----------------------------------------------------------------------------
\* wakeOne(): one of the sleeping threads, if any, goes on.
WakeOne(sleepers) ==
  IF sleepers = {} THEN {{}} ELSE {sleepers \ {t} : t \in sleepers}

TriggerThreadEvent == threadEvents' = threadEvents + 1
TriggerMainEvent == mainEvents' = mainEvents + 1

\* Appending to threadList posts an event unless one is due or being handled.
TriggerUnlessBusy ==
  IF threadList = <<>> /\ ~threadProcessing
  THEN TriggerThreadEvent ELSE UNCHANGED threadEvents
AppendToThread(l) == threadList' = Append(threadList, l) /\ TriggerUnlessBusy

-----------------------------------------------------------------------------
(* Loops of the main thread, entered with the lock held, the stack under   *)
(* them in rest; sync is what mainSync is at that point, sleepers who is   *)
(* asleep.                                                                 *)

\* mainEvent(): the next message, or the end.  The flag is set on entry only, so that
\* a nested mainEvent() leaves its callers with the flag reset.
StaysBusy(rest, sync, processing) ==                 \* mutant: flag not reset
  /\ UNCHANGED <<shutdown, threadProcessing, mainThreadWaiting, threadList>>
  /\ mainProcessing' = TRUE
  /\ \/ /\ sync # NoLoad
        /\ main' = <<Frame("handler", sync, TRUE), Plain("event")>> \o rest
        /\ UNCHANGED mainList
     \/ /\ sync = NoLoad /\ mainList # <<>>
        /\ main' = <<Frame("handler", Head(mainList), FALSE), Plain("event")>> \o rest
        /\ mainList' = Tail(mainList)
     \/ sync = NoLoad /\ mainList = <<>> /\ main' = rest /\ UNCHANGED mainList
MainLoop(rest, sync, processing) ==
  /\ UNCHANGED <<shutdown, threadProcessing, mainThreadWaiting, threadList>>
  /\ \/ /\ sync # NoLoad
        /\ main' = <<Frame("handler", sync, TRUE), Plain("event")>> \o rest
        /\ mainProcessing' = processing /\ UNCHANGED mainList
     \/ /\ sync = NoLoad /\ mainList # <<>>
        /\ main' = <<Frame("handler", Head(mainList), FALSE), Plain("event")>> \o rest
        /\ mainProcessing' = processing /\ mainList' = Tail(mainList)
     \/ /\ sync = NoLoad /\ mainList = <<>>
        /\ main' = rest
        /\ mainProcessing' = FALSE /\ UNCHANGED mainList

\* callMethodInThread(): serve mainSync, wait, or return when all is processed.
CallLoop(frame, rest, sync, list, sleepers, waiting) ==
  /\ UNCHANGED <<shutdown, threadProcessing, mainProcessing, mainList>>
  /\ \/ /\ sync # NoLoad
        /\ main' = <<Frame("handler", sync, TRUE), frame>> \o rest
        /\ mainThreadWaiting' = waiting /\ asleep' = sleepers
     \/ /\ sync = NoLoad /\ list # <<>>
        /\ main' = <<frame>> \o rest
        /\ mainThreadWaiting' = waiting /\ asleep' = sleepers \cup {"main"}
     \/ /\ sync = NoLoad /\ list = <<>>
        /\ main' = IF frame.sync THEN <<Frame("await", frame.load, FALSE)>> \o rest
                   ELSE rest
        /\ mainThreadWaiting' = FALSE /\ asleep' = sleepers

CallMethodInThread(l, waits) ==
  /\ AppendToThread(l)
  /\ CallLoop(Frame("call", l, waits), main, mainSync, threadList', asleep, TRUE)
  /\ UNCHANGED <<mainSync, mainEvents, exiting, loader>>

PostMethodToThread(l) ==
  /\ AppendToThread(l)
  /\ UNCHANGED <<flagVars, mainList, mainSync, mainEvents, asleep, exiting, main, loader>>

CallReturnsWoken ==                                  \* mutant: waits only once
  /\ MainRuns("call")
  /\ main' = Tail(main) /\ mainThreadWaiting' = FALSE
  /\ UNCHANGED <<shutdown, threadProcessing, mainProcessing, listVars, eventVars,
                 asleep, exiting, loader>>
CallResumes ==
  /\ MainRuns("call")
  /\ CallLoop(Head(main), Tail(main), mainSync, threadList, asleep,
              mainThreadWaiting)
  /\ UNCHANGED <<threadList, mainSync, eventVars, exiting, loader>>

\* waitForNextMessage() serves mainSync or waits once; with nothing to wait for it
\* returns at once, and its caller spins.
EnterWait ==
  /\ MainRuns("enter")
  /\ LET load == Head(main).load IN
     \/ /\ mainSync # NoLoad
        /\ main' = <<Frame("handler", mainSync, TRUE), Frame("next", load, FALSE)>>
                     \o Tail(main)
        /\ mainThreadWaiting' = TRUE /\ UNCHANGED asleep
     \/ /\ mainSync = NoLoad /\ threadList # <<>>
        /\ main' = <<Frame("next", load, FALSE)>> \o Tail(main)
        /\ mainThreadWaiting' = TRUE /\ asleep' = asleep \cup {"main"}
     \/ /\ mainSync = NoLoad /\ threadList = <<>>
        /\ main' = <<Frame("await", load, FALSE)>> \o Tail(main)
        /\ mainThreadWaiting' = FALSE /\ UNCHANGED asleep
  /\ UNCHANGED <<shutdown, threadProcessing, mainProcessing, listVars, eventVars,
                 exiting, loader>>

WaitResumes ==
  /\ MainRuns("next")
  /\ main' = <<Frame("await", Head(main).load, FALSE)>> \o Tail(main)
  /\ mainThreadWaiting' = FALSE
  /\ UNCHANGED <<shutdown, threadProcessing, mainProcessing, listVars, eventVars,
                 asleep, exiting, loader>>

DeliverMainEvent ==
  /\ mainEvents > 0 /\ mainEvents' = mainEvents - 1
  /\ main' = <<Plain("event")>> \o main
  /\ UNCHANGED <<flagVars, listVars, threadEvents, asleep, exiting, loader>>

TakesSync ==                                         \* mutant: slot freed before the call
  /\ MainRuns("event")
  /\ MainLoop(Tail(main), mainSync, TRUE) /\ mainSync' = NoLoad
  /\ UNCHANGED <<eventVars, asleep, exiting, loader>>
MainEvent ==
  /\ MainRuns("event")
  /\ MainLoop(Tail(main), mainSync, TRUE)
  /\ UNCHANGED <<mainSync, eventVars, asleep, exiting, loader>>

\* A message called by the main thread returns: to the loop that called it.
MessageReturns ==
  /\ MainRuns("handler")
  /\ LET frame == main[2]
         rest == Tail(Tail(main)) IN
     \/ /\ ~Head(main).sync /\ frame.at = "event"
        /\ MainLoop(rest, mainSync, mainProcessing)
        /\ UNCHANGED <<mainSync, asleep>>
     \/ /\ Head(main).sync
        /\ mainSync' = NoLoad
        /\ \E sleepers \in WakeOne(asleep) :
             \/ /\ frame.at = "event"
                /\ MainLoop(rest, NoLoad, mainProcessing) /\ asleep' = sleepers
             \/ /\ frame.at = "call"
                /\ CallLoop(frame, rest, NoLoad, threadList, sleepers, mainThreadWaiting)
                /\ UNCHANGED threadList
             \/ /\ frame.at = "next"
                /\ main' = <<Frame("await", frame.load, FALSE)>> \o rest
                /\ mainThreadWaiting' = FALSE /\ asleep' = sleepers
                /\ UNCHANGED <<shutdown, threadProcessing, mainProcessing,
                               threadList, mainList>>
  /\ UNCHANGED <<eventVars, exiting, loader>>

-----------------------------------------------------------------------------
(* startup() and shutdown().                                               *)

StartupReturns ==
  /\ MainRuns("startup")
  /\ main' = Tail(main)
  /\ UNCHANGED <<flagVars, listVars, eventVars, asleep, exiting, loader>>

\* shutdown()'s loop: run what is there for the main thread, wait until the loader
\* thread has nothing left, then tell it to go.
ShutdownLoop(rest) ==
  \/ /\ mainSync # NoLoad \/ mainList # <<>>
     /\ main' = <<Plain("event"), Plain("shutdown")>> \o rest
     /\ UNCHANGED <<threadEvents, asleep, exiting>>
  \/ /\ mainSync = NoLoad /\ mainList = <<>> /\ threadList # <<>>
     /\ main' = <<Plain("shutdown")>> \o rest
     /\ asleep' = asleep \cup {"main"}
     /\ UNCHANGED <<threadEvents, exiting>>
  \/ /\ mainSync = NoLoad /\ mainList = <<>> /\ threadList = <<>>
     /\ main' = <<Plain("join")>> \o rest
     /\ \/ exiting' = TRUE /\ UNCHANGED threadEvents  \* QCoreApplication::closingDown()
        \/ TriggerThreadEvent /\ UNCHANGED exiting
     /\ UNCHANGED asleep

Shutdown ==
  /\ ~shutdown /\ shutdown' = TRUE
  /\ ShutdownLoop(main)
  /\ UNCHANGED <<threadProcessing, mainProcessing, mainThreadWaiting, listVars,
                 mainEvents, loader>>

ShutdownResumes ==
  /\ MainRuns("shutdown")
  /\ ShutdownLoop(Tail(main))
  /\ UNCHANGED <<flagVars, listVars, mainEvents, loader>>

Join ==
  /\ MainRuns("join") /\ loader = "finished"
  /\ main' = Tail(main)
  /\ UNCHANGED <<flagVars, listVars, eventVars, asleep, exiting, loader>>

-----------------------------------------------------------------------------
(* The loader thread.                                                      *)

\* run() wakes startup() and enters the event loop.
RunStart ==
  /\ loader = "start" /\ loader' = "loop"
  /\ asleep' \in WakeOne(asleep)
  /\ UNCHANGED <<flagVars, listVars, eventVars, exiting, main>>

DeliverThreadEvent ==
  /\ loader = "loop" /\ threadEvents > 0
  /\ threadEvents' = threadEvents - 1 /\ loader' = "event"
  /\ UNCHANGED <<flagVars, listVars, mainEvents, asleep, exiting, main>>

\* exec() returns after quit(); shutdownThread() follows.
LeaveExec ==
  /\ loader = "loop" /\ exiting /\ loader' = "finished"
  /\ UNCHANGED <<flagVars, listVars, eventVars, asleep, exiting, main>>

\* threadEvent()'s loop: the next message stays at the head while it is called.
ThreadLoop(list) ==
  /\ threadList' = list
  /\ UNCHANGED <<mainProcessing, shutdown, mainThreadWaiting, mainList, mainSync,
                 eventVars, main>>
  /\ \/ /\ list # <<>>
        /\ threadProcessing' = TRUE /\ loader' = "load"
        /\ UNCHANGED <<asleep, exiting>>
     \/ /\ list = <<>> /\ shutdown
        /\ exiting' = TRUE /\ asleep' \in WakeOne(asleep) /\ loader' = "loop"
        /\ UNCHANGED threadProcessing
     \/ /\ list = <<>> /\ ~shutdown
        /\ threadProcessing' = FALSE /\ asleep' \in WakeOne(asleep) /\ loader' = "loop"
        /\ UNCHANGED exiting

ThreadEvent == loader = "event" /\ ThreadLoop(threadList)

\* callMethodInMain(), up to its first wait.
NotifyMain ==
  \/ /\ mainThreadWaiting
     /\ asleep' \in {s \cup {"loader"} : s \in WakeOne(asleep)}
     /\ UNCHANGED mainEvents
  \/ /\ ~mainThreadWaiting
     /\ asleep' = asleep \cup {"loader"}
     /\ IF mainProcessing THEN UNCHANGED mainEvents ELSE TriggerMainEvent

CallMainAnyway(l) ==                                 \* mutant: shutdown not looked at
  /\ mainSync' = l /\ NotifyMain /\ loader' = "callMain"
  /\ UNCHANGED <<flagVars, threadList, mainList, threadEvents, exiting, main>>
CallMethodInMain(l) ==
  /\ \/ /\ ~shutdown
        /\ mainSync' = l /\ NotifyMain /\ loader' = "callMain"
     \/ /\ shutdown                  \* the message is deleted at once
        /\ loader' = "resumed"
        /\ UNCHANGED mainSync
        /\ \E s \in WakeOne(asleep) : asleep' = IF mainThreadWaiting THEN s ELSE asleep
        /\ IF mainThreadWaiting \/ mainProcessing
           THEN UNCHANGED mainEvents ELSE TriggerMainEvent
  /\ UNCHANGED <<flagVars, threadList, mainList, threadEvents, exiting, main>>

\* Its loop, after a wake-up.
CallMainResumes ==
  /\ loader = "callMain" /\ "loader" \notin asleep
  /\ UNCHANGED <<flagVars, threadList, mainList, eventVars, exiting, main>>
  /\ \/ /\ mainSync = NoLoad \/ shutdown
        /\ mainSync' = NoLoad /\ loader' = "resumed" /\ UNCHANGED asleep
     \/ /\ mainSync # NoLoad /\ ~shutdown
        /\ asleep' = asleep \cup {"loader"} /\ UNCHANGED <<mainSync, loader>>

PostMethodToMain(l) ==
  /\ mainList' = Append(mainList, l)
  /\ IF mainList = <<>> /\ ~mainProcessing THEN TriggerMainEvent ELSE UNCHANGED mainEvents
  /\ UNCHANGED <<flagVars, threadList, mainSync, threadEvents, asleep, exiting, main>>

=============================================================================
