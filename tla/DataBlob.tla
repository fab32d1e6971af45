------------------------------- MODULE DataBlob -------------------------------
(***************************************************************************)
(* QQmlDataBlob: the QML files, scripts and qmldir files of an engine, how *)
(* each is loaded, waits for what it depends on and is done.               *)
(*                                                                         *)
(* Source: qml/qml/qqmldatablob.cpp, the parts of qqmltypeloader.cpp that  *)
(* drive it, and the callbacks of qqmltypedata.cpp.  All steps but Request *)
(* and Shutdown are the loader thread's, a call stack of callbacks.        *)
(***************************************************************************)
EXTENDS Integers, FiniteSets, SequencesExt

CONSTANTS
  Blobs, NoBlob,
  ImportEdges,  \* pairs <<b, d>>: b may import the script or qmldir d, known from its data
  TypeEdges,    \* pairs <<b, d>>: b may use the type d, known once its imports are there
  Singletons,   \* files whose type is a composite singleton
  Qmldirs,      \* qmldir files: what they import, their importers import, and so on
  Remote,       \* files that come over the network
  Asked,        \* files the main thread may ask for
  Faulty,       \* files that may be in error
  MayShutdown   \* the engine may be destroyed

ASSUME BlobAssumption ==
  /\ NoBlob \notin Blobs
  /\ ImportEdges \subseteq Blobs \X Blobs /\ TypeEdges \subseteq Blobs \X Blobs
  /\ Singletons \subseteq Blobs /\ Remote \subseteq Blobs /\ Asked \subseteq Blobs
  /\ Faulty \subseteq Blobs /\ MayShutdown \in BOOLEAN
  /\ Qmldirs \subseteq Blobs
  /\ \A e \in TypeEdges : {e[1], e[2]} \cap Qmldirs = {}
  /\ \A e \in ImportEdges, f \in TypeEdges : e[2] # f[1]  \* scripts use no types

VARIABLES
  imports, types,  \* what the files contain: subsets of ImportEdges and TypeEdges
  status,          \* m_data.status(); "waiting": for dependencies or resolving them
  isDone,          \* m_isDone
  waitingFor,      \* m_waitingFor
  waitingOnMe,     \* m_waitingOnMe
  typesResolved,   \* m_typesResolved
  skipped,         \* composite singletons left out of m_compositeSingletons
  errors,          \* calls of setError()
  completed,       \* calls of callCompleted()
  stack,           \* the loader thread's callbacks, innermost first
  threadList,      \* loads the main thread has asked for
  network,         \* files requested from the network
  shutdown,
  quit             \* the loader thread has left its event loop

files == <<imports, types>>
graphVars == <<status, isDone, waitingFor, waitingOnMe, typesResolved, skipped, errors,
               completed>>
vars == <<files, graphVars, stack, threadList, network, shutdown, quit>>

Imports(b) == {d \in Blobs : <<b, d>> \in imports}
Types(b) == {d \in Blobs : <<b, d>> \in types}
OwnImports(b) == IF b \in Qmldirs THEN {} ELSE Imports(b)  \* a qmldir waits for nothing

(* data: in dataReceived().  ready: in notifyComplete().  types: in        *)
(* resolveTypes().  settle: at the tryDone() that follows them.  notify:   *)
(* in notifyAllWaitingOnMe().  todo is the files it still has to look at,  *)
(* dep the one it is getting.                                              *)
FrameKinds == {"data", "ready", "types", "settle", "notify"}
Frame(b, at, todo) == [blob |-> b, at |-> at, todo |-> todo, dep |-> NoBlob]
Frames == [blob : Blobs, at : FrameKinds, todo : SUBSET Blobs, dep : Blobs \cup {NoBlob}]

Top == Head(stack)
At(kind) == stack # <<>> /\ Top.at = kind
InLoop == stack # <<>> /\ Top.at \in {"data", "ready", "types"}

CompleteOrError(b) == status[b] \in {"complete", "error"}

Init ==
  /\ imports \in SUBSET ImportEdges /\ types \in SUBSET TypeEdges
  /\ status = [b \in Blobs |-> "null"]
  /\ isDone = [b \in Blobs |-> FALSE]
  /\ waitingFor = [b \in Blobs |-> {}] /\ waitingOnMe = [b \in Blobs |-> <<>>]
  /\ typesResolved = [b \in Blobs |-> FALSE]
  /\ skipped = [b \in Blobs |-> {}]
  /\ errors = [b \in Blobs |-> 0] /\ completed = [b \in Blobs |-> 0]
  /\ stack = <<>> /\ threadList = <<>> /\ network = {}
  /\ shutdown = FALSE /\ quit = FALSE

-----------------------------------------------------------------------------
(* The main thread.                                                        *)

\* startLoading() and a message for the loader thread.
Request(b) ==
  /\ b \in Asked /\ status[b] = "null" /\ ~shutdown
  /\ status' = [status EXCEPT ![b] = "loading"]
  /\ threadList' = Append(threadList, b)
  /\ UNCHANGED <<files, isDone, waitingFor, waitingOnMe, typesResolved, skipped, errors,
                 completed, stack, network, shutdown, quit>>

Shutdown ==
  /\ MayShutdown /\ ~shutdown /\ shutdown' = TRUE
  /\ UNCHANGED <<files, graphVars, stack, threadList, network, quit>>

-----------------------------------------------------------------------------
(* QQmlDataBlob.                                                           *)

\* setError(): b no longer waits for anything.
StaysOnLists(b) ==                                   \* mutant: removeOne() forgotten
  /\ status' = [status EXCEPT ![b] = "error"]
  /\ errors' = [errors EXCEPT ![b] = @ + 1]
  /\ waitingFor' = [waitingFor EXCEPT ![b] = {}]
  /\ UNCHANGED waitingOnMe
SetError(b) ==
  /\ status' = [status EXCEPT ![b] = "error"]
  /\ errors' = [errors EXCEPT ![b] = @ + 1]
  /\ waitingFor' = [waitingFor EXCEPT ![b] = {}]
  /\ waitingOnMe' = [d \in Blobs |-> IF d \in waitingFor[b] THEN RemoveFirst(waitingOnMe[d], b)
                                    ELSE waitingOnMe[d]]

WaitsForDone(b, d) ==                                \* mutant: d's status not looked at
  IF CompleteOrError(b) \/ isDone[b] \/ d \in waitingFor[b]
  THEN UNCHANGED <<status, waitingFor, waitingOnMe>>
  ELSE /\ waitingFor' = [waitingFor EXCEPT ![b] = @ \cup {d}]
       /\ waitingOnMe' = [waitingOnMe EXCEPT ![d] = Append(@, b)]
       /\ status' = [status EXCEPT ![b] = "waiting"]
AddDependency(b, d) ==
  IF CompleteOrError(d) \/ CompleteOrError(b) \/ isDone[b] \/ d \in waitingFor[b]
  THEN UNCHANGED <<status, waitingFor, waitingOnMe>>
  ELSE /\ waitingFor' = [waitingFor EXCEPT ![b] = @ \cup {d}]
       /\ waitingOnMe' = [waitingOnMe EXCEPT ![d] = Append(@, b)]
       /\ status' = [status EXCEPT ![b] =
            IF \E i \in DOMAIN waitingOnMe'[b] : waitingOnMe'[b][i] = d
            THEN "error" ELSE "waiting"]

\* loadThread(): b's first frame, above the frames in rest.  A reply may be
\* finished at once.
LoadThread(b, rest) ==
  \/ /\ shutdown
     /\ SetError(b) /\ stack' = <<Frame(b, "settle", {})>> \o rest
     /\ UNCHANGED network
  \/ /\ ~shutdown /\ b \in Remote
     /\ network' = network \cup {b} /\ stack' = rest
     /\ status' = [status EXCEPT ![b] = "loading"]
     /\ UNCHANGED <<waitingFor, waitingOnMe, errors>>
  \/ /\ ~shutdown
     /\ stack' = <<Frame(b, "data", OwnImports(b))>> \o rest
     /\ status' = [status EXCEPT ![b] = "loading"]
     /\ UNCHANGED <<waitingFor, waitingOnMe, errors, network>>

\* C has what b imports, and what a complete qmldir in C imports in its turn.
Seen(b, C) ==
  /\ OwnImports(b) \subseteq C
  /\ \A q \in C \cap Qmldirs : status[q] = "complete" => Imports(q) \subseteq C

\* What done() looks at: the dependencies whose errors are b's.
Provided(b) ==
  LET seen == {C \in SUBSET Blobs : Seen(b, C)} IN {d \in Blobs : \A C \in seen : d \in C}
Recorded(b) == ((Provided(b) \cup Types(b)) \ Qmldirs) \ skipped[b]

\* tryDone(): done(), once nothing is waited for; compiling b may fail.
DoneChecksAgain(b) ==                                \* mutant: goes on after an error
  /\ isDone' = [isDone EXCEPT ![b] = TRUE]
  /\ \/ /\ \E d \in Recorded(b) : status[d] = "error"
        /\ status' = [status EXCEPT ![b] = "error"]
        /\ errors' = [errors EXCEPT ![b] = @ + 1]
     \/ /\ \A d \in Recorded(b) : status[d] # "error"
        /\ status' = IF status[b] = "error" THEN status
                     ELSE [status EXCEPT ![b] = "complete"]
        /\ UNCHANGED errors
Done(b) ==
  /\ isDone' = [isDone EXCEPT ![b] = TRUE]
  /\ \/ /\ status[b] = "error"
        /\ UNCHANGED <<status, errors>>
     \/ /\ status[b] # "error"
        /\ b \in Faulty \/ \E d \in Recorded(b) : status[d] = "error"
        /\ status' = [status EXCEPT ![b] = "error"]
        /\ errors' = [errors EXCEPT ![b] = @ + 1]
     \/ /\ status[b] # "error"
        /\ \A d \in Recorded(b) : status[d] # "error"
        /\ status' = [status EXCEPT ![b] = "complete"] /\ UNCHANGED errors

-----------------------------------------------------------------------------
(* The loader thread.                                                      *)

Goto(b, at, todo) == stack' = <<Frame(b, at, todo)>> \o Tail(stack)

TakeMessage ==
  /\ stack = <<>> /\ threadList # <<>>
  /\ threadList' = Tail(threadList)
  /\ LoadThread(Head(threadList), <<>>)
  /\ UNCHANGED <<files, isDone, typesResolved, skipped, completed, shutdown,
                 quit>>

NetworkReplyFinished(b) ==
  /\ stack = <<>> /\ b \in network /\ ~quit
  /\ network' = network \ {b}
  /\ \/ /\ stack' = <<Frame(b, "data", OwnImports(b))>>
        /\ UNCHANGED <<status, waitingFor, waitingOnMe, errors>>
     \/ /\ b \in Faulty                              \* networkError()
        /\ SetError(b) /\ stack' = <<Frame(b, "settle", {})>>
  /\ UNCHANGED <<files, isDone, typesResolved, skipped, completed, threadList, shutdown,
                 quit>>

\* threadEvent() of a thread that has nothing more to do, after shutdown().  The network
\* manager goes, and nobody answers what is still out.
LoaderQuits ==
  /\ shutdown /\ stack = <<>> /\ threadList = <<>> /\ ~quit
  /\ quit' = TRUE
  /\ UNCHANGED <<files, graphVars, stack, threadList, network, shutdown>>

\* getScript(), getType(), getQmldir(): a file nobody has asked for is loaded here and
\* now.  resolveTypes() takes the singletons first.
Gets(d) ==
  /\ InLoop
  /\ IF Top.dep = NoBlob THEN d \in Top.todo ELSE d = Top.dep
  /\ Top.at = "types" /\ d \notin Singletons => Top.todo \cap Singletons = {}

GetUnfinished(d) ==                                  \* mutant: the cache is missed
  /\ Gets(d) /\ status[d] \in {"null", "loading"}
  /\ LoadThread(d, <<[Top EXCEPT !.dep = d]>> \o Tail(stack))
  /\ UNCHANGED <<files, isDone, typesResolved, skipped, completed, threadList, shutdown,
                 quit>>
GetUnknown(d) ==
  /\ Gets(d) /\ status[d] = "null"
  /\ LoadThread(d, <<[Top EXCEPT !.dep = d]>> \o Tail(stack))
  /\ UNCHANGED <<files, isDone, typesResolved, skipped, completed, threadList, shutdown,
                 quit>>

\* A qmldir that is there already brings its own imports along.
GotAlone(d) ==                                       \* mutant: a qmldir's imports forgotten
  stack' = <<[Top EXCEPT !.dep = NoBlob, !.todo = @ \ {d}]>> \o Tail(stack)
Got(d) ==
  stack' = <<[Top EXCEPT !.dep = NoBlob,
                         !.todo = (@ \ {d}) \cup IF d \in Qmldirs /\ status[d] = "complete"
                                                 THEN Imports(d) ELSE {}]>> \o Tail(stack)

\* resolveTypes() does not wait for a singleton that itself waits.
IsCyclicSingleton(b, d) ==
  /\ Top.at = "types" /\ d \in Singletons
  /\ status[d] = "waiting" \/ \E i \in DOMAIN waitingOnMe[b] : waitingOnMe[b][i] = d

SkipSingleton(d) ==
  /\ Gets(d) /\ status[d] # "null" /\ IsCyclicSingleton(Top.blob, d)
  /\ skipped' = [skipped EXCEPT ![Top.blob] = @ \cup {d}]
  /\ Got(d)
  /\ UNCHANGED <<files, status, isDone, waitingFor, waitingOnMe, typesResolved, errors,
                 completed, threadList, network, shutdown, quit>>

GetKnown(d) ==
  /\ Gets(d) /\ status[d] # "null" /\ ~IsCyclicSingleton(Top.blob, d)
  /\ AddDependency(Top.blob, d)
  /\ Got(d)
  /\ UNCHANGED <<files, isDone, typesResolved, skipped, errors, completed, threadList,
                 network, shutdown, quit>>

\* The file cannot be read or compiled, an import or a type not found.
Fail ==
  /\ InLoop /\ Top.dep = NoBlob /\ Top.blob \in Faulty
  /\ SetError(Top.blob)
  /\ Goto(Top.blob, "settle", {})
  /\ typesResolved' = IF Top.at = "types" THEN [typesResolved EXCEPT ![Top.blob] = TRUE]
                      ELSE typesResolved
  /\ UNCHANGED <<files, isDone, skipped, completed, threadList, network, shutdown, quit>>

\* allDependenciesDone()
DependenciesDone(b) ==
  /\ status' = [status EXCEPT ![b] = "waiting"]
  /\ IF typesResolved[b] THEN Goto(b, "settle", {}) ELSE Goto(b, "types", Types(b))
  /\ UNCHANGED typesResolved

ReadyForTypes(b) ==
  \/ Top.at = "data" /\ status[b] \notin {"waiting", "error"}
  \/ Top.at = "ready" /\ status[b] # "error" /\ waitingFor[b] = {}

LoopEnds ==
  /\ InLoop /\ Top.todo = {} /\ Top.dep = NoBlob
  /\ LET b == Top.blob IN
     \/ ReadyForTypes(b) /\ DependenciesDone(b)
     \/ /\ Top.at # "types" /\ ~ReadyForTypes(b)
        /\ Goto(b, "settle", {}) /\ UNCHANGED <<status, typesResolved>>
     \/ /\ Top.at = "types"
        /\ typesResolved' = [typesResolved EXCEPT ![b] = TRUE]
        /\ Goto(b, "settle", {}) /\ UNCHANGED status
  /\ UNCHANGED <<files, isDone, waitingFor, waitingOnMe, skipped, errors, completed,
                 threadList, network, shutdown, quit>>

\* The end of setData() and notifyComplete(): tryDone().
Settle ==
  /\ At("settle")
  /\ LET b == Top.blob IN
     \/ /\ waitingFor[b] = {} /\ ~isDone[b]
        /\ Done(b) /\ Goto(b, "notify", {})
     \/ /\ waitingFor[b] # {} \/ isDone[b]
        /\ status' = IF status[b] = "error" THEN status
                     ELSE [status EXCEPT ![b] = "waiting"]
        /\ stack' = Tail(stack)
        /\ UNCHANGED <<isDone, errors>>
  /\ UNCHANGED <<files, waitingFor, waitingOnMe, typesResolved, skipped, completed,
                 threadList, network, shutdown, quit>>

\* notifyAllWaitingOnMe(), notifyComplete() of the last in the list.
NotifyWaiting ==
  /\ At("notify")
  /\ LET b == Top.blob
         list == waitingOnMe[b] IN
     /\ list # <<>>
     /\ LET w == list[Len(list)] IN
        /\ waitingOnMe' = [waitingOnMe EXCEPT ![b] = SubSeq(list, 1, Len(list) - 1)]
        /\ waitingFor' = [waitingFor EXCEPT ![w] = @ \ {b}]
        /\ stack' = <<Frame(w, "ready", IF b \in Qmldirs /\ status[b] = "complete"
                                        THEN Imports(b) ELSE {})>> \o stack
  /\ UNCHANGED <<files, status, isDone, typesResolved, skipped, errors, completed,
                 threadList, network, shutdown, quit>>

CallCompleted ==
  /\ At("notify") /\ waitingOnMe[Top.blob] = <<>>
  /\ completed' = [completed EXCEPT ![Top.blob] = @ + 1]
  /\ stack' = Tail(stack)
  /\ UNCHANGED <<files, status, isDone, waitingFor, waitingOnMe, typesResolved, skipped,
                 errors, threadList, network, shutdown, quit>>

CallbackStep ==
  \/ \E d \in Blobs : GetUnknown(d) \/ SkipSingleton(d) \/ GetKnown(d)
  \/ Fail \/ LoopEnds \/ Settle \/ NotifyWaiting \/ CallCompleted

Next ==
  \/ \E b \in Blobs : Request(b)
  \/ Shutdown
  \/ TakeMessage \/ CallbackStep
  \/ \E b \in Blobs : NetworkReplyFinished(b)
  \/ LoaderQuits

Spec == Init /\ [][Next]_vars

\* The loader thread goes on, and a network request is answered, be it by an error, as
\* long as the thread has its event loop.
Fairness ==
  /\ WF_vars(TakeMessage \/ CallbackStep)
  /\ \A b \in Remote : WF_vars(NetworkReplyFinished(b))

FairSpec == Spec /\ Fairness

-----------------------------------------------------------------------------
Edges == imports \cup types

\* d is in every set that has b and, with a file, all that it leads to in G.
Reaches(G, b, d) ==
  \A C \in SUBSET Blobs : b \in C /\ d \notin C => \E e \in G : e[1] \in C /\ e[2] \notin C

(* A cycle may end when it is closed by the use of a singleton that is     *)
(* loaded for that use, from the file system: by then it waits.            *)
LateSingletons == Singletons \ (Remote \cup Asked)
BlockingEdges == imports \cup {e \in types : e[2] \notin LateSingletons}

\* b leads to a file that leads to itself.
LeadsToCycle(b) ==
  \E e \in BlockingEdges : Reaches(BlockingEdges, e[2], e[1]) /\ Reaches(Edges, b, e[1])

\* Type invariant: what each variable may hold.
TypeOK ==
  /\ imports \subseteq ImportEdges /\ types \subseteq TypeEdges
  /\ status \in [Blobs -> {"null", "loading", "waiting", "complete", "error"}]
  /\ isDone \in [Blobs -> BOOLEAN] /\ typesResolved \in [Blobs -> BOOLEAN]
  /\ waitingFor \in [Blobs -> SUBSET Blobs] /\ waitingOnMe \in [Blobs -> Seq(Blobs)]
  /\ skipped \in [Blobs -> SUBSET Singletons]
  /\ errors \in [Blobs -> Nat] /\ completed \in [Blobs -> Nat]
  /\ stack \in Seq(Frames) /\ threadList \in Seq(Blobs)
  /\ network \subseteq Remote /\ shutdown \in BOOLEAN /\ quit \in BOOLEAN

\* Every variable keeps its type, and the two lists of a wait agree:
\* notifyAllWaitingOnMe() finds itself in the m_waitingFor of each blob it notifies,
\* and nobody waits without being on a list.
WaitsAreMutual ==
  /\ TypeOK
  /\ \A b, d \in Blobs :
       Cardinality({i \in DOMAIN waitingOnMe[d] : waitingOnMe[d][i] = b})
         = IF d \in waitingFor[b] THEN 1 ELSE 0

\* m_inCallback is one flag: no callback of a blob starts inside another one of it,
\* whatever files its loading loads and completes on the way.
NotReentered ==
  \A i, j \in DOMAIN stack : stack[i].blob = stack[j].blob => i = j

\* A blob is complete only with all that it recorded as its dependencies, so that
\* no error of theirs is lost; done() asserts that it finds none unfinished.
CompleteIsWhole ==
  \A b \in Blobs : status[b] = "complete" =>
    \A d \in Recorded(b) : status[d] = "complete"

\* setError() asserts that the blob is not in error yet, which holds but for cycles.
SetErrorOnceUnlessCyclic ==
  [][\A b \in Blobs :
       errors'[b] # errors[b] /\ status[b] = "error" => LeadsToCycle(b)]_vars

\* A file that leads to no cycle is reported once it was asked for, "done() will always
\* eventually be called", unless the engine is destroyed while the file needs one that
\* the network has not delivered.
LoadsFinish ==
  \A b \in Blobs : status[b] # "null" ~>
    \/ completed[b] = 1 \/ LeadsToCycle(b)
    \/ quit /\ \E d \in network : Reaches(Edges, b, d)

=============================================================================
