---------------------------- MODULE DataBlobProofs ----------------------------
(***************************************************************************)
(* DataBlob proved for any files, whatever they use of one another and     *)
(* whichever fail: the types, that the two lists of a wait agree, that no  *)
(* blob is called back while it is in a callback, that what is complete    *)
(* has complete dependencies, and that an error is set once but in cycles. *)
(***************************************************************************)
EXTENDS DataBlob, SequenceLemmas, FiniteSetTheorems

-----------------------------------------------------------------------------
(* The inductive invariant.                                                *)

\* m_waitingOnMe and m_waitingFor are inverse, and no list has a blob twice.
OnList(d, b) == \E i \in DOMAIN waitingOnMe[d] : waitingOnMe[d][i] = b
ListsInv ==
  /\ \A b, d \in Blobs : OnList(d, b) <=> d \in waitingFor[b]
  /\ \A d \in Blobs : \A i, j \in DOMAIN waitingOnMe[d] :
       waitingOnMe[d][i] = waitingOnMe[d][j] => i = j

\* What the loader thread has been asked for or the network has yet to deliver: its
\* loading has not begun.
OnStack(b) == \E i \in DOMAIN stack : stack[i].blob = b
Queued(b) == b \in network \/ \E i \in DOMAIN threadList : threadList[i] = b
Untouched(b) == ~isDone[b] /\ ~typesResolved[b] /\ waitingFor[b] = {} /\ ~OnStack(b)
LoadInv ==
  /\ \A i, j \in DOMAIN threadList : threadList[i] = threadList[j] => i = j
  /\ \A i \in DOMAIN threadList : threadList[i] \notin network
  /\ \A b \in Blobs : Queued(b) => status[b] = "loading" /\ Untouched(b)
  /\ \A b \in Blobs : status[b] = "null" => Untouched(b)
  /\ \A b, d \in Blobs : d \in waitingFor[b] => status[d] # "null"

\* C has b and all that a blob of it waits for, but nothing of an inner frame: the
\* blob of a frame does not wait, however indirectly, for what is completed above it.
Closed(C) == \A b \in C : waitingFor[b] \subseteq C
Apart(i, C) ==
  /\ stack[i].blob \in C /\ Closed(C)
  /\ \A j \in 1 .. i - 1 : stack[j].blob \notin C
ApartInv == \A i \in DOMAIN stack : \E C \in SUBSET Blobs : Apart(i, C)

\* What a blob has done when it is in a callback.
FrameOk(f) ==
  /\ f.at = "notify" <=> isDone[f.blob]
  /\ f.dep # NoBlob => f.dep \in f.todo
  /\ f.at \in {"settle", "notify"} => f.todo = {}
  /\ f.at = "types" => f.todo \subseteq Types(f.blob)
  /\ f.at = "data" /\ status[f.blob] = "waiting" => waitingFor[f.blob] # {}
  /\ f.at = "settle" =>
       status[f.blob] = "error" \/ waitingFor[f.blob] # {} \/ typesResolved[f.blob]
FrameInv == \A i \in DOMAIN stack : FrameOk(stack[i])

\* What tryDone() has made of a blob.
DoneOk(b) ==
  /\ isDone[b] => waitingFor[b] = {} /\ CompleteOrError(b)
  /\ status[b] = "complete" => isDone[b]
  /\ skipped[b] \cap Qmldirs = {}
DoneInv == \A b \in Blobs : DoneOk(b)

\* No dependency of b is forgotten: it is done, waited for or yet to be looked at.
OnTodo(b, d) == \E i \in DOMAIN stack : stack[i].blob = b /\ d \in stack[i].todo
Tracked(b, d) == CompleteOrError(d) \/ d \in waitingFor[b] \/ OnTodo(b, d)
InTypes(b) == \E i \in DOMAIN stack : stack[i].blob = b /\ stack[i].at = "types"
Begun(b) == status[b] \notin {"null", "error"} /\ ~Queued(b)
SeenQmldir(b, q) == status[q] = "complete" /\ q \notin waitingFor[b] /\ ~OnTodo(b, q)
TracksIn(b, C) ==
  /\ OwnImports(b) \subseteq C
  /\ \A d \in C \ skipped[b] : Tracked(b, d)
  /\ \A q \in C \cap Qmldirs : SeenQmldir(b, q) => Imports(q) \subseteq C
TracksImports(b) == \E C \in SUBSET Blobs : TracksIn(b, C)
TracksTypes(b) ==
  typesResolved[b] \/ InTypes(b) => \A d \in Types(b) \ skipped[b] : Tracked(b, d)
Tracks(b) == TracksImports(b) /\ TracksTypes(b)
TrackInv == \A b \in Blobs : Begun(b) => Tracks(b)

IInv ==
  /\ TypeOK /\ ListsInv /\ LoadInv /\ ApartInv /\ FrameInv /\ DoneInv /\ TrackInv
  /\ CompleteIsWhole

-----------------------------------------------------------------------------
(* Types.                                                                  *)

\* What the files contain does not change.
LEMMA FilesStay == ASSUME [Next]_vars PROVE UNCHANGED files
BY DEF Next, vars, files, Request, Shutdown, LoaderQuits, TakeMessage, NetworkReplyFinished,
       CallbackStep, GetUnknown, SkipSingleton, GetKnown, Fail, LoopEnds, Settle, NotifyWaiting, CallCompleted

LEMMA FrameType ==
  ASSUME NEW b \in Blobs, NEW at \in FrameKinds, NEW todo \in SUBSET Blobs
  PROVE  /\ Frame(b, at, todo) \in Frames
         /\ Frame(b, at, todo).blob = b /\ Frame(b, at, todo).at = at
         /\ Frame(b, at, todo).todo = todo /\ Frame(b, at, todo).dep = NoBlob
BY DEF Frame, Frames

LEMMA FrameFields ==
  ASSUME NEW f \in Frames
  PROVE  f.blob \in Blobs /\ f.at \in FrameKinds /\ f.todo \in SUBSET Blobs
         /\ f.dep \in Blobs \cup {NoBlob}
BY DEF Frames

\* The frame of a loop while dep is loaded, or once it has been looked at.
LEMMA FrameGets ==
  ASSUME NEW f \in Frames, NEW d \in Blobs \cup {NoBlob}, NEW todo \in SUBSET Blobs
  PROVE  /\ LET g == [f EXCEPT !.dep = d] IN
              g \in Frames /\ g.blob = f.blob /\ g.at = f.at /\ g.todo = f.todo /\ g.dep = d
         /\ LET g == [f EXCEPT !.dep = d, !.todo = todo] IN
              g \in Frames /\ g.blob = f.blob /\ g.at = f.at /\ g.todo = todo /\ g.dep = d
BY DEF Frames

LEMMA SetErrorType ==
  ASSUME TypeOK, ListsInv, NEW b \in Blobs, SetError(b)
  PROVE  /\ status' \in [Blobs -> {"null", "loading", "waiting", "complete", "error"}]
         /\ errors' \in [Blobs -> Nat] /\ waitingFor' \in [Blobs -> SUBSET Blobs]
         /\ waitingOnMe' \in [Blobs -> Seq(Blobs)]
<1>1. ASSUME NEW d \in Blobs, d \in waitingFor[b]
      PROVE  RemoveFirst(waitingOnMe[d], b) \in Seq(Blobs)
  <2>1. waitingOnMe[d] \in Seq(Blobs) BY DEF TypeOK
  <2>2. PICK i \in 1 .. Len(waitingOnMe[d]) : waitingOnMe[d][i] = b
    BY <1>1, <2>1 DEF ListsInv, OnList
  <2>3. \A j \in 1 .. Len(waitingOnMe[d]) : waitingOnMe[d][j] = b => j = i
    BY <2>1, <2>2 DEF ListsInv
  <2> QED BY <2>1, <2>2, <2>3, RemovedFirst
<1>2. waitingOnMe' \in [Blobs -> Seq(Blobs)] BY <1>1 DEF SetError, TypeOK
<1> QED BY <1>2 DEF SetError, TypeOK

LEMMA AddDependencyType ==
  ASSUME TypeOK, NEW b \in Blobs, NEW d \in Blobs, AddDependency(b, d)
  PROVE  /\ status' \in [Blobs -> {"null", "loading", "waiting", "complete", "error"}]
         /\ waitingFor' \in [Blobs -> SUBSET Blobs]
         /\ waitingOnMe' \in [Blobs -> Seq(Blobs)]
<1>1. CASE CompleteOrError(d) \/ CompleteOrError(b) \/ isDone[b] \/ d \in waitingFor[b]
  BY <1>1 DEF AddDependency, TypeOK
<1>2. CASE ~(CompleteOrError(d) \/ CompleteOrError(b) \/ isDone[b] \/ d \in waitingFor[b])
  <2>1. waitingOnMe' = [waitingOnMe EXCEPT ![d] = Append(@, b)]
        /\ waitingFor' = [waitingFor EXCEPT ![b] = @ \cup {d}]
    BY <1>2 DEF AddDependency
  <2>2. \E s \in {"error", "waiting"} : status' = [status EXCEPT ![b] = s]
    BY <1>2 DEF AddDependency
  <2>3. Append(waitingOnMe[d], b) \in Seq(Blobs) BY DEF TypeOK
  <2> QED BY <2>1, <2>2, <2>3 DEF TypeOK
<1> QED BY <1>1, <1>2

\* What a step does to the stack.
Pops ==
  /\ stack # <<>> /\ Len(stack') = Len(stack) - 1
  /\ \A i \in 1 .. Len(stack') : stack'[i] = stack[i + 1]
Becomes(f) ==
  /\ stack # <<>> /\ Len(stack') = Len(stack) /\ stack'[1] = f
  /\ \A i \in 2 .. Len(stack) : stack'[i] = stack[i]
Pushes(f, g) ==
  /\ stack # <<>> /\ Len(stack') = Len(stack) + 1 /\ stack'[1] = f /\ stack'[2] = g
  /\ \A i \in 3 .. Len(stack') : stack'[i] = stack[i - 1]
Starts(f) == stack = <<>> /\ Len(stack') = 1 /\ stack'[1] = f

LEMMA TopFacts ==
  ASSUME TypeOK, stack # <<>>
  PROVE  /\ Top \in Frames /\ Top.blob \in Blobs /\ Top.at \in FrameKinds
         /\ Top.todo \in SUBSET Blobs /\ Top.dep \in Blobs \cup {NoBlob}
         /\ Top = stack[1] /\ 1 \in DOMAIN stack /\ DOMAIN stack = 1 .. Len(stack)
         /\ Len(stack) \in Nat \ {0} /\ Tail(stack) \in Seq(Frames)
BY Popped, FrameFields DEF TypeOK, Top

LEMMA PopsIt ==
  ASSUME TypeOK, stack # <<>>, stack' = Tail(stack)
  PROVE  stack' \in Seq(Frames) /\ Pops
BY Popped DEF TypeOK, Pops

LEMMA Replaced ==
  ASSUME NEW S, NEW s \in Seq(S), s # <<>>, NEW f \in S, NEW t, t = <<f>> \o Tail(s)
  PROVE  /\ t \in Seq(S) /\ Len(t) = Len(s) /\ t[1] = f
         /\ \A i \in 2 .. Len(s) : t[i] = s[i]
<1>1. t \in Seq(S) /\ Len(t) = Len(s) /\ t[1] = f OBVIOUS
<1>2. ASSUME NEW i \in 2 .. Len(s) PROVE t[i] = s[i] 
  <2>1. t[i] = Tail(s)[i - 1] BY Pushed, Popped
  <2> QED BY <2>1, Popped
<1> QED BY <1>1, <1>2

LEMMA Stacked ==
  ASSUME NEW S, NEW s \in Seq(S), s # <<>>, NEW f \in S, NEW g \in S, NEW t,
         t = <<f>> \o (<<g>> \o Tail(s))
  PROVE  /\ t \in Seq(S) /\ Len(t) = Len(s) + 1 /\ t[1] = f /\ t[2] = g
         /\ \A i \in 3 .. Len(t) : t[i] = s[i - 1]
<1> DEFINE r == <<g>> \o Tail(s)
<1>1. r \in Seq(S) /\ Len(r) = Len(s) /\ r[1] = g /\ \A i \in 2 .. Len(s) : r[i] = s[i]
  BY Replaced
<1>2. t = <<f>> \o r OBVIOUS
<1> HIDE DEF r
<1>3. /\ t \in Seq(S) /\ Len(t) = Len(r) + 1 /\ t[1] = f
      /\ \A i \in 2 .. Len(t) : t[i] = r[i - 1]
  BY <1>1, <1>2
<1> QED BY <1>1, <1>3

LEMMA BecomesIt ==
  ASSUME TypeOK, stack # <<>>, NEW f \in Frames, stack' = <<f>> \o Tail(stack)
  PROVE  stack' \in Seq(Frames) /\ Becomes(f)
<1>1. stack \in Seq(Frames) BY DEF TypeOK
<1> QED BY <1>1, Replaced DEF Becomes

LEMMA PushesIt ==
  ASSUME TypeOK, stack # <<>>, NEW f \in Frames, NEW g \in Frames,
         stack' = <<f>> \o (<<g>> \o Tail(stack))
  PROVE  stack' \in Seq(Frames) /\ Pushes(f, g)
<1>1. stack \in Seq(Frames) BY DEF TypeOK
<1> QED BY <1>1, Stacked DEF Pushes

LEMMA StartsIt ==
  ASSUME stack = <<>>, NEW f \in Frames, stack' = <<f>> \/ stack' = <<f>> \o <<>>
  PROVE  stack' \in Seq(Frames) /\ Starts(f)
<1>1. stack' = <<f>>
  <2>1. <<f>> \o <<>> = <<f>> OBVIOUS
  <2> QED BY <2>1
<1> QED BY <1>1 DEF Starts

\* The first frame of a blob, and what becomes of the blob in any case.
Waiter(d) == [Top EXCEPT !.dep = d]
FirstFrame(f, b) ==
  /\ f = Frame(b, "settle", {}) \/ f = Frame(b, "data", OwnImports(b))
  /\ status' = [status EXCEPT ![b] = IF f.at = "settle" THEN "error" ELSE "loading"]
OnlyWaits(b) == waitingFor' = waitingFor \/ waitingFor' = [waitingFor EXCEPT ![b] = {}]

LEMMA FirstFrameType ==
  ASSUME NEW b \in Blobs, NEW f, FirstFrame(f, b)
  PROVE  /\ f \in Frames /\ f.blob = b /\ f.dep = NoBlob
         /\ \/ /\ f.at = "settle" /\ f.todo = {}
               /\ status' = [status EXCEPT ![b] = "error"]
            \/ /\ f.at = "data" /\ f.todo = OwnImports(b)
               /\ status' = [status EXCEPT ![b] = "loading"]
<1>1. OwnImports(b) \in SUBSET Blobs BY DEF OwnImports, Imports
<1>2. {"settle", "data"} \subseteq FrameKinds BY DEF FrameKinds
<1>3. f = Frame(b, "settle", {}) \/ f = Frame(b, "data", OwnImports(b)) BY DEF FirstFrame
<1>4. /\ f \in Frames /\ f.blob = b /\ f.dep = NoBlob
      /\ \/ f.at = "settle" /\ f.todo = {}
         \/ f.at = "data" /\ f.todo = OwnImports(b)
  BY <1>1, <1>2, <1>3, FrameType
<1> QED BY <1>4 DEF FirstFrame

LEMMA LoadThreadStack ==
  ASSUME TypeOK, NEW b \in Blobs, NEW rest, LoadThread(b, rest)
  PROVE  /\ OnlyWaits(b)
         /\ \/ /\ stack' = rest /\ b \in Remote /\ network' = network \cup {b}
               /\ status' = [status EXCEPT ![b] = "loading"]
            \/ /\ \E f \in Frames : FirstFrame(f, b) /\ stack' = <<f>> \o rest
               /\ UNCHANGED network
<1>1. /\ Frame(b, "settle", {}).at = "settle"
      /\ Frame(b, "data", OwnImports(b)).at = "data"
  BY DEF Frame
<1>2. CASE /\ SetError(b) /\ stack' = <<Frame(b, "settle", {})>> \o rest
           /\ UNCHANGED network
  <2> DEFINE f == Frame(b, "settle", {})
  <2>1. FirstFrame(f, b) /\ OnlyWaits(b) BY <1>1, <1>2 DEF FirstFrame, SetError, OnlyWaits
  <2>2. f \in Frames BY <2>1, FirstFrameType
  <2> QED BY <1>2, <2>1, <2>2
<1>3. CASE /\ stack' = <<Frame(b, "data", OwnImports(b))>> \o rest
           /\ status' = [status EXCEPT ![b] = "loading"]
           /\ UNCHANGED <<waitingFor, waitingOnMe, errors, network>>
  <2> DEFINE f == Frame(b, "data", OwnImports(b))
  <2>1. FirstFrame(f, b) /\ OnlyWaits(b) BY <1>1, <1>3 DEF FirstFrame, OnlyWaits
  <2>2. f \in Frames BY <2>1, FirstFrameType
  <2> QED BY <1>3, <2>1, <2>2
<1>4. CASE /\ b \in Remote /\ network' = network \cup {b} /\ stack' = rest
           /\ status' = [status EXCEPT ![b] = "loading"]
           /\ UNCHANGED <<waitingFor, waitingOnMe, errors>>
  BY <1>4 DEF OnlyWaits
<1> QED BY <1>2, <1>3, <1>4 DEF LoadThread

\* The stack after each action, above the loop that a file is got for.
LEMMA GetUnknownStack ==
  ASSUME TypeOK, NEW d \in Blobs, GetUnknown(d)
  PROVE  /\ stack # <<>> /\ stack' \in Seq(Frames) /\ Waiter(d) \in Frames /\ OnlyWaits(d)
         /\ \/ /\ Becomes(Waiter(d)) /\ d \in Remote /\ network' = network \cup {d}
               /\ status' = [status EXCEPT ![d] = "loading"]
            \/ /\ \E f \in Frames : FirstFrame(f, d) /\ Pushes(f, Waiter(d))
               /\ UNCHANGED network
<1> DEFINE g == Waiter(d)
           rest == <<g>> \o Tail(stack)
<1>1. stack # <<>> BY DEF GetUnknown, Gets, InLoop
<1>2. g \in Frames BY <1>1, TopFacts, FrameGets DEF Waiter
<1>3. LoadThread(d, rest) BY DEF GetUnknown, Waiter
<1>5. ASSUME NEW f \in Frames, stack' = <<f>> \o rest
      PROVE  stack' \in Seq(Frames) /\ Pushes(f, g)
  BY <1>1, <1>2, <1>5, PushesIt
<1>6. /\ OnlyWaits(d)
      /\ \/ /\ stack' = rest /\ d \in Remote /\ network' = network \cup {d}
            /\ status' = [status EXCEPT ![d] = "loading"]
         \/ /\ \E f \in Frames : FirstFrame(f, d) /\ stack' = <<f>> \o rest
            /\ UNCHANGED network
  BY <1>3, LoadThreadStack
<1> HIDE DEF g, rest
<1>7. stack' = rest => stack' \in Seq(Frames) /\ Becomes(g) BY <1>1, <1>2, BecomesIt DEF rest
<1> QED BY <1>1, <1>2, <1>5, <1>6, <1>7 DEF g

LEMMA TakeMessageStack ==
  ASSUME TypeOK, TakeMessage
  PROVE  /\ stack = <<>> /\ threadList # <<>> /\ Head(threadList) \in Blobs
         /\ stack' \in Seq(Frames) /\ OnlyWaits(Head(threadList))
         /\ \/ /\ stack' = <<>> /\ network' = network \cup {Head(threadList)}
               /\ status' = [status EXCEPT ![Head(threadList)] = "loading"]
            \/ /\ \E f \in Frames : FirstFrame(f, Head(threadList)) /\ Starts(f)
               /\ UNCHANGED network
<1>1. stack = <<>> /\ threadList # <<>> /\ LoadThread(Head(threadList), <<>>)
  BY DEF TakeMessage
<1>2. Head(threadList) \in Blobs BY <1>1, Popped DEF TypeOK
<1>3. ASSUME NEW f \in Frames, stack' = <<f>> \o <<>>
      PROVE  stack' \in Seq(Frames) /\ Starts(f)
  BY <1>1, <1>3, StartsIt
<1>4. stack' = <<>> => stack' \in Seq(Frames) OBVIOUS
<1> QED BY <1>1, <1>2, <1>3, <1>4, LoadThreadStack

LEMMA NetworkStack ==
  ASSUME TypeOK, LoadInv, NEW b \in Blobs, NetworkReplyFinished(b)
  PROVE  /\ stack = <<>> /\ stack' \in Seq(Frames) /\ OnlyWaits(b)
         /\ \E f \in Frames : FirstFrame(f, b) /\ Starts(f)
<1>1. stack = <<>> BY DEF NetworkReplyFinished
<1>2. /\ Frame(b, "settle", {}).at = "settle"
      /\ Frame(b, "data", OwnImports(b)).at = "data"
  BY DEF Frame
<1>3. OnlyWaits(b) BY DEF NetworkReplyFinished, SetError, OnlyWaits
<1>4. \E f : FirstFrame(f, b) /\ stack' = <<f>>
  <2>1. CASE /\ SetError(b) /\ stack' = <<Frame(b, "settle", {})>>
    BY <1>2, <2>1 DEF FirstFrame, SetError
  <2>2. CASE /\ stack' = <<Frame(b, "data", OwnImports(b))>>
             /\ UNCHANGED <<status, waitingFor, waitingOnMe, errors>>
    <3>1. status[b] = "loading" BY DEF NetworkReplyFinished, LoadInv, Queued
    <3>2. status' = [status EXCEPT ![b] = "loading"] BY <2>2, <3>1 DEF TypeOK
    <3> QED BY <1>2, <2>2, <3>2 DEF FirstFrame
  <2> QED BY <2>1, <2>2 DEF NetworkReplyFinished
<1>5. PICK f : FirstFrame(f, b) /\ stack' = <<f>> BY <1>4
<1>6. f \in Frames BY <1>5, FirstFrameType
<1>7. stack' \in Seq(Frames) /\ Starts(f) BY <1>1, <1>5, <1>6, StartsIt
<1> QED BY <1>1, <1>3, <1>5, <1>6, <1>7

\* The loop when d has been looked at.
Looked(d) ==
  [Top EXCEPT !.dep = NoBlob,
              !.todo = (@ \ {d}) \cup IF d \in Qmldirs /\ status[d] = "complete"
                                      THEN Imports(d) ELSE {}]
LEMMA GotStack ==
  ASSUME TypeOK, NEW d \in Blobs, Gets(d), Got(d)
  PROVE  /\ stack # <<>> /\ stack' \in Seq(Frames) /\ Looked(d) \in Frames
         /\ Becomes(Looked(d))
         /\ Looked(d).blob = Top.blob /\ Looked(d).at = Top.at /\ Looked(d).dep = NoBlob
         /\ Looked(d).todo = (Top.todo \ {d}) \cup IF d \in Qmldirs /\ status[d] = "complete"
                                                   THEN Imports(d) ELSE {}
<1> DEFINE S == (Top.todo \ {d}) \cup IF d \in Qmldirs /\ status[d] = "complete"
                                      THEN Imports(d) ELSE {}
<1>1. stack # <<>> BY DEF Gets, InLoop
<1>2. Top \in Frames /\ Top.todo \in SUBSET Blobs BY <1>1, TopFacts
<1>3. S \in SUBSET Blobs BY <1>2 DEF Imports
<1>4. Looked(d) = [Top EXCEPT !.dep = NoBlob, !.todo = S] BY <1>2 DEF Looked, Frames
<1> HIDE DEF S
<1>5. /\ Looked(d) \in Frames /\ Looked(d).blob = Top.blob /\ Looked(d).at = Top.at
      /\ Looked(d).dep = NoBlob /\ Looked(d).todo = S
  BY <1>2, <1>3, <1>4 DEF Frames
<1>6. stack' = <<Looked(d)>> \o Tail(stack) BY DEF Got, Looked
<1> QED BY <1>1, <1>5, <1>6, BecomesIt DEF S

LEMMA GotoStack ==
  ASSUME TypeOK, stack # <<>>, NEW at \in FrameKinds, NEW todo \in SUBSET Blobs,
         Goto(Top.blob, at, todo)
  PROVE  /\ stack' \in Seq(Frames) /\ Frame(Top.blob, at, todo) \in Frames
         /\ Becomes(Frame(Top.blob, at, todo))
<1>1. Frame(Top.blob, at, todo) \in Frames BY TopFacts, FrameType
<1> QED BY <1>1, BecomesIt DEF Goto

LEMMA NotifyStack ==
  ASSUME TypeOK, NotifyWaiting
  PROVE  LET b == Top.blob
             w == waitingOnMe[b][Len(waitingOnMe[b])]
             todo == IF b \in Qmldirs /\ status[b] = "complete" THEN Imports(b) ELSE {} IN
         /\ stack # <<>> /\ stack' \in Seq(Frames)
         /\ b \in Blobs /\ waitingOnMe[b] \in Seq(Blobs) /\ waitingOnMe[b] # <<>> /\ w \in Blobs
         /\ Len(waitingOnMe[b]) \in 1 .. Len(waitingOnMe[b])
         /\ todo \in SUBSET Blobs /\ Frame(w, "ready", todo) \in Frames
         /\ Pushes(Frame(w, "ready", todo), Top)
<1> DEFINE b == Top.blob
           w == waitingOnMe[b][Len(waitingOnMe[b])]
           todo == IF b \in Qmldirs /\ status[b] = "complete" THEN Imports(b) ELSE {}
<1>1. stack # <<>> BY DEF NotifyWaiting, At
<1>2. b \in Blobs /\ Top \in Frames BY <1>1, TopFacts
<1>3. waitingOnMe[b] \in Seq(Blobs) BY <1>2 DEF TypeOK
<1>4. waitingOnMe[b] # <<>> BY DEF NotifyWaiting
<1>5. Len(waitingOnMe[b]) \in 1 .. Len(waitingOnMe[b]) /\ w \in Blobs BY <1>3, <1>4
<1>6. todo \in SUBSET Blobs BY DEF Imports
<1>7. stack' = <<Frame(w, "ready", todo)>> \o stack BY DEF NotifyWaiting
<1> HIDE DEF b, w, todo
<1>8. Frame(w, "ready", todo) \in Frames BY <1>5, <1>6, FrameType DEF FrameKinds
<1> DEFINE f == Frame(w, "ready", todo)
<1>9. stack' = <<f>> \o stack BY <1>7
<1>10. f \in Frames BY <1>8
<1> HIDE DEF f
<1>11. stack \in Seq(Frames) BY DEF TypeOK
<1>12. /\ stack' \in Seq(Frames) /\ Len(stack') = Len(stack) + 1 /\ stack'[1] = f
       /\ \A i \in 2 .. Len(stack') : stack'[i] = stack[i - 1]
  BY <1>9, <1>10, <1>11, Pushed
<1>13. stack'[2] = Top BY <1>1, <1>12, TopFacts
<1>14. Pushes(f, Top) BY <1>1, <1>11, <1>12, <1>13 DEF Pushes
<1> QED BY <1>1, <1>2, <1>3, <1>4, <1>5, <1>6, <1>8, <1>12, <1>14 DEF f, b, w, todo

LEMMA SettleStack ==
  ASSUME TypeOK, Settle
  PROVE  /\ stack # <<>> /\ stack' \in Seq(Frames)
         /\ \/ /\ waitingFor[Top.blob] = {} /\ ~isDone[Top.blob] /\ Done(Top.blob)
               /\ Frame(Top.blob, "notify", {}) \in Frames
               /\ Becomes(Frame(Top.blob, "notify", {}))
            \/ /\ waitingFor[Top.blob] # {} \/ isDone[Top.blob]
               /\ status' = IF status[Top.blob] = "error" THEN status
                            ELSE [status EXCEPT ![Top.blob] = "waiting"]
               /\ Pops
               /\ UNCHANGED <<isDone, errors>>
<1>1. stack # <<>> BY DEF Settle, At
<1>2. CASE Done(Top.blob) /\ Goto(Top.blob, "notify", {})
           /\ waitingFor[Top.blob] = {} /\ ~isDone[Top.blob]
  <2>1. "notify" \in FrameKinds /\ {} \in SUBSET Blobs BY DEF FrameKinds
  <2> QED BY <1>1, <1>2, <2>1, GotoStack
<1>3. CASE /\ waitingFor[Top.blob] # {} \/ isDone[Top.blob]
           /\ status' = IF status[Top.blob] = "error" THEN status
                        ELSE [status EXCEPT ![Top.blob] = "waiting"]
           /\ stack' = Tail(stack)
           /\ UNCHANGED <<isDone, errors>>
  BY <1>1, <1>3, PopsIt
<1> QED BY <1>2, <1>3 DEF Settle

LEMMA LoopEndsStack ==
  ASSUME TypeOK, LoopEnds
  PROVE  /\ stack # <<>> /\ stack' \in Seq(Frames)
         /\ \/ /\ ReadyForTypes(Top.blob)
               /\ status' = [status EXCEPT ![Top.blob] = "waiting"] /\ UNCHANGED typesResolved
               /\ \/ /\ typesResolved[Top.blob]
                     /\ Frame(Top.blob, "settle", {}) \in Frames
                     /\ Becomes(Frame(Top.blob, "settle", {}))
                  \/ /\ ~typesResolved[Top.blob]
                     /\ Frame(Top.blob, "types", Types(Top.blob)) \in Frames
                     /\ Becomes(Frame(Top.blob, "types", Types(Top.blob)))
            \/ /\ Top.at # "types" /\ ~ReadyForTypes(Top.blob)
               /\ UNCHANGED <<status, typesResolved>>
               /\ Frame(Top.blob, "settle", {}) \in Frames
               /\ Becomes(Frame(Top.blob, "settle", {}))
            \/ /\ Top.at = "types" /\ UNCHANGED status
               /\ typesResolved' = [typesResolved EXCEPT ![Top.blob] = TRUE]
               /\ Frame(Top.blob, "settle", {}) \in Frames
               /\ Becomes(Frame(Top.blob, "settle", {}))
<1>1. stack # <<>> BY DEF LoopEnds, InLoop
<1>2. Goto(Top.blob, "settle", {}) =>
        /\ stack' \in Seq(Frames) /\ Frame(Top.blob, "settle", {}) \in Frames
        /\ Becomes(Frame(Top.blob, "settle", {}))
  BY <1>1, GotoStack, {} \in SUBSET Blobs DEF FrameKinds
<1>3. Goto(Top.blob, "types", Types(Top.blob)) =>
        /\ stack' \in Seq(Frames) /\ Frame(Top.blob, "types", Types(Top.blob)) \in Frames
        /\ Becomes(Frame(Top.blob, "types", Types(Top.blob)))
  <2>1. Types(Top.blob) \in SUBSET Blobs BY DEF Types
  <2> QED BY <1>1, <2>1, GotoStack DEF FrameKinds
<1>4. CASE ReadyForTypes(Top.blob) /\ DependenciesDone(Top.blob)
  BY <1>1, <1>2, <1>3, <1>4 DEF DependenciesDone
<1>5. CASE /\ Top.at # "types" /\ ~ReadyForTypes(Top.blob)
           /\ Goto(Top.blob, "settle", {}) /\ UNCHANGED <<status, typesResolved>>
  BY <1>1, <1>2, <1>5
<1>6. CASE /\ Top.at = "types"
           /\ typesResolved' = [typesResolved EXCEPT ![Top.blob] = TRUE]
           /\ Goto(Top.blob, "settle", {}) /\ UNCHANGED status
  BY <1>1, <1>2, <1>6
<1> QED BY <1>4, <1>5, <1>6 DEF LoopEnds

LEMMA FailStack ==
  ASSUME TypeOK, Fail
  PROVE  /\ stack # <<>> /\ stack' \in Seq(Frames)
         /\ Frame(Top.blob, "settle", {}) \in Frames
         /\ Becomes(Frame(Top.blob, "settle", {}))
<1>1. stack # <<>> BY DEF Fail, InLoop
<1>2. Goto(Top.blob, "settle", {}) BY DEF Fail
<1> QED BY <1>1, <1>2, GotoStack, {} \in SUBSET Blobs DEF FrameKinds

LEMMA LoadThreadType ==
  ASSUME TypeOK, ListsInv, NEW b \in Blobs, NEW rest, LoadThread(b, rest)
  PROVE  /\ status' \in [Blobs -> {"null", "loading", "waiting", "complete", "error"}]
         /\ errors' \in [Blobs -> Nat] /\ waitingFor' \in [Blobs -> SUBSET Blobs]
         /\ waitingOnMe' \in [Blobs -> Seq(Blobs)] /\ network' \subseteq Remote
<1>1. CASE SetError(b) /\ UNCHANGED network
  BY <1>1, SetErrorType DEF TypeOK
<1>2. CASE /\ status' = [status EXCEPT ![b] = "loading"] /\ network' \subseteq Remote
           /\ UNCHANGED <<waitingFor, waitingOnMe, errors>>
  BY <1>2 DEF TypeOK
<1> QED BY <1>1, <1>2 DEF LoadThread, TypeOK

LEMMA TypesKept == TypeOK /\ ListsInv /\ LoadInv /\ [Next]_vars => TypeOK'
<1> SUFFICES ASSUME TypeOK, ListsInv, LoadInv, [Next]_vars PROVE TypeOK'
  OBVIOUS
<1>0. UNCHANGED files BY FilesStay
<1>1. ASSUME NEW b \in Blobs, Request(b) PROVE TypeOK'
  BY <1>1 DEF TypeOK, Request, files
<1>2. CASE Shutdown \/ LoaderQuits
  BY <1>2 DEF TypeOK, Shutdown, LoaderQuits, files, graphVars
<1>3. CASE TakeMessage
  <2>1. stack' \in Seq(Frames) /\ threadList # <<>> /\ Head(threadList) \in Blobs
        /\ LoadThread(Head(threadList), <<>>)
    BY <1>3, TakeMessageStack DEF TakeMessage
  <2>2. threadList' \in Seq(Blobs) BY <1>3, <2>1, Popped DEF TakeMessage, TypeOK
  <2> QED BY <1>0, <1>3, <2>1, <2>2, LoadThreadType DEF TypeOK, TakeMessage, files
<1>4. ASSUME NEW b \in Blobs, NetworkReplyFinished(b) PROVE TypeOK'
  <2>1. stack' \in Seq(Frames) BY <1>4, NetworkStack
  <2>2. /\ status' \in [Blobs -> {"null", "loading", "waiting", "complete", "error"}]
        /\ errors' \in [Blobs -> Nat] /\ waitingFor' \in [Blobs -> SUBSET Blobs]
        /\ waitingOnMe' \in [Blobs -> Seq(Blobs)]
    BY <1>4, SetErrorType DEF NetworkReplyFinished, TypeOK
  <2> QED BY <1>0, <1>4, <2>1, <2>2 DEF TypeOK, NetworkReplyFinished, files
<1>5. ASSUME NEW d \in Blobs, GetUnknown(d) PROVE TypeOK'
  <2>1. stack' \in Seq(Frames) BY <1>5, GetUnknownStack
  <2>2. \E rest : LoadThread(d, rest) BY <1>5 DEF GetUnknown
  <2> QED BY <1>0, <1>5, <2>1, <2>2, LoadThreadType DEF TypeOK, GetUnknown, files
<1>6. ASSUME NEW d \in Blobs, SkipSingleton(d) PROVE TypeOK'
  <2>1. stack' \in Seq(Frames) BY <1>6, GotStack DEF SkipSingleton
  <2>2. d \in Singletons BY <1>6 DEF SkipSingleton, IsCyclicSingleton
  <2>3. skipped' \in [Blobs -> SUBSET Singletons]
    BY <1>6, <2>2 DEF TypeOK, SkipSingleton
  <2> QED BY <1>0, <1>6, <2>1, <2>3 DEF TypeOK, SkipSingleton, files
<1>7. ASSUME NEW d \in Blobs, GetKnown(d) PROVE TypeOK'
  <2>1. stack # <<>> /\ stack' \in Seq(Frames) BY <1>7, GotStack DEF GetKnown
  <2>2. /\ status' \in [Blobs -> {"null", "loading", "waiting", "complete", "error"}]
        /\ waitingFor' \in [Blobs -> SUBSET Blobs]
        /\ waitingOnMe' \in [Blobs -> Seq(Blobs)]
    BY <1>7, <2>1, TopFacts, AddDependencyType DEF GetKnown
  <2> QED BY <1>0, <1>7, <2>1, <2>2 DEF TypeOK, GetKnown, files
<1>8. CASE Fail
  <2>1. stack # <<>> /\ stack' \in Seq(Frames) BY <1>8, FailStack
  <2>2. Top.blob \in Blobs BY <2>1, TopFacts
  <2>3. /\ status' \in [Blobs -> {"null", "loading", "waiting", "complete", "error"}]
        /\ errors' \in [Blobs -> Nat] /\ waitingFor' \in [Blobs -> SUBSET Blobs]
        /\ waitingOnMe' \in [Blobs -> Seq(Blobs)]
    BY <1>8, <2>2, SetErrorType DEF Fail
  <2>4. typesResolved' \in [Blobs -> BOOLEAN] BY <1>8 DEF TypeOK, Fail
  <2> QED BY <1>0, <1>8, <2>1, <2>3, <2>4 DEF TypeOK, Fail, files
<1>9. CASE LoopEnds
  <2>1. stack' \in Seq(Frames)
        /\ (\/ status' = [status EXCEPT ![Top.blob] = "waiting"]
            \/ status' = status)
        /\ (\/ typesResolved' = [typesResolved EXCEPT ![Top.blob] = TRUE]
            \/ typesResolved' = typesResolved)
    BY <1>9, LoopEndsStack
  <2>2. status' \in [Blobs -> {"null", "loading", "waiting", "complete", "error"}]
        /\ typesResolved' \in [Blobs -> BOOLEAN]
    BY <2>1 DEF TypeOK
  <2> QED BY <1>0, <1>9, <2>1, <2>2 DEF TypeOK, LoopEnds, files
<1>10. CASE Settle
  <2>1. stack' \in Seq(Frames) /\ stack # <<>> BY <1>10, SettleStack
  <2>2. Top.blob \in Blobs BY <2>1, TopFacts
  <2>3. /\ status' \in [Blobs -> {"null", "loading", "waiting", "complete", "error"}]
        /\ errors' \in [Blobs -> Nat] /\ isDone' \in [Blobs -> BOOLEAN]
    <3>1. CASE Done(Top.blob)
      <4>1. /\ isDone' = [isDone EXCEPT ![Top.blob] = TRUE]
            /\ \/ UNCHANGED <<status, errors>>
               \/ /\ status' = [status EXCEPT ![Top.blob] = "error"]
                  /\ errors' = [errors EXCEPT ![Top.blob] = @ + 1]
               \/ status' = [status EXCEPT ![Top.blob] = "complete"] /\ UNCHANGED errors
        BY <3>1 DEF Done
      <4>2. isDone' \in [Blobs -> BOOLEAN] BY <2>2, <4>1 DEF TypeOK
      <4>3. status' \in [Blobs -> {"null", "loading", "waiting", "complete", "error"}]
        BY <2>2, <4>1 DEF TypeOK
      <4>4. errors' \in [Blobs -> Nat]
        <5>1. errors \in [Blobs -> Nat] BY DEF TypeOK
        <5>2. errors[Top.blob] + 1 \in Nat BY <2>2, <5>1
        <5> QED BY <2>2, <4>1, <5>1, <5>2
      <4> QED BY <4>2, <4>3, <4>4
    <3>2. CASE ~Done(Top.blob) BY <1>10, <2>2, <3>2, SettleStack DEF TypeOK
    <3> QED BY <3>1, <3>2
  <2> QED BY <1>0, <1>10, <2>1, <2>3 DEF TypeOK, Settle, files
<1>11. CASE NotifyWaiting
  <2>1. stack' \in Seq(Frames) BY <1>11, NotifyStack
  <2> DEFINE b == Top.blob
             list == waitingOnMe[b]
  <2>2. list \in Seq(Blobs) /\ list # <<>> BY <1>11, NotifyStack
  <2>3. SubSeq(list, 1, Len(list) - 1) \in Seq(Blobs) BY <2>2
  <2>4. /\ waitingOnMe' = [waitingOnMe EXCEPT ![b] = SubSeq(list, 1, Len(list) - 1)]
        /\ waitingFor' = [waitingFor EXCEPT ![list[Len(list)]] = @ \ {b}]
    BY <1>11 DEF NotifyWaiting
  <2>5. waitingOnMe' \in [Blobs -> Seq(Blobs)] /\ waitingFor' \in [Blobs -> SUBSET Blobs]
    <3> HIDE DEF b, list
    <3> QED BY <2>3, <2>4 DEF TypeOK
  <2> QED BY <1>0, <1>11, <2>1, <2>5 DEF TypeOK, NotifyWaiting, files
<1>12. CASE CallCompleted
  <2>1. stack # <<>> BY <1>12 DEF CallCompleted, At
  <2>2. stack' \in Seq(Frames) BY <1>12, <2>1, PopsIt DEF CallCompleted
  <2>3. completed' \in [Blobs -> Nat]
    <3>1. completed' = [completed EXCEPT ![Top.blob] = @ + 1] BY <1>12 DEF CallCompleted
    <3> QED BY <2>1, <3>1, TopFacts DEF TypeOK
  <2> QED BY <1>0, <1>12, <2>2, <2>3 DEF TypeOK, CallCompleted, files
<1>13. CASE UNCHANGED vars
  BY <1>13 DEF TypeOK, vars, files, graphVars
<1> QED
  BY <1>1, <1>2, <1>3, <1>4, <1>5, <1>6, <1>7, <1>8, <1>9, <1>10, <1>11, <1>12, <1>13
     DEF Next, CallbackStep

-----------------------------------------------------------------------------
(* The two lists of a wait.                                                *)

LEMMA SetErrorLists ==
  ASSUME TypeOK, ListsInv, NEW b \in Blobs, SetError(b)
  PROVE  ListsInv'
<1>1. waitingOnMe' \in [Blobs -> Seq(Blobs)] BY SetErrorType
<1>2. waitingFor' = [waitingFor EXCEPT ![b] = {}] /\ waitingFor \in [Blobs -> SUBSET Blobs]
  BY DEF SetError, TypeOK
<1>3. ASSUME NEW d \in Blobs
      PROVE  /\ \A x \in Blobs : OnList(d, x)' <=> OnList(d, x) /\ x # b
             /\ \A i, j \in DOMAIN waitingOnMe'[d] :
                  waitingOnMe'[d][i] = waitingOnMe'[d][j] => i = j
  <2> DEFINE s == waitingOnMe[d]
             t == waitingOnMe'[d]
  <2>1. s \in Seq(Blobs) /\ t \in Seq(Blobs) BY <1>1 DEF TypeOK
  <2>2. \A i, j \in 1 .. Len(s) : s[i] = s[j] => i = j BY <2>1 DEF ListsInv
  <2>3. t = IF d \in waitingFor[b] THEN RemoveFirst(s, b) ELSE s BY DEF SetError
  <2>4. (\E i \in 1 .. Len(s) : s[i] = b) <=> d \in waitingFor[b]
    BY <2>1 DEF ListsInv, OnList
  <2>5. \A x : OnList(d, x) <=> \E i \in 1 .. Len(s) : s[i] = x BY <2>1 DEF OnList
  <2>6. \A x : OnList(d, x)' <=> \E i \in 1 .. Len(t) : t[i] = x BY <2>1 DEF OnList
  <2>7. DOMAIN t = 1 .. Len(t) BY <2>1
  <2> HIDE DEF s, t
  <2>8. CASE d \notin waitingFor[b]
    BY <2>2, <2>3, <2>4, <2>5, <2>6, <2>7, <2>8 DEF t
  <2>9. CASE d \in waitingFor[b]
    <3>1. PICK i \in 1 .. Len(s) : s[i] = b BY <2>4, <2>9
    <3>2. \A j \in 1 .. Len(s) : s[j] = b => j = i BY <2>2, <3>1
    <3>3. t = RemoveFirst(s, b) BY <2>3, <2>9
    <3>4. /\ Len(t) = Len(s) - 1
          /\ \A k \in 1 .. Len(t) : (k < i => t[k] = s[k]) /\ (k >= i => t[k] = s[k + 1])
      <4>1. s[i] = b /\ i \in 1 .. Len(s) /\ s \in Seq(Blobs) BY <2>1, <3>1
      <4>2. Len(t) = Len(s) - 1 BY <4>1, <3>2, <3>3, RemovedFirst
      <4>3. \A k \in 1 .. Len(t) : k < i => t[k] = s[k]
        BY <4>1, <3>2, <3>3, RemovedFirst
      <4>4. \A k \in 1 .. Len(t) : k >= i => t[k] = s[k + 1]
        BY <4>1, <3>2, <3>3, RemovedFirst
      <4> QED BY <4>2, <4>3, <4>4
    <3>5. Len(s) \in Nat BY <2>1
    <3>6. \A x : (\E k \in 1 .. Len(t) : t[k] = x) => (\E k \in 1 .. Len(s) : s[k] = x) /\ x # b
      BY <3>2, <3>4, <3>5
    <3>7. ASSUME NEW x, x # b, NEW k \in 1 .. Len(s), s[k] = x
          PROVE  \E m \in 1 .. Len(t) : t[m] = x
      <4>1. CASE k < i BY <3>1, <3>4, <3>5, <3>7, <4>1
      <4>2. CASE k > i
        <5>1. k - 1 \in 1 .. Len(t) /\ k - 1 >= i BY <3>1, <3>4, <3>5, <4>2
        <5>2. t[k - 1] = s[k - 1 + 1] BY <3>4, <5>1
        <5> QED BY <3>7, <5>1, <5>2
      <4> QED BY <3>1, <3>7, <4>1, <4>2
    <3>8. \A k, m \in 1 .. Len(t) : t[k] = t[m] => k = m BY <2>2, <3>1, <3>4, <3>5
    <3> QED BY <2>5, <2>6, <2>7, <3>6, <3>7, <3>8 DEF t
  <2> QED BY <2>8, <2>9 DEF t
<1>4. ASSUME NEW x \in Blobs, NEW d \in Blobs PROVE (OnList(d, x) <=> d \in waitingFor[x])'
  <2>1. OnList(d, x)' <=> OnList(d, x) /\ x # b BY <1>3
  <2>2. OnList(d, x) <=> d \in waitingFor[x] BY DEF ListsInv
  <2>3. d \in waitingFor'[x] <=> d \in waitingFor[x] /\ x # b BY <1>2
  <2> QED BY <2>1, <2>2, <2>3
<1> QED BY <1>3, <1>4 DEF ListsInv

LEMMA AddDependencyLists ==
  ASSUME TypeOK, ListsInv, NEW b \in Blobs, NEW d \in Blobs, AddDependency(b, d)
  PROVE  ListsInv'
<1>1. CASE CompleteOrError(d) \/ CompleteOrError(b) \/ isDone[b] \/ d \in waitingFor[b]
  <2>1. UNCHANGED <<waitingFor, waitingOnMe>> BY <1>1 DEF AddDependency
  <2> QED BY <2>1 DEF ListsInv, OnList
<1>2. CASE ~(CompleteOrError(d) \/ CompleteOrError(b) \/ isDone[b] \/ d \in waitingFor[b])
  <2>1. waitingOnMe' = [waitingOnMe EXCEPT ![d] = Append(@, b)]
        /\ waitingFor' = [waitingFor EXCEPT ![b] = @ \cup {d}] /\ d \notin waitingFor[b]
    BY <1>2 DEF AddDependency
  <2> DEFINE s == waitingOnMe[d]
             t == waitingOnMe'[d]
  <2>2. s \in Seq(Blobs) /\ t = Append(s, b) BY <2>1 DEF TypeOK
  <2>3. t \in Seq(Blobs) /\ Len(t) = Len(s) + 1 /\ t[Len(s) + 1] = b /\ Len(s) \in Nat
        /\ \A i \in 1 .. Len(s) : t[i] = s[i]
    BY <2>2
  <2>4. DOMAIN s = 1 .. Len(s) /\ DOMAIN t = 1 .. Len(t) BY <2>2, <2>3
  <2>5. \A i, j \in 1 .. Len(s) : s[i] = s[j] => i = j BY <2>4 DEF ListsInv
  <2>6. \A i \in 1 .. Len(s) : s[i] # b BY <2>1, <2>4 DEF ListsInv, OnList
  <2>7. \A x : OnList(d, x) <=> \E i \in 1 .. Len(s) : s[i] = x BY <2>4 DEF OnList
  <2>8. \A x : OnList(d, x)' <=> \E i \in 1 .. Len(t) : t[i] = x BY <2>4 DEF OnList
  <2>9. \A e \in Blobs : e # d => waitingOnMe'[e] = waitingOnMe[e] BY <2>1 DEF TypeOK
  <2> HIDE DEF s, t
  <2>10. \A x : OnList(d, x)' <=> OnList(d, x) \/ x = b
    BY <2>3, <2>7, <2>8
  <2>11. \A i, j \in 1 .. Len(t) : t[i] = t[j] => i = j BY <2>3, <2>5, <2>6
  <2>12. \A e \in Blobs : \A x : e # d => (OnList(e, x)' <=> OnList(e, x)) BY <2>9 DEF OnList
  <2>13. \A e, x \in Blobs : e \in waitingFor'[x] <=> e \in waitingFor[x] \/ (e = d /\ x = b)
    BY <2>1 DEF TypeOK
  <2>14. \A x, e \in Blobs : OnList(e, x) <=> e \in waitingFor[x] BY DEF ListsInv
  <2>15. \A x, e \in Blobs : OnList(e, x)' <=> e \in waitingFor'[x]
    BY <2>10, <2>12, <2>13, <2>14
  <2>16. \A e \in Blobs : \A i, j \in DOMAIN waitingOnMe'[e] :
           waitingOnMe'[e][i] = waitingOnMe'[e][j] => i = j
    <3>1. \A i, j \in DOMAIN waitingOnMe'[d] : waitingOnMe'[d][i] = waitingOnMe'[d][j] => i = j
      BY <2>4, <2>11 DEF t
    <3> QED BY <2>9, <3>1 DEF ListsInv
  <2> QED BY <2>15, <2>16 DEF ListsInv
<1> QED BY <1>1, <1>2

LEMMA NotifyLists ==
  ASSUME TypeOK, ListsInv, NotifyWaiting
  PROVE  ListsInv'
<1>0. PICK b \in Blobs : b = Top.blob BY NotifyStack
<1> DEFINE s == waitingOnMe[b]
           t == waitingOnMe'[b]
           n == Len(s)
           w == s[n]
<1>1. b \in Blobs /\ s \in Seq(Blobs) /\ s # <<>> /\ w \in Blobs /\ n \in 1 .. n /\ n \in Nat
  BY <1>0, NotifyStack
<1>2. waitingOnMe' = [waitingOnMe EXCEPT ![b] = SubSeq(s, 1, n - 1)]
      /\ waitingFor' = [waitingFor EXCEPT ![w] = @ \ {b}]
  BY <1>0 DEF NotifyWaiting
<1>3. t = SubSeq(s, 1, n - 1) BY <1>1, <1>2 DEF TypeOK
<1>4. \A e \in Blobs : e # b => waitingOnMe'[e] = waitingOnMe[e]
  <2> HIDE DEF s, n, w
  <2> QED BY <1>1, <1>2 DEF TypeOK
<1>5. \A e, x \in Blobs : e \in waitingFor'[x] <=> e \in waitingFor[x] /\ ~(e = b /\ x = w)
  <2> HIDE DEF s, n, w
  <2> QED BY <1>1, <1>2 DEF TypeOK
<1>6. t \in Seq(Blobs) /\ Len(t) = n - 1 /\ \A i \in 1 .. n - 1 : t[i] = s[i]
  BY <1>1, <1>3
<1>7. DOMAIN s = 1 .. n /\ DOMAIN t = 1 .. n - 1 BY <1>1, <1>6
<1>8. \A i, j \in 1 .. n : s[i] = s[j] => i = j BY <1>1, <1>7 DEF ListsInv
<1>9. \A x : OnList(b, x) <=> \E i \in 1 .. n : s[i] = x BY <1>7 DEF OnList
<1>10. \A x : OnList(b, x)' <=> \E i \in 1 .. n - 1 : t[i] = x BY <1>7 DEF OnList
<1>11. s[n] = w OBVIOUS
<1>12. \A x, e \in Blobs : OnList(e, x) <=> e \in waitingFor[x] BY DEF ListsInv
<1> HIDE DEF s, t, n, w
<1>13. \A x : OnList(b, x)' <=> OnList(b, x) /\ x # w
  BY <1>1, <1>6, <1>8, <1>9, <1>10, <1>11
<1>14. \A e \in Blobs : \A x : e # b => (OnList(e, x)' <=> OnList(e, x)) BY <1>4 DEF OnList
<1>15. \A x, e \in Blobs : OnList(e, x)' <=> e \in waitingFor'[x]
  BY <1>5, <1>12, <1>13, <1>14
<1>16. \A e \in Blobs : \A i, j \in DOMAIN waitingOnMe'[e] :
         waitingOnMe'[e][i] = waitingOnMe'[e][j] => i = j
  <2>1. \A i, j \in 1 .. n - 1 : t[i] = t[j] => i = j BY <1>1, <1>6, <1>8
  <2>2. \A i, j \in DOMAIN waitingOnMe'[b] : waitingOnMe'[b][i] = waitingOnMe'[b][j] => i = j
    BY <1>7, <2>1 DEF t
  <2> QED BY <1>4, <2>2 DEF ListsInv
<1> QED BY <1>15, <1>16 DEF ListsInv

LEMMA ListsKept == TypeOK /\ ListsInv /\ [Next]_vars => ListsInv'
<1> SUFFICES ASSUME TypeOK, ListsInv, [Next]_vars PROVE ListsInv'
  OBVIOUS
<1>1. CASE UNCHANGED <<waitingFor, waitingOnMe>>
  BY <1>1 DEF ListsInv, OnList
<1>2. ASSUME NEW b \in Blobs, SetError(b) PROVE ListsInv'
  BY <1>2, SetErrorLists
<1>3. ASSUME NEW b \in Blobs, NEW rest, LoadThread(b, rest) PROVE ListsInv'
  BY <1>1, <1>2, <1>3 DEF LoadThread
<1>4. CASE TakeMessage
  BY <1>3, <1>4, TakeMessageStack DEF TakeMessage
<1>5. ASSUME NEW b \in Blobs, NetworkReplyFinished(b) PROVE ListsInv'
  BY <1>1, <1>2, <1>5 DEF NetworkReplyFinished
<1>6. ASSUME NEW d \in Blobs, GetUnknown(d) PROVE ListsInv'
  BY <1>3, <1>6 DEF GetUnknown
<1>7. ASSUME NEW d \in Blobs, GetKnown(d) PROVE ListsInv'
  <2>1. Top.blob \in Blobs BY <1>7, GotStack, TopFacts DEF GetKnown
  <2> QED BY <1>7, <2>1, AddDependencyLists DEF GetKnown
<1>8. CASE Fail
  BY <1>2, <1>8, FailStack, TopFacts DEF Fail
<1>9. CASE NotifyWaiting
  BY <1>9, NotifyLists
<1>10. ASSUME NEW d \in Blobs, Request(d) \/ SkipSingleton(d) PROVE ListsInv'
  BY <1>1, <1>10 DEF Request, SkipSingleton
<1>11. CASE Shutdown \/ LoaderQuits \/ LoopEnds \/ Settle \/ CallCompleted \/ UNCHANGED vars
  BY <1>1, <1>11 DEF Shutdown, LoaderQuits, LoopEnds, Settle, CallCompleted, vars, graphVars
<1> QED
  BY <1>4, <1>5, <1>6, <1>7, <1>8, <1>9, <1>10, <1>11 DEF Next, CallbackStep

-----------------------------------------------------------------------------
(* No blob is called back while it is in a callback.                       *)

LEMMA StackDomain ==
  TypeOK =>
    /\ DOMAIN stack = 1 .. Len(stack) /\ Len(stack) \in Nat
    /\ \A i \in 1 .. Len(stack) : stack[i] \in Frames /\ stack[i].blob \in Blobs
    /\ stack = <<>> <=> Len(stack) = 0
BY FrameFields DEF TypeOK

LEMMA StackDomainNext ==
  TypeOK' =>
    /\ DOMAIN stack' = 1 .. Len(stack') /\ Len(stack') \in Nat
    /\ \A i \in 1 .. Len(stack') : stack'[i] \in Frames /\ stack'[i].blob \in Blobs
    /\ stack' = <<>> <=> Len(stack') = 0
BY FrameFields DEF TypeOK

LEMMA ApartAll ==
  ASSUME TypeOK', 1 \in DOMAIN stack'
  PROVE  Apart(1, Blobs)'
<1>1. stack'[1].blob \in Blobs BY StackDomainNext
<1>2. \A b \in Blobs : waitingFor'[b] \in SUBSET Blobs BY DEF TypeOK
<1> QED BY <1>1, <1>2 DEF Apart, Closed

LEMMA Alone ==
  ASSUME TypeOK, ApartInv, NEW i \in DOMAIN stack, NEW j \in DOMAIN stack,
         stack[i].blob = stack[j].blob
  PROVE  i = j
BY StackDomain DEF ApartInv, Apart

\* The frames of ApartInv after a step, one lemma for each thing a step does.
LEMMA ApartBecomes ==
  ASSUME TypeOK, TypeOK', ApartInv, NEW f, Becomes(f), f.blob = Top.blob,
         \A x \in Blobs \ {Top.blob} : waitingFor'[x] \subseteq waitingFor[x]
  PROVE  ApartInv'
<1>1. /\ stack # <<>> /\ Len(stack') = Len(stack) /\ stack'[1].blob = stack[1].blob
      /\ stack[1].blob = Top.blob
      /\ \A i \in 2 .. Len(stack) : stack'[i].blob = stack[i].blob
  BY TopFacts DEF Becomes
<1>2. ASSUME NEW i \in DOMAIN stack', i # 1 PROVE \E C \in SUBSET Blobs : Apart(i, C)'
  <2>1. i \in 2 .. Len(stack) /\ i \in DOMAIN stack
    BY <1>1, <1>2, StackDomain, StackDomainNext
  <2>2. PICK C \in SUBSET Blobs : Apart(i, C) BY <2>1 DEF ApartInv
  <2>3. Top.blob \notin C BY <1>1, <2>1, <2>2 DEF Apart
  <2>4. \A x \in C : waitingFor'[x] \subseteq C BY <2>2, <2>3 DEF Apart, Closed
  <2>5. \A j \in 1 .. i - 1 : stack'[j].blob \notin C BY <1>1, <2>1, <2>2 DEF Apart
  <2>6. stack'[i].blob \in C BY <1>1, <2>1, <2>2 DEF Apart
  <2> QED BY <2>4, <2>5, <2>6 DEF Apart, Closed
<1>3. ASSUME NEW i \in DOMAIN stack', i = 1 PROVE \E C \in SUBSET Blobs : Apart(i, C)'
  BY <1>3, ApartAll
<1> QED BY <1>2, <1>3 DEF ApartInv

LEMMA ApartPops ==
  ASSUME TypeOK, TypeOK', ApartInv, Pops, UNCHANGED waitingFor
  PROVE  ApartInv'
<1>1. ASSUME NEW i \in DOMAIN stack' PROVE \E C \in SUBSET Blobs : Apart(i, C)'
  <2>1. i \in 1 .. Len(stack') /\ i + 1 \in DOMAIN stack /\ Len(stack') = Len(stack) - 1
        /\ Len(stack) \in Nat
    BY StackDomain, StackDomainNext DEF Pops
  <2>2. PICK C \in SUBSET Blobs : Apart(i + 1, C) BY <2>1 DEF ApartInv
  <2>3. \A j \in 1 .. i : stack'[j] = stack[j + 1] BY <2>1 DEF Pops
  <2>4. stack'[i].blob \in C BY <2>1, <2>2, <2>3 DEF Apart
  <2>5. ASSUME NEW j \in 1 .. i - 1 PROVE stack'[j].blob \notin C
    <3>1. j + 1 \in 1 .. i + 1 - 1 BY <2>1
    <3>2. stack[j + 1].blob \notin C BY <2>1, <2>2, <3>1 DEF Apart
    <3> QED BY <2>1, <2>3, <3>2
  <2> QED BY <2>2, <2>4, <2>5 DEF Apart, Closed
<1> QED BY <1>1 DEF ApartInv

\* Above all frames that do not wait for the new one.
LEMMA ApartPushes ==
  ASSUME TypeOK, TypeOK', ApartInv, NEW f, NEW g, Pushes(f, g), g.blob = Top.blob,
         \A x \in Blobs : waitingFor'[x] \subseteq waitingFor[x],
         \A x \in Blobs : f.blob \notin waitingFor[x], ~OnStack(f.blob)
  PROVE  ApartInv'
<1> DEFINE d == f.blob
<1>1. /\ stack # <<>> /\ Len(stack') = Len(stack) + 1 /\ stack'[1] = f
      /\ \A i \in 2 .. Len(stack') : stack'[i].blob = stack[i - 1].blob
  <2>1. stack'[2].blob = stack[1].blob BY TopFacts DEF Pushes
  <2>2. \A i \in 2 .. Len(stack') : i = 2 \/ i \in 3 .. Len(stack')
    BY StackDomain, StackDomainNext DEF Pushes
  <2> QED BY <2>1, <2>2 DEF Pushes
<1>2. \A i \in DOMAIN stack : stack[i].blob # d BY DEF OnStack
<1>3. ASSUME NEW i \in DOMAIN stack', i # 1 PROVE \E C \in SUBSET Blobs : Apart(i, C)'
  <2>1. i \in 2 .. Len(stack') /\ i - 1 \in DOMAIN stack /\ i - 1 \in 1 .. Len(stack)
    BY <1>1, <1>3, StackDomain, StackDomainNext
  <2>2. PICK C \in SUBSET Blobs : Apart(i - 1, C) BY <2>1 DEF ApartInv
  <2> DEFINE D == C \ {d}
  <2>3. stack'[i].blob \in D BY <1>1, <1>2, <2>1, <2>2 DEF Apart
  <2>4. \A x \in D : waitingFor'[x] \subseteq D BY <2>2 DEF Apart, Closed
  <2>5. ASSUME NEW j \in 1 .. i - 1 PROVE stack'[j].blob \notin D
    <3>1. CASE j = 1 BY <1>1, <3>1
    <3>2. CASE j # 1
      <4>1. j - 1 \in 1 .. i - 1 - 1 /\ j \in 2 .. Len(stack') BY <1>1, <2>1, <3>2, StackDomainNext
      <4> QED BY <1>1, <2>2, <4>1 DEF Apart
    <3> QED BY <3>1, <3>2
  <2>6. D \in SUBSET Blobs OBVIOUS
  <2> HIDE DEF D
  <2> QED BY <2>3, <2>4, <2>5, <2>6 DEF Apart, Closed
<1>4. ASSUME NEW i \in DOMAIN stack', i = 1 PROVE \E C \in SUBSET Blobs : Apart(i, C)'
  BY <1>4, ApartAll
<1> QED BY <1>3, <1>4 DEF ApartInv

\* Above the blob that the new one has waited for, and that waits for nothing.
LEMMA ApartNotifies ==
  ASSUME TypeOK, TypeOK', ApartInv, NEW f, Pushes(f, Top),
         \A x \in Blobs : waitingFor'[x] \subseteq waitingFor[x],
         waitingFor[Top.blob] = {}, f.blob \in Blobs, Top.blob \in waitingFor[f.blob]
  PROVE  ApartInv' /\ ~OnStack(f.blob)
<1>0. PICK b \in Blobs : b = Top.blob BY TopFacts DEF Pushes
<1>1. /\ stack # <<>> /\ Len(stack') = Len(stack) + 1 /\ stack'[1] = f /\ b \in Blobs
      /\ \A i \in 2 .. Len(stack') : stack'[i] = stack[i - 1]
      /\ stack[1].blob = b
  <2>1. stack'[2] = stack[1] BY <1>0, TopFacts DEF Pushes
  <2>2. \A i \in 2 .. Len(stack') : i = 2 \/ i \in 3 .. Len(stack')
    BY StackDomain, StackDomainNext DEF Pushes
  <2> QED BY <1>0, <2>1, <2>2, TopFacts DEF Pushes
<1>2. f.blob # b BY <1>0
<1>3. \A C : Closed(C) /\ b \notin C => f.blob \notin C BY <1>0 DEF Closed
<1>4. ASSUME NEW i \in DOMAIN stack', i \notin {1, 2}
      PROVE  \E C \in SUBSET Blobs : Apart(i, C)'
  <2>1. i \in 3 .. Len(stack') /\ i - 1 \in DOMAIN stack /\ i - 1 \in 2 .. Len(stack)
    BY <1>1, <1>4, StackDomain, StackDomainNext
  <2>2. PICK C \in SUBSET Blobs : Apart(i - 1, C) BY <2>1 DEF ApartInv
  <2>3. b \notin C BY <1>1, <2>1, <2>2 DEF Apart
  <2>4. f.blob \notin C BY <1>3, <2>2, <2>3 DEF Apart
  <2>5. \A x \in C : waitingFor'[x] \subseteq C BY <2>2 DEF Apart, Closed
  <2>6. stack'[i].blob \in C BY <1>1, <2>1, <2>2 DEF Apart
  <2>7. ASSUME NEW j \in 1 .. i - 1 PROVE stack'[j].blob \notin C
    <3>1. CASE j = 1 BY <1>1, <2>4, <3>1
    <3>2. CASE j # 1
      <4>1. j - 1 \in 1 .. i - 1 - 1 /\ j \in 2 .. Len(stack') BY <1>1, <2>1, <3>2, StackDomainNext
      <4> QED BY <1>1, <2>2, <4>1 DEF Apart
    <3> QED BY <3>1, <3>2
  <2> QED BY <2>5, <2>6, <2>7 DEF Apart, Closed
<1>5. ASSUME NEW i \in DOMAIN stack', i = 2 PROVE \E C \in SUBSET Blobs : Apart(i, C)'
  <2>1. stack'[2].blob = b BY <1>1, <1>5, StackDomainNext
  <2>2. waitingFor'[b] = {} BY <1>0
  <2>3. \A j \in 1 .. 2 - 1 : stack'[j].blob # b BY <1>1, <1>2
  <2>4. Apart(2, {b})' BY <2>1, <2>2, <2>3 DEF Apart, Closed
  <2> QED BY <1>5, <2>4
<1>6. ASSUME NEW i \in DOMAIN stack', i = 1 PROVE \E C \in SUBSET Blobs : Apart(i, C)'
  BY <1>6, ApartAll
<1>7. ASSUME NEW i \in DOMAIN stack, stack[i].blob = f.blob PROVE FALSE
  <2>1. i \in 2 .. Len(stack) BY <1>1, <1>2, <1>7, StackDomain
  <2>2. PICK C \in SUBSET Blobs : Apart(i, C) BY <1>7 DEF ApartInv
  <2>3. b \notin C BY <1>1, <2>1, <2>2 DEF Apart
  <2> QED BY <1>3, <1>7, <2>2, <2>3 DEF Apart
<1> QED BY <1>4, <1>5, <1>6, <1>7 DEF ApartInv, OnStack

-----------------------------------------------------------------------------
(* The frame of a blob, which has one at most, after a step.               *)

\* Nothing that FrameOk and TrackInv look at has changed for x, but its status.
SameLists(x) ==
  /\ waitingFor'[x] = waitingFor[x] /\ skipped'[x] = skipped[x]
  /\ typesResolved'[x] <=> typesResolved[x]
Same(x) == SameLists(x) /\ status'[x] = status[x] /\ (isDone'[x] <=> isDone[x])
SameFrame(x) ==
  /\ OnStack(x)' <=> OnStack(x)
  /\ \A d \in Blobs : OnTodo(x, d)' <=> OnTodo(x, d)
  /\ InTypes(x)' <=> InTypes(x)
HasFrame(f) ==
  /\ OnStack(f.blob)' /\ \A d \in Blobs : OnTodo(f.blob, d)' <=> d \in f.todo
  /\ InTypes(f.blob)' <=> f.at = "types"

LEMMA TopView ==
  ASSUME TypeOK, ApartInv, stack # <<>>
  PROVE  /\ OnStack(Top.blob)
         /\ \A d \in Blobs : OnTodo(Top.blob, d) <=> d \in Top.todo
         /\ InTypes(Top.blob) <=> Top.at = "types"
<1>1. 1 \in DOMAIN stack /\ Top = stack[1] BY TopFacts
<1>2. \A i \in DOMAIN stack : stack[i].blob = Top.blob => i = 1 BY <1>1, Alone
<1> QED BY <1>1, <1>2 DEF OnStack, OnTodo, InTypes

LEMMA BecomesView ==
  ASSUME TypeOK, TypeOK', ApartInv, NEW f \in Frames, Becomes(f), f.blob = Top.blob
  PROVE  /\ \A x \in Blobs \ {f.blob} : SameFrame(x)
         /\ HasFrame(f)
         /\ FrameInv /\ FrameOk(f)' /\ UNCHANGED files
              /\ (\A x \in Blobs \ {f.blob} : OnStack(x) => Same(x)) => FrameInv'
<1>1. /\ stack # <<>> /\ Len(stack') = Len(stack) /\ stack'[1] = f /\ stack[1].blob = f.blob
      /\ \A i \in 2 .. Len(stack) : stack'[i] = stack[i]
      /\ 1 \in DOMAIN stack /\ DOMAIN stack = 1 .. Len(stack) /\ DOMAIN stack' = 1 .. Len(stack)
      /\ Len(stack) \in Nat
  BY TopFacts, StackDomain, StackDomainNext DEF Becomes
<1>2. \A i \in 2 .. Len(stack) : stack[i].blob # f.blob
  <2>1. \A i \in DOMAIN stack : stack[i].blob = stack[1].blob => i = 1 BY <1>1, Alone
  <2> QED BY <1>1, <2>1
<1>3. \A i \in 1 .. Len(stack) : i = 1 \/ i \in 2 .. Len(stack) BY <1>1
<1>4. ASSUME NEW x \in Blobs, x # f.blob PROVE SameFrame(x)
  <2>1. \A i \in 1 .. Len(stack) : stack[i].blob = x <=> stack'[i].blob = x BY <1>1, <1>3, <1>4
  <2>2. \A i \in 1 .. Len(stack) : stack[i].blob = x => stack'[i] = stack[i] BY <1>1, <1>3, <1>4
  <2> QED BY <1>1, <2>1, <2>2 DEF SameFrame, OnStack, OnTodo, InTypes
<1>5. HasFrame(f) BY <1>1, <1>2, <1>3 DEF HasFrame, OnStack, OnTodo, InTypes
<1>6. ASSUME FrameInv, FrameOk(f)', UNCHANGED files,
             \A x \in Blobs \ {f.blob} : OnStack(x) => Same(x)
      PROVE  FrameInv'
  <2>1. ASSUME NEW i \in 2 .. Len(stack) PROVE FrameOk(stack[i])'
    <3>1. stack'[i] = stack[i] /\ stack[i].blob \in Blobs \ {f.blob} /\ OnStack(stack[i].blob)
      BY <1>1, <1>2, StackDomain DEF OnStack
    <3>2. Same(stack[i].blob) BY <1>6, <3>1
    <3>3. FrameOk(stack[i]) BY <1>1, <1>6 DEF FrameInv
    <3> QED BY <1>6, <3>1, <3>2, <3>3 DEF FrameOk, Same, SameLists, files, Types
  <2>2. FrameOk(stack[1])' BY <1>1, <1>6 DEF FrameOk, Types
  <2> QED BY <1>1, <1>3, <2>1, <2>2 DEF FrameInv
<1> QED BY <1>4, <1>5, <1>6

LEMMA PopsView ==
  ASSUME TypeOK, TypeOK', ApartInv, Pops, NEW b \in Blobs, b = Top.blob
  PROVE  /\ \A x \in Blobs \ {b} : SameFrame(x)
         /\ ~OnStack(b)' /\ (\A d \in Blobs : ~OnTodo(b, d)') /\ ~InTypes(b)'
         /\ FrameInv /\ UNCHANGED files
              /\ (\A x \in Blobs \ {b} : OnStack(x) => Same(x)) => FrameInv'
<1>1. /\ stack # <<>> /\ Len(stack') = Len(stack) - 1 /\ stack[1].blob = b
      /\ \A i \in 1 .. Len(stack') : stack'[i] = stack[i + 1]
      /\ 1 \in DOMAIN stack /\ DOMAIN stack = 1 .. Len(stack) /\ DOMAIN stack' = 1 .. Len(stack')
      /\ Len(stack) \in Nat
  BY TopFacts, StackDomain, StackDomainNext DEF Pops
<1>2. \A i \in 2 .. Len(stack) : stack[i].blob # b
  <2>1. \A i \in DOMAIN stack : stack[i].blob = stack[1].blob => i = 1 BY <1>1, Alone
  <2> QED BY <1>1, <2>1
<1>3. \A i \in 1 .. Len(stack') : stack'[i] = stack[i + 1] /\ i + 1 \in 2 .. Len(stack) BY <1>1
<1>4. \A i \in 2 .. Len(stack) : i - 1 \in 1 .. Len(stack') /\ stack'[i - 1] = stack[i]
  BY <1>1
<1>5. \A i \in 1 .. Len(stack) : i = 1 \/ i \in 2 .. Len(stack) BY <1>1
<1>6. ASSUME NEW x \in Blobs, x # b PROVE SameFrame(x)
  <2>1. \A i \in DOMAIN stack : stack[i].blob = x =>
          \E k \in DOMAIN stack' : stack'[k] = stack[i]
    BY <1>1, <1>4, <1>5, <1>6
  <2>2. ASSUME NEW k \in DOMAIN stack' PROVE \E i \in DOMAIN stack : stack'[k] = stack[i]
    <3>1. k + 1 \in DOMAIN stack /\ stack'[k] = stack[k + 1] BY <1>1, <1>3
    <3> QED BY <3>1
  <2> QED BY <2>1, <2>2 DEF SameFrame, OnStack, OnTodo, InTypes
<1>7. ~OnStack(b)' /\ (\A d \in Blobs : ~OnTodo(b, d)') /\ ~InTypes(b)'
  BY <1>1, <1>2, <1>3 DEF OnStack, OnTodo, InTypes
<1>8. ASSUME FrameInv, UNCHANGED files, \A x \in Blobs \ {b} : OnStack(x) => Same(x)
      PROVE  FrameInv'
  <2>1. ASSUME NEW i \in 1 .. Len(stack') PROVE FrameOk(stack[i])'
    <3>1. stack'[i] = stack[i + 1] /\ i + 1 \in 2 .. Len(stack) /\ i + 1 \in DOMAIN stack
      BY <1>1, <1>3
    <3>2. stack[i + 1].blob \in Blobs \ {b} /\ OnStack(stack[i + 1].blob)
      BY <1>2, <3>1, StackDomain DEF OnStack
    <3>3. Same(stack[i + 1].blob) BY <1>8, <3>2
    <3>4. FrameOk(stack[i + 1]) BY <1>8, <3>1 DEF FrameInv
    <3> QED BY <1>8, <3>1, <3>3, <3>4 DEF FrameOk, Same, SameLists, files, Types
  <2> QED BY <1>1, <2>1 DEF FrameInv
<1> QED BY <1>6, <1>7, <1>8

LEMMA PushesView ==
  ASSUME TypeOK, TypeOK', ApartInv, NEW f \in Frames, NEW g \in Frames, Pushes(f, g),
         g.blob = Top.blob, g.at = Top.at, g.todo = Top.todo, ~OnStack(f.blob)
  PROVE  /\ \A x \in Blobs \ {f.blob} : SameFrame(x)
         /\ HasFrame(f)
         /\ FrameInv /\ FrameOk(f)' /\ (g.dep # NoBlob => g.dep \in g.todo) /\ UNCHANGED files
              /\ (\A x \in Blobs \ {f.blob} : OnStack(x) => Same(x)) => FrameInv'
<1>1. /\ stack # <<>> /\ Len(stack') = Len(stack) + 1 /\ stack'[1] = f /\ stack'[2] = g
      /\ \A i \in 3 .. Len(stack') : stack'[i] = stack[i - 1]
      /\ 1 \in DOMAIN stack /\ DOMAIN stack = 1 .. Len(stack) /\ DOMAIN stack' = 1 .. Len(stack')
      /\ Len(stack) \in Nat \ {0} /\ stack[1] = Top
  BY TopFacts, StackDomain, StackDomainNext DEF Pushes
<1>2. \A i \in 1 .. Len(stack) : stack[i].blob # f.blob BY <1>1 DEF OnStack
<1>3. \A i \in 1 .. Len(stack') : i = 1 \/ i = 2 \/ i \in 3 .. Len(stack') BY <1>1
<1>4. ASSUME NEW i \in 2 .. Len(stack')
      PROVE  /\ i - 1 \in 1 .. Len(stack) /\ stack'[i].blob = stack[i - 1].blob
             /\ stack'[i].at = stack[i - 1].at /\ stack'[i].todo = stack[i - 1].todo
  <2>1. CASE i = 2 BY <1>1, <2>1
  <2>2. CASE i # 2 BY <1>1, <2>2
  <2> QED BY <2>1, <2>2
<1>5. ASSUME NEW i \in 1 .. Len(stack)
      PROVE  /\ i + 1 \in 2 .. Len(stack') /\ stack'[i + 1].blob = stack[i].blob
             /\ stack'[i + 1].at = stack[i].at /\ stack'[i + 1].todo = stack[i].todo
  <2>1. i + 1 \in 2 .. Len(stack') /\ i + 1 - 1 = i BY <1>1
  <2> QED BY <1>4, <2>1
<1>6. ASSUME NEW x \in Blobs, x # f.blob PROVE SameFrame(x)
  <2>1. \A i \in DOMAIN stack : \E k \in DOMAIN stack' :
          stack'[k].blob = stack[i].blob /\ stack'[k].at = stack[i].at
          /\ stack'[k].todo = stack[i].todo
    BY <1>1, <1>5
  <2>2. \A k \in DOMAIN stack' : stack'[k].blob = x => \E i \in DOMAIN stack :
          stack'[k].blob = stack[i].blob /\ stack'[k].at = stack[i].at
          /\ stack'[k].todo = stack[i].todo
    <3>1. \A k \in DOMAIN stack' : stack'[k].blob = x => k \in 2 .. Len(stack')
      BY <1>1, <1>6
    <3> QED BY <1>1, <1>4, <3>1
  <2> QED BY <2>1, <2>2 DEF SameFrame, OnStack, OnTodo, InTypes
<1>7. HasFrame(f)
  <2>1. \A k \in DOMAIN stack' : stack'[k].blob = f.blob => k = 1
    <3>1. \A k \in 2 .. Len(stack') : stack'[k].blob # f.blob BY <1>2, <1>4
    <3> QED BY <1>1, <3>1
  <2>2. 1 \in DOMAIN stack' BY <1>1
  <2> QED BY <1>1, <2>1, <2>2 DEF HasFrame, OnStack, OnTodo, InTypes
<1>8. ASSUME FrameInv, FrameOk(f)', g.dep # NoBlob => g.dep \in g.todo, UNCHANGED files,
             \A x \in Blobs \ {f.blob} : OnStack(x) => Same(x)
      PROVE  FrameInv'
  <2>1. ASSUME NEW i \in 2 .. Len(stack') PROVE FrameOk(stack[i])'
    <3>1. /\ i - 1 \in DOMAIN stack /\ stack'[i].blob = stack[i - 1].blob
          /\ stack'[i].at = stack[i - 1].at /\ stack'[i].todo = stack[i - 1].todo
      BY <1>1, <1>4
    <3>2. stack[i - 1].blob \in Blobs \ {f.blob} /\ OnStack(stack[i - 1].blob)
      BY <1>1, <1>2, <3>1, StackDomain DEF OnStack
    <3>3. Same(stack[i - 1].blob) BY <1>8, <3>2
    <3>4. FrameOk(stack[i - 1]) BY <1>8, <3>1 DEF FrameInv
    <3>5. stack'[i].dep # NoBlob => stack'[i].dep \in stack'[i].todo
      <4>1. CASE i = 2 BY <1>1, <1>8, <4>1
      <4>2. CASE i # 2
        <5>1. stack'[i] = stack[i - 1] BY <1>1, <4>2
        <5> QED BY <3>4, <5>1 DEF FrameOk
      <4> QED BY <4>1, <4>2
    <3> QED BY <1>8, <3>1, <3>3, <3>4, <3>5 DEF FrameOk, Same, SameLists, files, Types
  <2>2. FrameOk(stack[1])' BY <1>1, <1>8 DEF FrameOk, Types
  <2>3. \A i \in 1 .. Len(stack') : i = 1 \/ i \in 2 .. Len(stack') BY <1>1
  <2> QED BY <1>1, <2>1, <2>2, <2>3 DEF FrameInv
<1> QED BY <1>6, <1>7, <1>8

LEMMA StartsView ==
  ASSUME TypeOK, TypeOK', NEW f \in Frames, Starts(f)
  PROVE  /\ \A x \in Blobs \ {f.blob} : SameFrame(x)
         /\ HasFrame(f)
         /\ FrameOk(f)' => FrameInv'
<1>1. stack = <<>> /\ DOMAIN stack = {} /\ DOMAIN stack' = {1} /\ stack'[1] = f
  BY StackDomain, StackDomainNext DEF Starts
<1>2. HasFrame(f) BY <1>1 DEF HasFrame, OnStack, OnTodo, InTypes
<1>3. \A x \in Blobs \ {f.blob} : SameFrame(x) BY <1>1 DEF SameFrame, OnStack, OnTodo, InTypes
<1>4. FrameOk(f)' => FrameInv' BY <1>1 DEF FrameInv, FrameOk, Types
<1> QED BY <1>2, <1>3, <1>4

-----------------------------------------------------------------------------
(* What a step leaves alone: it changes the data and the frame of one blob *)
(* at most, and what is complete or in error stays so.                     *)

SameQueue(x) == Queued(x)' <=> Queued(x)
Stable ==
  \A d \in Blobs : /\ status[d] = "complete" => status'[d] = "complete"
                   /\ status[d] = "error" => status'[d] = "error"
Elsewhere(b) == \A x \in Blobs \ {b} : Same(x) /\ SameFrame(x) /\ SameQueue(x)

LEMMA BlobSets ==
  ASSUME NEW b \in Blobs
  PROVE  /\ Imports(b) \subseteq Blobs /\ Types(b) \subseteq Blobs /\ OwnImports(b) \subseteq Blobs
         /\ Recorded(b) \subseteq Blobs /\ Qmldirs \subseteq Blobs
BY BlobAssumption DEF Imports, Types, OwnImports, Recorded, Provided

LEMMA FilesFixed ==
  ASSUME UNCHANGED files, NEW b
  PROVE  /\ Imports(b)' = Imports(b) /\ Types(b)' = Types(b) /\ OwnImports(b)' = OwnImports(b)
BY DEF files, Imports, Types, OwnImports

LEMMA QmldirFacts ==
  ASSUME TypeOK, NEW b \in Blobs
  PROVE  /\ Types(b) \cap Qmldirs = {}
         /\ b \in Qmldirs => Types(b) = {}
         /\ b \notin Qmldirs => OwnImports(b) = Imports(b)
<1>2. \A e \in types : {e[1], e[2]} \cap Qmldirs = {}
  BY BlobAssumption DEF TypeOK
<1>3. \A d : <<b, d>>[1] = b /\ <<b, d>>[2] = d OBVIOUS
<1> QED BY <1>2, <1>3 DEF Types, Imports, OwnImports

\* The files that b gets by its imports, when those in E come to them.
LEMMA ImportsStay ==
  ASSUME DoneInv, UNCHANGED files, NEW b \in Blobs, TracksImports(b), NEW E \in SUBSET Blobs,
         skipped[b] \subseteq skipped'[b],
         \A d \in Blobs \ skipped'[b] : Tracked(b, d) => Tracked(b, d)',
         \A d \in E : OnTodo(b, d)',
         \A q \in Qmldirs : Tracked(b, q) /\ SeenQmldir(b, q)' =>
           SeenQmldir(b, q) \/ Imports(q) \subseteq E
  PROVE  TracksImports(b)'
<1>1. PICK C \in SUBSET Blobs : TracksIn(b, C) BY DEF TracksImports
<1> DEFINE D == C \cup E
<1>2. OwnImports(b)' \subseteq D BY <1>1, FilesFixed DEF TracksIn
<1>3. ASSUME NEW d \in D, d \notin skipped'[b] PROVE Tracked(b, d)'
  <2>1. CASE d \in E BY <2>1 DEF Tracked
  <2>2. CASE d \in C BY <1>1, <1>3, <2>2 DEF TracksIn
  <2> QED BY <2>1, <2>2
<1>4. ASSUME NEW q \in D \cap Qmldirs, SeenQmldir(b, q)' PROVE Imports(q)' \subseteq D
  <2>1. q \in C BY <1>4 DEF SeenQmldir
  <2>2. q \notin skipped[b] BY <1>4 DEF DoneInv, DoneOk
  <2>3. SeenQmldir(b, q) \/ Imports(q) \subseteq E BY <1>1, <1>4, <2>1, <2>2 DEF TracksIn
  <2> QED BY <1>1, <1>4, <2>1, <2>3, FilesFixed DEF TracksIn
<1> HIDE DEF D
<1>5. D \in SUBSET Blobs BY DEF D
<1>6. TracksIn(b, D)' BY <1>2, <1>3, <1>4 DEF TracksIn
<1> QED BY <1>5, <1>6 DEF TracksImports

\* What done() looks at when all that b imports has been looked at, and later.
LEMMA ProvidedIn ==
  ASSUME UNCHANGED files, NEW b \in Blobs, NEW C \in SUBSET Blobs, Seen(b, C)
  PROVE  /\ Provided(b) \subseteq C
         /\ (\A q \in C \cap Qmldirs : status'[q] = "complete" => status[q] = "complete") =>
              Provided(b)' \subseteq Provided(b)
<1>1. Provided(b) \subseteq C BY DEF Provided
<1>2. SUFFICES ASSUME \A q \in C \cap Qmldirs : status'[q] = "complete" => status[q] = "complete",
                      NEW d \in Provided(b)', NEW D \in SUBSET Blobs, Seen(b, D)
               PROVE  d \in Blobs /\ d \in D
  BY <1>1 DEF Provided
<1>3. Seen(b, C \cap D)' BY <1>2, FilesFixed DEF Seen
<1>4. C \cap D \in SUBSET Blobs OBVIOUS
<1> HIDE DEF Seen
<1> QED BY <1>2, <1>3, <1>4 DEF Provided

\* The dependencies of a blob whose data and frame stay as they are.
LEMMA TracksStay ==
  ASSUME TypeOK, DoneInv, TrackInv, UNCHANGED files, Stable, NEW x \in Blobs,
         SameLists(x), \A d \in Blobs : OnTodo(x, d)' <=> OnTodo(x, d), InTypes(x)' => InTypes(x),
         Begun(x)
  PROVE  Tracks(x)'
<1>1. Tracks(x) BY DEF TrackInv
<1>2. \A d \in Blobs : Tracked(x, d) => Tracked(x, d)'
  BY DEF Tracked, CompleteOrError, Stable, SameLists
<1>3. TracksImports(x)'
  <2>1. ASSUME NEW q \in Qmldirs, Tracked(x, q), SeenQmldir(x, q)' PROVE SeenQmldir(x, q)
    <3>1. q \in Blobs BY BlobSets
    <3>2. q \notin waitingFor[x] /\ ~OnTodo(x, q) /\ status'[q] = "complete"
      BY <2>1, <3>1 DEF SeenQmldir, SameLists
    <3>3. status[q] = "complete"
      BY <2>1, <3>1, <3>2 DEF Tracked, CompleteOrError, Stable
    <3> QED BY <3>2, <3>3 DEF SeenQmldir
  <2>2. TracksImports(x) /\ {} \in SUBSET Blobs /\ skipped'[x] = skipped[x]
    BY <1>1 DEF Tracks, SameLists
  <2> QED BY <1>2, <2>1, <2>2, ImportsStay
<1>5. TracksTypes(x)'
  BY <1>1, <1>2, FilesFixed, BlobSets DEF Tracks, TracksTypes, SameLists
<1> QED BY <1>3, <1>5 DEF Tracks

\* What is complete is not called back any more, and has all its dependencies.
LEMMA CompleteHas ==
  ASSUME TypeOK, LoadInv, FrameInv, DoneInv, TrackInv, NEW x \in Blobs, status[x] = "complete"
  PROVE  \E C \in SUBSET Blobs : Seen(x, C) /\ \A d \in C \ skipped[x] : CompleteOrError(d)
<1>1. isDone[x] /\ waitingFor[x] = {} BY DEF DoneInv, DoneOk
<1>2. Begun(x) BY DEF Begun, LoadInv
<1>3. \A d : ~OnTodo(x, d)
  <2>1. \A i \in DOMAIN stack : stack[i].blob = x => stack[i].at = "notify"
    BY <1>1 DEF FrameInv, FrameOk
  <2> QED BY <2>1 DEF OnTodo, FrameInv, FrameOk
<1>4. PICK C \in SUBSET Blobs : TracksIn(x, C) BY <1>2 DEF TrackInv, Tracks, TracksImports
<1>5. Seen(x, C) BY <1>1, <1>3, <1>4 DEF Seen, TracksIn, SeenQmldir
<1> QED BY <1>1, <1>3, <1>4, <1>5 DEF TracksIn, Tracked

LEMMA RecordedShrinks ==
  ASSUME TypeOK, LoadInv, FrameInv, DoneInv, TrackInv, UNCHANGED files, Stable,
         NEW x \in Blobs, status[x] = "complete", skipped[x] \subseteq skipped'[x]
  PROVE  Recorded(x)' \subseteq Recorded(x)
<1>1. PICK C \in SUBSET Blobs : Seen(x, C) /\ \A d \in C \ skipped[x] : CompleteOrError(d)
  BY CompleteHas
<1>2. ASSUME NEW q \in C \cap Qmldirs, status'[q] = "complete" PROVE status[q] = "complete"
  <2>1. q \notin skipped[x] BY DEF DoneInv, DoneOk
  <2> QED BY <1>1, <1>2, <2>1 DEF CompleteOrError, Stable
<1>3. Provided(x)' \subseteq Provided(x) BY <1>1, <1>2, ProvidedIn
<1> QED BY <1>3, FilesFixed DEF Recorded

LEMMA Others ==
  ASSUME TypeOK, LoadInv, FrameInv, DoneInv, TrackInv, CompleteIsWhole,
         UNCHANGED files, NEW b \in Blobs, Elsewhere(b),
         status[b] = "complete" => status'[b] = "complete",
         status[b] = "error" => status'[b] = "error",
         skipped[b] \subseteq skipped'[b],
         DoneOk(b)', Begun(b)' => Tracks(b)',
         status'[b] = "complete" /\ status[b] # "complete" =>
           \A d \in Recorded(b)' : status'[d] = "complete"
  PROVE  Stable /\ DoneInv' /\ TrackInv' /\ CompleteIsWhole'
<1>1. Stable BY DEF Stable, Elsewhere, Same
<1>2. DoneInv'
  <2>1. \A x \in Blobs \ {b} : DoneOk(x)'
    BY DEF DoneInv, DoneOk, Elsewhere, Same, SameLists, CompleteOrError
  <2> QED BY <2>1 DEF DoneInv
<1>3. TrackInv'
  <2>1. ASSUME NEW x \in Blobs, x # b, Begun(x)' PROVE Tracks(x)'
    <3>1. Same(x) /\ SameLists(x) /\ SameFrame(x) /\ SameQueue(x) BY <2>1 DEF Elsewhere, Same
    <3>2. Begun(x) BY <2>1, <3>1 DEF Begun, Same, SameQueue
    <3> QED BY <1>1, <3>1, <3>2, TracksStay DEF SameFrame
  <2> QED BY <2>1 DEF TrackInv
<1>4. CompleteIsWhole'
  <2>1. ASSUME NEW x \in Blobs, status'[x] = "complete", status[x] = "complete"
        PROVE  \A d \in Recorded(x)' : status'[d] = "complete"
    <3>1. skipped[x] \subseteq skipped'[x] BY DEF Elsewhere, Same, SameLists
    <3>2. Recorded(x)' \subseteq Recorded(x) BY <1>1, <2>1, <3>1, RecordedShrinks
    <3>3. \A d \in Recorded(x) : status[d] = "complete" BY <2>1 DEF CompleteIsWhole
    <3> QED BY <1>1, <3>2, <3>3, BlobSets DEF Stable
  <2>2. ASSUME NEW x \in Blobs, status'[x] = "complete", status[x] # "complete"
        PROVE  \A d \in Recorded(x)' : status'[d] = "complete"
    <3>1. x = b BY <2>2 DEF Elsewhere, Same
    <3> QED BY <2>2, <3>1
  <2> QED BY <2>1, <2>2 DEF CompleteIsWhole
<1> QED BY <1>1, <1>2, <1>3, <1>4

\* The requests and the reply that are still to come, but for one blob.
LEMMA LoadStays ==
  ASSUME TypeOK, LoadInv, NEW b \in Blobs, Elsewhere(b), UNCHANGED <<threadList, network>>,
         status[b] # "null", ~Queued(b), status'[b] # "null",
         \A d \in waitingFor'[b] : d \in waitingFor[b] \/ status[d] # "null"
  PROVE  LoadInv'
<1>1. \A x \in Blobs : Queued(x)' <=> Queued(x) BY DEF Queued
<1>2. ASSUME NEW x \in Blobs, Queued(x)' PROVE status'[x] = "loading" /\ Untouched(x)'
  <2>1. Queued(x) /\ x # b BY <1>1, <1>2
  <2> QED BY <2>1 DEF LoadInv, Untouched, Elsewhere, Same, SameLists, SameFrame
<1>3. ASSUME NEW x \in Blobs, status'[x] = "null" PROVE Untouched(x)'
  BY <1>3 DEF LoadInv, Untouched, Elsewhere, Same, SameLists, SameFrame
<1>4. ASSUME NEW x \in Blobs, NEW d \in Blobs, d \in waitingFor'[x] PROVE status'[d] # "null"
  <2>1. status[d] # "null"
    <3>1. CASE x = b BY <1>4, <3>1 DEF LoadInv
    <3>2. CASE x # b BY <1>4, <3>2 DEF LoadInv, Elsewhere, Same, SameLists
    <3> QED BY <3>1, <3>2
  <2> QED BY <2>1 DEF Elsewhere, Same
<1>5. /\ \A i, j \in DOMAIN threadList' : threadList'[i] = threadList'[j] => i = j
      /\ \A i \in DOMAIN threadList' : threadList'[i] \notin network'
  BY DEF LoadInv
<1> QED BY <1>2, <1>3, <1>4, <1>5 DEF LoadInv

-----------------------------------------------------------------------------
(* Each step keeps the rest of the invariant.                              *)

RestInv ==
  LoadInv /\ ApartInv /\ FrameInv /\ DoneInv /\ TrackInv /\ CompleteIsWhole

LEMMA TopBlob ==
  ASSUME TypeOK, RestInv, stack # <<>>, NEW b, b = Top.blob
  PROVE  /\ b \in Blobs /\ status[b] # "null" /\ ~Queued(b) /\ DoneOk(b) /\ FrameOk(Top)
         /\ Begun(b) <=> status[b] # "error"
         /\ Begun(b) => Tracks(b)
         /\ Top.at # "notify" => ~isDone[b] /\ status[b] # "complete"
         /\ Top.at = "notify" => isDone[b] /\ CompleteOrError(b) /\ waitingFor[b] = {}
<1>1. b \in Blobs /\ 1 \in DOMAIN stack /\ stack[1] = Top BY TopFacts
<1>2. OnStack(b) BY <1>1 DEF OnStack
<1>3. status[b] # "null" /\ ~Queued(b) BY <1>1, <1>2 DEF RestInv, LoadInv, Untouched
<1>4. DoneOk(b) /\ FrameOk(Top) BY <1>1 DEF RestInv, DoneInv, FrameInv
<1>5. Begun(b) <=> status[b] # "error" BY <1>3 DEF Begun
<1>6. Begun(b) => Tracks(b) BY <1>1 DEF RestInv, TrackInv
<1> QED BY <1>1, <1>3, <1>4, <1>5, <1>6 DEF FrameOk, DoneOk

LEMMA CallCompletedStep ==
  ASSUME TypeOK, TypeOK', UNCHANGED files, RestInv, CallCompleted
  PROVE  RestInv'
<1>1. PICK b \in Blobs : b = Top.blob /\ stack # <<>> /\ Top.at = "notify"
  BY TopFacts DEF CallCompleted, At
<1>2. Pops BY <1>1, PopsIt DEF CallCompleted
<1>3. /\ \A x \in Blobs \ {b} : SameFrame(x)
      /\ ~OnStack(b)' /\ (\A d \in Blobs : ~OnTodo(b, d)') /\ ~InTypes(b)'
  BY <1>1, <1>2, PopsView DEF RestInv
<1>4. UNCHANGED <<status, isDone, waitingFor, typesResolved, skipped, threadList, network>>
  BY DEF CallCompleted
<1>5. \A x : Same(x) /\ SameLists(x) /\ SameQueue(x)
  BY <1>4 DEF Same, SameLists, SameQueue, Queued
<1>6. Elsewhere(b) BY <1>3, <1>5 DEF Elsewhere
<1>7. /\ status[b] # "null" /\ ~Queued(b) /\ DoneOk(b) /\ FrameOk(Top)
      /\ Begun(b) => Tracks(b)
  BY <1>1, TopBlob
<1>8. ApartInv' BY <1>2, <1>4, ApartPops DEF RestInv
<1>9. LoadInv' BY <1>4, <1>6, <1>7, LoadStays DEF RestInv
<1>10. FrameInv' BY <1>1, <1>2, <1>5, PopsView DEF RestInv
<1>11. DoneOk(b)' BY <1>4, <1>7 DEF DoneOk, CompleteOrError
<1>12. Begun(b)' => Tracks(b)'
  <2>1. \A d \in Blobs : OnTodo(b, d)' <=> OnTodo(b, d)
    BY <1>1, <1>3, <1>7, TopView DEF FrameOk, RestInv
  <2>2. Begun(b)' => Begun(b) BY <1>4, <1>5 DEF Begun, SameQueue
  <2>3. Stable BY <1>4 DEF Stable
  <2> QED BY <1>3, <1>5, <2>1, <2>2, <2>3, TracksStay DEF RestInv
<1>13. DoneInv' /\ TrackInv' /\ CompleteIsWhole'
  BY <1>4, <1>6, <1>11, <1>12, Others DEF RestInv
<1> QED BY <1>8, <1>9, <1>10, <1>13 DEF RestInv

LEMMA GetsFacts ==
  ASSUME TypeOK, RestInv, NEW d \in Blobs, Gets(d)
  PROVE  /\ stack # <<>> /\ d \in Top.todo /\ Top.at \in {"data", "ready", "types"}
         /\ Top.at = "types" => d \in Types(Top.blob) /\ d \notin Qmldirs
<1>1. stack # <<>> /\ Top.at \in {"data", "ready", "types"} BY DEF Gets, InLoop
<1>2. FrameOk(Top) /\ Top.blob \in Blobs BY <1>1, TopBlob
<1>3. d \in Top.todo BY <1>2, BlobAssumption DEF Gets, FrameOk
<1> QED BY <1>1, <1>2, <1>3, QmldirFacts DEF FrameOk

LEMMA SkipSingletonStep ==
  ASSUME TypeOK, TypeOK', UNCHANGED files, RestInv, NEW d \in Blobs, SkipSingleton(d)
  PROVE  RestInv'
<1>0. PICK b : b = Top.blob OBVIOUS
<1>1. /\ stack # <<>> /\ d \in Top.todo /\ Top.at = "types" /\ d \in Types(b) /\ d \notin Qmldirs
  BY <1>0, GetsFacts DEF SkipSingleton, IsCyclicSingleton
<1>2. PICK f \in Frames : /\ Becomes(f) /\ f.blob = b /\ f.at = "types" /\ f.dep = NoBlob
                          /\ f.todo = Top.todo \ {d}
  BY <1>0, <1>1, GotStack DEF SkipSingleton
<1>3. /\ \A x \in Blobs \ {b} : SameFrame(x)
      /\ HasFrame(f)
  BY <1>0, <1>2, BecomesView DEF RestInv
<1>4. /\ UNCHANGED <<status, isDone, waitingFor, typesResolved, threadList, network>>
      /\ skipped' = [skipped EXCEPT ![b] = @ \cup {d}]
  BY <1>0 DEF SkipSingleton
<1>5. /\ b \in Blobs /\ status[b] # "null" /\ ~Queued(b) /\ DoneOk(b) /\ FrameOk(Top)
      /\ Begun(b) <=> status[b] # "error"
      /\ Begun(b) => Tracks(b)
      /\ ~isDone[b]
  BY <1>0, <1>1, TopBlob
<1>6. \A x \in Blobs \ {b} : Same(x) /\ SameQueue(x)
  BY <1>4, <1>5 DEF Same, SameLists, SameQueue, Queued, TypeOK
<1>7. Elsewhere(b) BY <1>3, <1>6 DEF Elsewhere
<1>8. ApartInv' BY <1>0, <1>2, <1>4, ApartBecomes DEF RestInv
<1>9. LoadInv' BY <1>4, <1>5, <1>7, LoadStays DEF RestInv
<1>10. FrameInv'
  <2>1. f.todo \subseteq Types(b) BY <1>0, <1>1, <1>2, <1>5 DEF FrameOk
  <2>2. FrameOk(f)' BY <1>2, <1>4, <1>5, <2>1, FilesFixed DEF FrameOk
  <2> QED BY <1>0, <1>2, <1>6, <2>2, BecomesView DEF RestInv
<1>11. skipped'[b] = skipped[b] \cup {d} BY <1>4, <1>5 DEF TypeOK
<1>12. DoneOk(b)' BY <1>1, <1>4, <1>5, <1>11 DEF DoneOk, CompleteOrError
<1>13. Begun(b)' => Tracks(b)'
  <2> SUFFICES ASSUME Begun(b)' PROVE Tracks(b)'
    OBVIOUS
  <2>1. Tracks(b) BY <1>4, <1>5 DEF Begun
  <2>2. \A e \in Blobs : OnTodo(b, e) <=> e \in Top.todo BY <1>0, <1>1, TopView DEF RestInv
  <2>3. \A e \in Blobs : OnTodo(b, e)' <=> e \in Top.todo \ {d} BY <1>2, <1>3 DEF HasFrame
  <2>4. \A e \in Blobs \ {d} : Tracked(b, e) => Tracked(b, e)'
    BY <1>4, <2>2, <2>3 DEF Tracked, CompleteOrError
  <2>5. InTypes(b) BY <1>0, <1>1, TopView DEF RestInv
  <2>6. TracksImports(b)'
    <3>1. ASSUME NEW q \in Qmldirs, SeenQmldir(b, q)' PROVE SeenQmldir(b, q)
      <4>1. q # d /\ q \in Blobs BY <1>1, BlobSets
      <4>2. ~OnTodo(b, q) BY <2>2, <2>3, <3>1, <4>1 DEF SeenQmldir
      <4> QED BY <1>4, <3>1, <4>2 DEF SeenQmldir
    <3>2. TracksImports(b) /\ {} \in SUBSET Blobs BY <2>1 DEF Tracks
    <3>3. \A e \in Blobs \ skipped'[b] : Tracked(b, e) => Tracked(b, e)' BY <1>11, <2>4
    <3> QED BY <1>5, <1>11, <3>1, <3>2, <3>3, ImportsStay DEF RestInv
  <2>7. TracksTypes(b)'
    BY <1>5, <1>11, <2>1, <2>4, <2>5, FilesFixed, BlobSets DEF Tracks, TracksTypes
  <2> QED BY <2>6, <2>7 DEF Tracks
<1>14. DoneInv' /\ TrackInv' /\ CompleteIsWhole'
  BY <1>4, <1>5, <1>7, <1>11, <1>12, <1>13, Others DEF RestInv
<1> QED BY <1>8, <1>9, <1>10, <1>14 DEF RestInv

\* What addDependency() does to the blob that depends.
LEMMA Depends ==
  ASSUME TypeOK, NEW b \in Blobs, NEW d \in Blobs, AddDependency(b, d), ~isDone[b]
  PROVE  /\ \A x \in Blobs \ {b} : status'[x] = status[x] /\ waitingFor'[x] = waitingFor[x]
         /\ waitingFor[b] \subseteq waitingFor'[b] /\ waitingFor'[b] \subseteq waitingFor[b] \cup {d}
         /\ status'[b] # "error" /\ status[b] # "complete" => CompleteOrError(d) \/ d \in waitingFor'[b]
         /\ \/ status'[b] = status[b] /\ waitingFor'[b] = waitingFor[b]
            \/ ~CompleteOrError(b) /\ status'[b] \in {"waiting", "error"} /\ waitingFor'[b] # {}
<1>1. CASE CompleteOrError(d) \/ CompleteOrError(b) \/ d \in waitingFor[b]
  <2>1. UNCHANGED <<status, waitingFor>> BY <1>1 DEF AddDependency
  <2> QED BY <1>1, <2>1 DEF CompleteOrError
<1>2. CASE ~(CompleteOrError(d) \/ CompleteOrError(b) \/ d \in waitingFor[b])
  <2>1. /\ waitingFor' = [waitingFor EXCEPT ![b] = @ \cup {d}]
        /\ \E s \in {"waiting", "error"} : status' = [status EXCEPT ![b] = s]
    BY <1>2 DEF AddDependency
  <2> QED BY <1>2, <2>1 DEF TypeOK
<1> QED BY <1>1, <1>2

LEMMA GetKnownStep ==
  ASSUME TypeOK, TypeOK', UNCHANGED files, RestInv, NEW d \in Blobs, GetKnown(d)
  PROVE  RestInv'
<1>0. PICK b : b = Top.blob OBVIOUS
<1>1. /\ stack # <<>> /\ d \in Top.todo /\ Top.at \in {"data", "ready", "types"}
      /\ Top.at = "types" => d \in Types(b) /\ d \notin Qmldirs
  BY <1>0, GetsFacts DEF GetKnown
<1>2. PICK f \in Frames :
        /\ Becomes(f) /\ f.blob = b /\ f.at = Top.at /\ f.dep = NoBlob
        /\ f.todo = (Top.todo \ {d}) \cup IF d \in Qmldirs /\ status[d] = "complete"
                                         THEN Imports(d) ELSE {}
  BY <1>0, <1>1, GotStack DEF GetKnown
<1>3. /\ \A x \in Blobs \ {b} : SameFrame(x)
      /\ HasFrame(f)
  BY <1>0, <1>2, BecomesView DEF RestInv
<1>4. /\ UNCHANGED <<isDone, typesResolved, skipped, threadList, network>>
      /\ AddDependency(b, d) /\ status[d] # "null"
  BY <1>0 DEF GetKnown
<1>5. /\ b \in Blobs /\ status[b] # "null" /\ ~Queued(b) /\ DoneOk(b) /\ FrameOk(Top)
      /\ Begun(b) <=> status[b] # "error"
      /\ Begun(b) => Tracks(b)
      /\ ~isDone[b] /\ status[b] # "complete"
  BY <1>0, <1>1, TopBlob
<1>6. /\ \A x \in Blobs \ {b} : status'[x] = status[x] /\ waitingFor'[x] = waitingFor[x]
      /\ waitingFor[b] \subseteq waitingFor'[b] /\ waitingFor'[b] \subseteq waitingFor[b] \cup {d}
      /\ status'[b] # "error" => CompleteOrError(d) \/ d \in waitingFor'[b]
      /\ \/ status'[b] = status[b] /\ waitingFor'[b] = waitingFor[b]
         \/ ~CompleteOrError(b) /\ status'[b] \in {"waiting", "error"} /\ waitingFor'[b] # {}
  BY <1>4, <1>5, Depends
<1>7. \A x \in Blobs \ {b} : Same(x) /\ SameQueue(x)
  BY <1>4, <1>6 DEF Same, SameLists, SameQueue, Queued
<1>8. Elsewhere(b) BY <1>3, <1>7 DEF Elsewhere
<1>9. ApartInv' BY <1>0, <1>2, <1>6, ApartBecomes DEF RestInv
<1>10. LoadInv'
  <2>1. status'[b] # "null" BY <1>5, <1>6
  <2>2. \A e \in waitingFor'[b] : e \in waitingFor[b] \/ status[e] # "null" BY <1>4, <1>6
  <2> QED BY <1>4, <1>5, <1>8, <2>1, <2>2, LoadStays DEF RestInv
<1>11. FrameInv'
  <2>1. f.at = "types" => f.todo \subseteq Types(b) BY <1>0, <1>1, <1>2, <1>5 DEF FrameOk
  <2>2. f.at = "data" /\ status'[b] = "waiting" => waitingFor'[b] # {}
    BY <1>0, <1>2, <1>5, <1>6 DEF FrameOk
  <2>3. FrameOk(f)' BY <1>1, <1>2, <1>4, <1>5, <2>1, <2>2, FilesFixed DEF FrameOk
  <2> QED BY <1>0, <1>2, <1>7, <2>3, BecomesView DEF RestInv
<1>12. status'[b] # "complete" BY <1>5, <1>6
<1>13. DoneOk(b)' BY <1>4, <1>5, <1>12 DEF DoneOk
<1>14. \A x \in Blobs : CompleteOrError(x) => CompleteOrError(x)'
  BY <1>5, <1>6 DEF CompleteOrError
<1>15. Begun(b)' => Tracks(b)'
  <2> SUFFICES ASSUME Begun(b)' PROVE Tracks(b)'
    OBVIOUS
  <2>1. status'[b] # "error" BY DEF Begun
  <2>2. Tracks(b) BY <1>5, <1>6, <2>1 DEF CompleteOrError
  <2>3. \A e \in Blobs : OnTodo(b, e) <=> e \in Top.todo BY <1>0, <1>1, TopView DEF RestInv
  <2>4. \A e \in Blobs : OnTodo(b, e)' <=> e \in f.todo BY <1>2, <1>3 DEF HasFrame
  <2>5. \A e \in Blobs : Tracked(b, e) => Tracked(b, e)'
    <3>1. Tracked(b, d)' BY <1>6, <1>14, <2>1 DEF Tracked
    <3>2. \A e \in Blobs \ {d} : OnTodo(b, e) => OnTodo(b, e)' BY <1>2, <2>3, <2>4
    <3> QED BY <1>6, <1>14, <3>1, <3>2 DEF Tracked
  <2>6. TracksImports(b)'
    <3> DEFINE E == IF d \in Qmldirs /\ status[d] = "complete" THEN Imports(d) ELSE {}
    <3>1. E \in SUBSET Blobs BY BlobSets
    <3>2. \A e \in E : OnTodo(b, e)' BY <1>2, <2>4, <3>1
    <3>3. ASSUME NEW q \in Qmldirs, SeenQmldir(b, q)'
          PROVE  SeenQmldir(b, q) \/ Imports(q) \subseteq E
      <4>1. q \in Blobs /\ q # b /\ status[q] = "complete"
        BY <1>6, <1>12, <3>3, BlobSets DEF SeenQmldir
      <4>2. CASE q = d BY <4>1, <4>2
      <4>3. CASE q # d
        <5>1. ~OnTodo(b, q) BY <1>2, <2>3, <2>4, <3>3, <4>1, <4>3 DEF SeenQmldir
        <5>2. q \notin waitingFor[b] BY <1>6, <3>3 DEF SeenQmldir
        <5> QED BY <4>1, <5>1, <5>2 DEF SeenQmldir
      <4> QED BY <4>2, <4>3
    <3> HIDE DEF E
    <3>4. TracksImports(b) /\ skipped'[b] = skipped[b] BY <1>4, <2>2 DEF Tracks
    <3> QED BY <1>5, <2>5, <3>1, <3>2, <3>3, <3>4, ImportsStay DEF RestInv
  <2>7. InTypes(b)' => InTypes(b) BY <1>0, <1>1, <1>2, <1>3, TopView DEF HasFrame, RestInv
  <2>8. TracksTypes(b)'
    BY <1>4, <1>5, <2>2, <2>5, <2>7, FilesFixed, BlobSets DEF Tracks, TracksTypes
  <2> QED BY <2>6, <2>8 DEF Tracks
<1>16. DoneInv' /\ TrackInv' /\ CompleteIsWhole'
  <2>1. status[b] = "error" => status'[b] = "error" BY <1>6 DEF CompleteOrError
  <2>2. skipped[b] \subseteq skipped'[b] BY <1>4
  <2> QED BY <1>5, <1>8, <1>12, <1>13, <1>15, <2>1, <2>2, Others DEF RestInv
<1> QED BY <1>9, <1>10, <1>11, <1>16 DEF RestInv

LEMMA FailStep ==
  ASSUME TypeOK, TypeOK', UNCHANGED files, RestInv, Fail
  PROVE  RestInv'
<1>0. PICK b : b = Top.blob OBVIOUS
<1>1. stack # <<>> /\ Top.at \in {"data", "ready", "types"} BY FailStack DEF Fail, InLoop
<1>2. b \in Blobs BY <1>0, <1>1, TopBlob
<1>3. PICK f \in Frames :
        /\ Becomes(f) /\ f.blob = b /\ f.at = "settle" /\ f.dep = NoBlob /\ f.todo = {}
  <2>1. "settle" \in FrameKinds /\ {} \in SUBSET Blobs BY DEF FrameKinds
  <2> QED BY <1>0, <1>2, <2>1, FailStack, FrameType
<1>4. /\ \A x \in Blobs \ {b} : SameFrame(x)
      /\ HasFrame(f)
  BY <1>0, <1>3, BecomesView DEF RestInv
<1>5. /\ UNCHANGED <<isDone, skipped, threadList, network>>
      /\ status' = [status EXCEPT ![b] = "error"]
      /\ waitingFor' = [waitingFor EXCEPT ![b] = {}]
      /\ typesResolved' = typesResolved \/ typesResolved' = [typesResolved EXCEPT ![b] = TRUE]
  BY <1>0 DEF Fail, SetError
<1>6. /\ status[b] # "null" /\ ~Queued(b) /\ DoneOk(b) /\ FrameOk(Top)
      /\ ~isDone[b] /\ status[b] # "complete"
  BY <1>0, <1>1, TopBlob
<1>7. /\ status'[b] = "error" /\ waitingFor'[b] = {}
      /\ \A x \in Blobs \ {b} : /\ status'[x] = status[x] /\ waitingFor'[x] = waitingFor[x]
                                /\ typesResolved'[x] = typesResolved[x]
  BY <1>2, <1>5 DEF TypeOK
<1>8. \A x \in Blobs \ {b} : Same(x) /\ SameQueue(x)
  BY <1>5, <1>7 DEF Same, SameLists, SameQueue, Queued
<1>9. Elsewhere(b) BY <1>4, <1>8 DEF Elsewhere
<1>10. ApartInv' BY <1>0, <1>3, <1>7, ApartBecomes DEF RestInv
<1>11. LoadInv' BY <1>2, <1>5, <1>6, <1>7, <1>9, LoadStays DEF RestInv
<1>12. FrameInv'
  <2>1. FrameOk(f)' BY <1>3, <1>5, <1>6, <1>7 DEF FrameOk
  <2> QED BY <1>0, <1>3, <1>8, <2>1, BecomesView DEF RestInv
<1>13. DoneOk(b)' BY <1>5, <1>6, <1>7 DEF DoneOk
<1>14. ~Begun(b)' BY <1>7 DEF Begun
<1>15. DoneInv' /\ TrackInv' /\ CompleteIsWhole'
  BY <1>2, <1>5, <1>6, <1>7, <1>9, <1>13, <1>14, Others DEF RestInv
<1> QED BY <1>10, <1>11, <1>12, <1>15 DEF RestInv

\* The end of a loop: nothing is left to look at.
LEMMA LoopEndsFacts ==
  ASSUME TypeOK, RestInv, LoopEnds, NEW b, b = Top.blob
  PROVE  /\ stack # <<>> /\ b \in Blobs /\ Top.todo = {} /\ Top.at \in {"data", "ready", "types"}
         /\ \E f \in Frames :
              /\ Becomes(f) /\ f.blob = b /\ f.dep = NoBlob
              /\ \/ /\ f.at = "types" /\ f.todo = Types(b)
                    /\ status' = [status EXCEPT ![b] = "waiting"] /\ status[b] # "error"
                    /\ UNCHANGED typesResolved
                 \/ /\ f.at = "settle" /\ f.todo = {} /\ typesResolved[b]
                    /\ status' = [status EXCEPT ![b] = "waiting"] /\ status[b] # "error"
                    /\ UNCHANGED typesResolved
                 \/ /\ f.at = "settle" /\ f.todo = {} /\ Top.at # "types"
                    /\ status[b] = "error" \/ waitingFor[b] # {}
                    /\ UNCHANGED <<status, typesResolved>>
                 \/ /\ f.at = "settle" /\ f.todo = {} /\ Top.at = "types" /\ UNCHANGED status
                    /\ typesResolved' = [typesResolved EXCEPT ![b] = TRUE]
<1>1. stack # <<>> /\ Top.todo = {} /\ Top.at \in {"data", "ready", "types"}
  BY LoopEndsStack DEF LoopEnds, InLoop
<1>2. b \in Blobs /\ FrameOk(Top) BY <1>1, TopBlob
<1> DEFINE s == Frame(b, "settle", {})
           t == Frame(b, "types", Types(b))
<1>3. /\ s.blob = b /\ s.at = "settle" /\ s.dep = NoBlob /\ s.todo = {}
      /\ t.blob = b /\ t.at = "types" /\ t.dep = NoBlob /\ t.todo = Types(b)
  BY DEF Frame
<1>4. ReadyForTypes(b) => status[b] # "error" BY <1>1 DEF ReadyForTypes
<1>5. Top.at # "types" /\ ~ReadyForTypes(b) => status[b] = "error" \/ waitingFor[b] # {}
  BY <1>1, <1>2 DEF ReadyForTypes, FrameOk
<1> HIDE DEF s, t
<1>6. \/ /\ ReadyForTypes(b)
         /\ status' = [status EXCEPT ![b] = "waiting"] /\ UNCHANGED typesResolved
         /\ \/ typesResolved[b] /\ s \in Frames /\ Becomes(s)
            \/ t \in Frames /\ Becomes(t)
      \/ /\ Top.at # "types" /\ ~ReadyForTypes(b)
         /\ UNCHANGED <<status, typesResolved>>
         /\ s \in Frames /\ Becomes(s)
      \/ /\ Top.at = "types" /\ UNCHANGED status
         /\ typesResolved' = [typesResolved EXCEPT ![b] = TRUE]
         /\ s \in Frames /\ Becomes(s)
  BY LoopEndsStack DEF s, t
<1> QED BY <1>1, <1>2, <1>3, <1>4, <1>5, <1>6

LEMMA LoopEndsStep ==
  ASSUME TypeOK, TypeOK', UNCHANGED files, RestInv, LoopEnds
  PROVE  RestInv'
<1>0. PICK b : b = Top.blob OBVIOUS
<1>1. /\ stack # <<>> /\ b \in Blobs /\ Top.todo = {} /\ Top.at \in {"data", "ready", "types"}
  BY <1>0, LoopEndsFacts
<1>2. PICK f \in Frames :
        /\ Becomes(f) /\ f.blob = b /\ f.dep = NoBlob
        /\ \/ /\ f.at = "types" /\ f.todo = Types(b)
              /\ status' = [status EXCEPT ![b] = "waiting"] /\ status[b] # "error"
              /\ UNCHANGED typesResolved
           \/ /\ f.at = "settle" /\ f.todo = {} /\ typesResolved[b]
              /\ status' = [status EXCEPT ![b] = "waiting"] /\ status[b] # "error"
              /\ UNCHANGED typesResolved
           \/ /\ f.at = "settle" /\ f.todo = {} /\ Top.at # "types"
              /\ status[b] = "error" \/ waitingFor[b] # {}
              /\ UNCHANGED <<status, typesResolved>>
           \/ /\ f.at = "settle" /\ f.todo = {} /\ Top.at = "types" /\ UNCHANGED status
              /\ typesResolved' = [typesResolved EXCEPT ![b] = TRUE]
  BY <1>0, LoopEndsFacts
<1>3. /\ \A x \in Blobs \ {b} : SameFrame(x)
      /\ HasFrame(f)
  BY <1>0, <1>2, BecomesView DEF RestInv
<1>4. UNCHANGED <<isDone, waitingFor, skipped, threadList, network>>
  BY DEF LoopEnds
<1>5. /\ status[b] # "null" /\ ~Queued(b) /\ DoneOk(b) /\ FrameOk(Top)
      /\ Begun(b) <=> status[b] # "error"
      /\ Begun(b) => Tracks(b)
      /\ ~isDone[b] /\ status[b] # "complete"
  BY <1>0, <1>1, TopBlob
<1>6. /\ status'[b] = status[b] \/ (status'[b] = "waiting" /\ status[b] # "error")
      /\ \A x \in Blobs \ {b} : status'[x] = status[x] /\ (typesResolved'[x] <=> typesResolved[x])
      /\ f.at = "settle" =>
           status'[b] = "error" \/ waitingFor[b] # {} \/ typesResolved'[b]
      /\ typesResolved'[b] => typesResolved[b] \/ Top.at = "types"
      /\ f.at = "types" => f.todo = Types(b)
      /\ f.at = "types" \/ (f.at = "settle" /\ f.todo = {})
  BY <1>1, <1>2 DEF TypeOK
<1>7. \A x \in Blobs \ {b} : Same(x) /\ SameQueue(x)
  BY <1>4, <1>6 DEF Same, SameLists, SameQueue, Queued
<1>8. Elsewhere(b) BY <1>3, <1>7 DEF Elsewhere
<1>9. ApartInv' BY <1>0, <1>2, <1>4, ApartBecomes DEF RestInv
<1>10. status'[b] \notin {"null", "complete"} BY <1>5, <1>6
<1>11. LoadInv' BY <1>1, <1>4, <1>5, <1>8, <1>10, LoadStays DEF RestInv
<1>12. FrameInv'
  <2>1. FrameOk(f)' BY <1>2, <1>4, <1>5, <1>6, FilesFixed DEF FrameOk
  <2> QED BY <1>0, <1>2, <1>7, <2>1, BecomesView DEF RestInv
<1>13. DoneOk(b)' BY <1>4, <1>5, <1>10 DEF DoneOk
<1>14. Begun(b)' => Tracks(b)'
  <2> SUFFICES ASSUME Begun(b)' PROVE Tracks(b)'
    OBVIOUS
  <2>1. Tracks(b) BY <1>5, <1>6 DEF Begun
  <2>2. \A e \in Blobs : ~OnTodo(b, e) BY <1>0, <1>1, TopView DEF RestInv
  <2>3. \A e \in Blobs : OnTodo(b, e)' <=> e \in f.todo BY <1>2, <1>3 DEF HasFrame
  <2>4. \A x \in Blobs : CompleteOrError(x) => CompleteOrError(x)'
    BY <1>5, <1>6 DEF CompleteOrError
  <2>5. \A e \in Blobs : Tracked(b, e) => Tracked(b, e)' BY <1>4, <2>2, <2>4 DEF Tracked
  <2>6. TracksImports(b)'
    <3>1. ASSUME NEW q \in Qmldirs, SeenQmldir(b, q)' PROVE SeenQmldir(b, q)
      <4>1. q \in Blobs /\ q # b /\ status[q] = "complete"
        BY <1>1, <1>6, <1>10, <3>1, BlobSets DEF SeenQmldir
      <4> QED BY <1>4, <2>2, <3>1, <4>1 DEF SeenQmldir
    <3>2. TracksImports(b) /\ {} \in SUBSET Blobs /\ skipped'[b] = skipped[b]
      BY <1>4, <2>1 DEF Tracks
    <3> QED BY <1>1, <2>5, <3>1, <3>2, ImportsStay DEF RestInv
  <2>7. InTypes(b) <=> Top.at = "types" BY <1>0, <1>1, TopView DEF RestInv
  <2>8. InTypes(b)' <=> f.at = "types" BY <1>2, <1>3 DEF HasFrame
  <2>9. TracksTypes(b)'
    <3>1. CASE f.at = "types" BY <1>1, <1>6, <2>3, <3>1, FilesFixed, BlobSets DEF TracksTypes, Tracked
    <3>2. CASE f.at # "types"
      <4>1. typesResolved'[b] \/ InTypes(b)' => typesResolved[b] \/ InTypes(b)
        BY <1>6, <2>7, <2>8, <3>2
      <4> QED BY <1>1, <1>4, <2>1, <2>5, <4>1, FilesFixed, BlobSets DEF Tracks, TracksTypes
    <3> QED BY <3>1, <3>2
  <2> QED BY <2>6, <2>9 DEF Tracks
<1>15. DoneInv' /\ TrackInv' /\ CompleteIsWhole'
  <2>1. status[b] = "error" => status'[b] = "error" BY <1>6
  <2>2. skipped[b] \subseteq skipped'[b] BY <1>4
  <2> QED BY <1>1, <1>5, <1>8, <1>10, <1>13, <1>14, <2>1, <2>2, Others DEF RestInv
<1> QED BY <1>9, <1>11, <1>12, <1>15 DEF RestInv

\* A blob that is done has all that it recorded, when its callback has no error of theirs.
LEMMA RecordedIsTracked ==
  ASSUME TypeOK, RestInv, stack # <<>>, Top.at = "settle", NEW b \in Blobs, b = Top.blob,
         waitingFor[b] = {}, status[b] # "error"
  PROVE  /\ \A d \in Recorded(b) : CompleteOrError(d)
         /\ \A d \in Blobs : ~OnTodo(b, d)
         /\ ~InTypes(b) /\ typesResolved[b]
         /\ \E C \in SUBSET Blobs : Seen(b, C) /\ \A d \in C \ skipped[b] : CompleteOrError(d)
<1>1. /\ FrameOk(Top) /\ Tracks(b) BY TopBlob
<1>2. Top.todo = {} /\ typesResolved[b] BY <1>1 DEF FrameOk
<1>3. /\ \A d \in Blobs : ~OnTodo(b, d)
      /\ ~InTypes(b)
  BY <1>2, TopView DEF RestInv
<1>4. \A d \in Blobs : Tracked(b, d) => CompleteOrError(d) BY <1>3 DEF Tracked
<1>5. PICK C \in SUBSET Blobs : TracksIn(b, C) BY <1>1 DEF Tracks, TracksImports
<1>6. \A d \in Types(b) \ skipped[b] : CompleteOrError(d)
  BY <1>1, <1>2, <1>4, BlobSets DEF Tracks, TracksTypes
<1>7. Seen(b, C) BY <1>3, <1>5 DEF TracksIn, Seen, SeenQmldir
<1>8. \A d \in C \ skipped[b] : CompleteOrError(d) BY <1>4, <1>5 DEF TracksIn
<1>9. Provided(b) \subseteq C BY <1>7 DEF Provided
<1> QED BY <1>2, <1>3, <1>6, <1>7, <1>8, <1>9 DEF Recorded

LEMMA DoneStep ==
  ASSUME TypeOK, TypeOK', UNCHANGED files, RestInv, Settle, NEW b \in Blobs, b = Top.blob,
         waitingFor[b] = {}, Done(b), NEW f \in Frames, Becomes(f), f = Frame(b, "notify", {})
  PROVE  RestInv'
<1>1. stack # <<>> /\ Top.at = "settle" BY DEF Settle, At
<1>2. f.blob = b /\ f.at = "notify" /\ f.dep = NoBlob /\ f.todo = {} BY DEF Frame
<1>3. /\ \A x \in Blobs \ {b} : SameFrame(x)
      /\ HasFrame(f)
  BY <1>2, BecomesView DEF RestInv
<1>4. UNCHANGED <<waitingFor, typesResolved, skipped, threadList, network>>
  BY DEF Settle
<1>5. /\ status[b] # "null" /\ ~Queued(b) /\ DoneOk(b) /\ FrameOk(Top)
      /\ Begun(b) <=> status[b] # "error"
      /\ Begun(b) => Tracks(b)
      /\ ~isDone[b] /\ status[b] # "complete"
  BY <1>1, TopBlob
<1>6. /\ isDone'[b] /\ \A x \in Blobs \ {b} : isDone'[x] = isDone[x] /\ status'[x] = status[x]
      /\ \/ status'[b] = "error"
         \/ /\ status'[b] = "complete" /\ status[b] # "error"
            /\ \A d \in Recorded(b) : status[d] # "error"
  <2>1. isDone'[b] /\ \A x \in Blobs \ {b} : isDone'[x] = isDone[x] BY DEF Done, TypeOK
  <2>2. CASE status[b] = "error" /\ UNCHANGED status BY <2>1, <2>2
  <2>3. CASE status' = [status EXCEPT ![b] = "error"] BY <2>1, <2>3 DEF TypeOK
  <2>4. CASE /\ status[b] # "error" /\ \A d \in Recorded(b) : status[d] # "error"
             /\ status' = [status EXCEPT ![b] = "complete"]
    BY <2>1, <2>4 DEF TypeOK
  <2> QED BY <2>2, <2>3, <2>4 DEF Done
<1>7. \A x \in Blobs \ {b} : Same(x) /\ SameQueue(x)
  BY <1>4, <1>6 DEF Same, SameLists, SameQueue, Queued
<1>8. Elsewhere(b) BY <1>3, <1>7 DEF Elsewhere
<1>9. ApartInv' BY <1>2, <1>4, ApartBecomes DEF RestInv
<1>10. LoadInv'
  <2>1. status'[b] # "null" BY <1>6
  <2> QED BY <1>4, <1>5, <1>8, <2>1, LoadStays DEF RestInv
<1>11. FrameInv'
  <2>1. FrameOk(f)' BY <1>2, <1>6 DEF FrameOk
  <2> QED BY <1>2, <1>7, <2>1, BecomesView DEF RestInv
<1>12. DoneOk(b)' BY <1>4, <1>5, <1>6 DEF DoneOk, CompleteOrError
<1>13. Stable BY <1>5, <1>6, <1>7 DEF Stable, Same
<1>14. CASE status'[b] = "error"
  <2>1. ~Begun(b)' BY <1>14 DEF Begun
  <2>2. DoneInv' /\ TrackInv' /\ CompleteIsWhole'
    BY <1>4, <1>5, <1>8, <1>12, <1>14, <2>1, Others DEF RestInv
  <2> QED BY <1>9, <1>10, <1>11, <2>2 DEF RestInv
<1>15. CASE status'[b] = "complete" /\ status[b] # "error"
            /\ \A d \in Recorded(b) : status[d] # "error"
  <2>1. /\ \A d \in Recorded(b) : CompleteOrError(d)
        /\ \A d \in Blobs : ~OnTodo(b, d)
        /\ ~InTypes(b)
        /\ \E C \in SUBSET Blobs : Seen(b, C) /\ \A d \in C \ skipped[b] : CompleteOrError(d)
    BY <1>1, <1>15, RecordedIsTracked
  <2>2. \A d \in Blobs : OnTodo(b, d)' <=> OnTodo(b, d) BY <1>2, <1>3, <2>1 DEF HasFrame
  <2>3. ~InTypes(b)' BY <1>2, <1>3 DEF HasFrame
  <2>4. SameLists(b) BY <1>4 DEF SameLists
  <2>5. Begun(b) BY <1>5, <1>15
  <2>6. Tracks(b)' BY <1>13, <2>2, <2>3, <2>4, <2>5, TracksStay DEF RestInv
  <2>7. Recorded(b)' \subseteq Recorded(b)
    <3>1. PICK C \in SUBSET Blobs : Seen(b, C) /\ \A d \in C \ skipped[b] : CompleteOrError(d)
      BY <2>1
    <3>2. ASSUME NEW q \in C \cap Qmldirs, status'[q] = "complete" PROVE status[q] = "complete"
      <4>1. q \notin skipped[b] BY DEF RestInv, DoneInv, DoneOk
      <4>2. CompleteOrError(q) BY <3>1, <4>1
      <4>3. q # b BY <1>5, <1>15, <4>2 DEF CompleteOrError
      <4> QED BY <1>6, <3>2, <4>3
    <3>3. Provided(b)' \subseteq Provided(b) BY <3>1, <3>2, ProvidedIn
    <3> QED BY <1>4, <3>3, FilesFixed DEF Recorded
  <2>8. \A d \in Recorded(b)' : status'[d] = "complete"
    BY <1>13, <1>15, <2>1, <2>7, BlobSets DEF Stable, CompleteOrError
  <2>9. DoneInv' /\ TrackInv' /\ CompleteIsWhole'
    BY <1>4, <1>5, <1>8, <1>12, <1>15, <2>6, <2>8, Others DEF RestInv
  <2> QED BY <1>9, <1>10, <1>11, <2>9 DEF RestInv
<1> QED BY <1>6, <1>14, <1>15

LEMMA StillWaitsStep ==
  ASSUME TypeOK, TypeOK', UNCHANGED files, RestInv, Settle, NEW b \in Blobs, b = Top.blob,
         Pops, UNCHANGED <<isDone, errors>>,
         status' = IF status[b] = "error" THEN status ELSE [status EXCEPT ![b] = "waiting"]
  PROVE  RestInv'
<1>1. stack # <<>> /\ Top.at = "settle" BY DEF Settle, At
<1>2. /\ \A x \in Blobs \ {b} : SameFrame(x)
      /\ ~OnStack(b)' /\ (\A d \in Blobs : ~OnTodo(b, d)') /\ ~InTypes(b)'
  BY PopsView DEF RestInv
<1>3. UNCHANGED <<isDone, waitingFor, typesResolved, skipped, threadList, network>>
  BY DEF Settle
<1>4. /\ status[b] # "null" /\ ~Queued(b) /\ DoneOk(b) /\ FrameOk(Top)
      /\ Begun(b) <=> status[b] # "error"
      /\ Begun(b) => Tracks(b)
      /\ ~isDone[b] /\ status[b] # "complete"
  BY <1>1, TopBlob
<1>5. /\ status'[b] = (IF status[b] = "error" THEN "error" ELSE "waiting")
      /\ \A x \in Blobs \ {b} : status'[x] = status[x]
  BY DEF TypeOK
<1>6. \A x \in Blobs \ {b} : Same(x) /\ SameQueue(x)
  BY <1>3, <1>5 DEF Same, SameLists, SameQueue, Queued
<1>7. Elsewhere(b) BY <1>2, <1>6 DEF Elsewhere
<1>8. ApartInv' BY <1>3, ApartPops DEF RestInv
<1>9. LoadInv'
  <2>1. status'[b] # "null" BY <1>5
  <2> QED BY <1>3, <1>4, <1>7, <2>1, LoadStays DEF RestInv
<1>10. FrameInv' BY <1>6, PopsView DEF RestInv
<1>11. DoneOk(b)' BY <1>3, <1>4, <1>5 DEF DoneOk
<1>12. Stable BY <1>4, <1>5 DEF Stable
<1>13. Begun(b)' => Tracks(b)'
  <2>1. \A d \in Blobs : OnTodo(b, d)' <=> OnTodo(b, d)
    BY <1>1, <1>2, <1>4, TopView DEF FrameOk, RestInv
  <2>2. SameLists(b) BY <1>3 DEF SameLists
  <2>3. Begun(b)' => Begun(b) BY <1>4, <1>5 DEF Begun
  <2> QED BY <1>2, <1>12, <2>1, <2>2, <2>3, TracksStay DEF RestInv
<1>14. DoneInv' /\ TrackInv' /\ CompleteIsWhole'
  BY <1>3, <1>4, <1>5, <1>7, <1>11, <1>13, Others DEF RestInv
<1> QED BY <1>8, <1>9, <1>10, <1>14 DEF RestInv

LEMMA SettleStep ==
  ASSUME TypeOK, TypeOK', UNCHANGED files, RestInv, Settle
  PROVE  RestInv'
<1>1. PICK b \in Blobs : b = Top.blob BY SettleStack, TopFacts
<1>2. CASE /\ waitingFor[b] = {} /\ Done(b) /\ Frame(b, "notify", {}) \in Frames
           /\ Becomes(Frame(b, "notify", {}))
  BY <1>1, <1>2, DoneStep
<1>3. CASE /\ status' = IF status[b] = "error" THEN status ELSE [status EXCEPT ![b] = "waiting"]
           /\ Pops /\ UNCHANGED <<isDone, errors>>
  BY <1>1, <1>3, StillWaitsStep
<1> QED BY <1>1, <1>2, <1>3, SettleStack

LEMMA NotifyStep ==
  ASSUME TypeOK, TypeOK', UNCHANGED files, ListsInv, RestInv, NotifyWaiting
  PROVE  RestInv'
<1>0. PICK b : b = Top.blob OBVIOUS
<1> DEFINE todo == IF b \in Qmldirs /\ status[b] = "complete" THEN Imports(b) ELSE {}
<1>1. PICK w : w = waitingOnMe[b][Len(waitingOnMe[b])] OBVIOUS
<1>2. PICK f \in Frames : f = Frame(w, "ready", todo) /\ Pushes(f, Top)
  BY <1>0, <1>1, NotifyStack
<1>3. /\ stack # <<>> /\ Top.at = "notify" /\ b \in Blobs /\ w \in Blobs
      /\ Len(waitingOnMe[b]) \in DOMAIN waitingOnMe[b]
  <2>1. /\ stack # <<>> /\ b \in Blobs /\ waitingOnMe[b] \in Seq(Blobs) /\ w \in Blobs
        /\ Len(waitingOnMe[b]) \in 1 .. Len(waitingOnMe[b])
    BY <1>0, <1>1, NotifyStack
  <2>2. DOMAIN waitingOnMe[b] = 1 .. Len(waitingOnMe[b]) BY <2>1
  <2> QED BY <2>1, <2>2 DEF NotifyWaiting, At
<1>4. f.blob = w /\ f.at = "ready" /\ f.dep = NoBlob /\ f.todo = todo BY <1>2 DEF Frame
<1>5. b \in waitingFor[w] BY <1>1, <1>3 DEF ListsInv, OnList
<1>6. /\ UNCHANGED <<status, isDone, typesResolved, skipped, threadList, network>>
      /\ waitingFor' = [waitingFor EXCEPT ![w] = @ \ {b}]
  BY <1>0, <1>1 DEF NotifyWaiting
<1>7. /\ waitingFor'[w] = waitingFor[w] \ {b}
      /\ \A x \in Blobs \ {w} : waitingFor'[x] = waitingFor[x]
  BY <1>3, <1>6 DEF TypeOK
<1>8. CompleteOrError(b) /\ waitingFor[b] = {} /\ FrameOk(Top) BY <1>0, <1>3, TopBlob
<1>9. ApartInv' /\ ~OnStack(w)
  BY <1>0, <1>2, <1>3, <1>4, <1>5, <1>7, <1>8, ApartNotifies DEF RestInv
<1>10. /\ \A x \in Blobs \ {w} : SameFrame(x)
       /\ HasFrame(f)
  BY <1>2, <1>3, <1>4, <1>9, PushesView, TopFacts DEF RestInv
<1>11. status[w] # "null" /\ ~Queued(w) /\ ~isDone[w] /\ status[w] # "complete" /\ DoneOk(w)
  BY <1>3, <1>5 DEF RestInv, LoadInv, Untouched, DoneInv, DoneOk
<1>12. \A x \in Blobs \ {w} : Same(x) /\ SameQueue(x)
  BY <1>6, <1>7 DEF Same, SameLists, SameQueue, Queued
<1>13. Elsewhere(w) BY <1>10, <1>12 DEF Elsewhere
<1>14. LoadInv' BY <1>3, <1>6, <1>7, <1>11, <1>13, LoadStays DEF RestInv
<1>15. FrameInv'
  <2>1. FrameOk(f)' BY <1>4, <1>6, <1>11 DEF FrameOk
  <2> QED BY <1>2, <1>3, <1>4, <1>8, <1>9, <1>12, <2>1, PushesView, TopFacts DEF RestInv, FrameOk
<1>16. DoneOk(w)' BY <1>6, <1>11 DEF DoneOk
<1>17. Begun(w)' => Tracks(w)'
  <2> SUFFICES ASSUME Begun(w)' PROVE Tracks(w)'
    OBVIOUS
  <2>1. Tracks(w) BY <1>3, <1>6, <1>11 DEF Begun, RestInv, TrackInv
  <2>2. \A e \in Blobs : ~OnTodo(w, e) BY <1>9 DEF OnTodo, OnStack
  <2>3. \A e \in Blobs : OnTodo(w, e)' <=> e \in todo BY <1>4, <1>10 DEF HasFrame
  <2>4. \A e \in Blobs : CompleteOrError(e) => CompleteOrError(e)' BY <1>6 DEF CompleteOrError
  <2>5. \A e \in Blobs : Tracked(w, e) => Tracked(w, e)'
    BY <1>7, <1>8, <2>2, <2>4 DEF Tracked
  <2>6. TracksImports(w)'
    <3>1. todo \in SUBSET Blobs /\ \A e \in todo : OnTodo(w, e)' BY <1>3, <2>3, BlobSets
    <3>2. ASSUME NEW q \in Qmldirs, SeenQmldir(w, q)'
          PROVE  SeenQmldir(w, q) \/ Imports(q) \subseteq todo
      <4>1. q \in Blobs /\ status[q] = "complete" BY <1>3, <1>6, <3>2, BlobSets DEF SeenQmldir
      <4>2. CASE q = b BY <4>1, <4>2
      <4>3. CASE q # b
        <5>1. q \notin waitingFor[w] BY <1>7, <3>2, <4>3 DEF SeenQmldir
        <5> QED BY <2>2, <4>1, <5>1 DEF SeenQmldir
      <4> QED BY <4>2, <4>3
    <3>3. TracksImports(w) /\ skipped'[w] = skipped[w] BY <1>6, <2>1 DEF Tracks
    <3> HIDE DEF todo
    <3> QED BY <1>3, <2>5, <3>1, <3>2, <3>3, ImportsStay DEF RestInv
  <2>7. ~InTypes(w)' BY <1>4, <1>10 DEF HasFrame
  <2>8. TracksTypes(w)'
    BY <1>3, <1>6, <2>1, <2>5, <2>7, FilesFixed, BlobSets DEF Tracks, TracksTypes
  <2> QED BY <2>6, <2>8 DEF Tracks
<1>18. DoneInv' /\ TrackInv' /\ CompleteIsWhole'
  BY <1>3, <1>6, <1>11, <1>13, <1>16, <1>17, Others DEF RestInv
<1> QED BY <1>9, <1>14, <1>15, <1>18 DEF RestInv

\* The loading of d is asked for or begins.
Fresh(d) ==
  \/ Queued(d)' /\ ~OnStack(d)' /\ status' = [status EXCEPT ![d] = "loading"]
  \/ ~Queued(d)' /\ \E f \in Frames : FirstFrame(f, d) /\ HasFrame(f)

LEMMA Begins ==
  ASSUME TypeOK, TypeOK', UNCHANGED <<files, isDone, typesResolved, skipped>>, RestInv,
         NEW d \in Blobs, status[d] \in {"null", "loading"}, Untouched(d),
         waitingFor' = waitingFor \/ OnlyWaits(d), Fresh(d),
         \A x \in Blobs \ {d} : SameFrame(x) /\ SameQueue(x),
         \A i, j \in DOMAIN threadList' : threadList'[i] = threadList'[j] => i = j,
         \A i \in DOMAIN threadList' : threadList'[i] \notin network'
  PROVE  /\ LoadInv' /\ DoneInv' /\ TrackInv' /\ CompleteIsWhole'
         /\ \A x \in Blobs \ {d} : Same(x)
         /\ \A x \in Blobs : waitingFor'[x] = waitingFor[x]
         /\ status'[d] \in {"loading", "error"}
<1>1. waitingFor[d] = {} /\ ~isDone[d] /\ ~typesResolved[d] BY DEF Untouched
<1>2. \A x \in Blobs : waitingFor'[x] = waitingFor[x] BY <1>1 DEF OnlyWaits, TypeOK
<1>3. /\ status'[d] \in {"loading", "error"}
      /\ Queued(d)' => status'[d] = "loading"
      /\ \A x \in Blobs \ {d} : status'[x] = status[x]
  <2>1. /\ \E s \in {"loading", "error"} : status' = [status EXCEPT ![d] = s]
        /\ Queued(d)' => status' = [status EXCEPT ![d] = "loading"]
    BY FirstFrameType DEF Fresh
  <2> QED BY <2>1 DEF TypeOK
<1>4. \A x \in Blobs \ {d} : Same(x) BY <1>2, <1>3 DEF Same, SameLists
<1>5. Elsewhere(d) BY <1>4 DEF Elsewhere
<1>6. Queued(d)' => ~OnStack(d)' BY DEF Fresh
<1>7. LoadInv'
  <2>1. ASSUME NEW x \in Blobs, Queued(x)' PROVE status'[x] = "loading" /\ Untouched(x)'
    <3>1. CASE x = d BY <1>1, <1>2, <1>3, <1>6, <2>1, <3>1 DEF Untouched
    <3>2. CASE x # d
      BY <1>4, <2>1, <3>2 DEF RestInv, LoadInv, Untouched, Same, SameLists, SameFrame, SameQueue
    <3> QED BY <3>1, <3>2
  <2>2. ASSUME NEW x \in Blobs, status'[x] = "null" PROVE Untouched(x)'
    BY <1>3, <1>4, <2>2 DEF RestInv, LoadInv, Untouched, Same, SameLists, SameFrame
  <2>3. ASSUME NEW x \in Blobs, NEW e \in Blobs, e \in waitingFor'[x] PROVE status'[e] # "null"
    <3>1. status[e] # "null" BY <1>2, <2>3 DEF RestInv, LoadInv
    <3> QED BY <1>3, <3>1
  <2> QED BY <2>1, <2>2, <2>3 DEF LoadInv
<1>8. DoneOk(d)' BY <1>1, <1>3 DEF RestInv, DoneInv, DoneOk
<1>9. Begun(d)' => Tracks(d)'
  <2> SUFFICES ASSUME Begun(d)' PROVE Tracks(d)'
    OBVIOUS
  <2>1. PICK f \in Frames : FirstFrame(f, d) /\ HasFrame(f) BY DEF Begun, Fresh
  <2>2. f.blob = d /\ f.at = "data" /\ f.todo = OwnImports(d)
    <3>1. status' # [status EXCEPT ![d] = "error"] BY DEF Begun, TypeOK
    <3> QED BY <2>1, <3>1, FirstFrameType
  <2>3. /\ \A e \in Blobs : OnTodo(d, e)' <=> e \in OwnImports(d)
        /\ ~InTypes(d)'
    BY <2>1, <2>2 DEF HasFrame
  <2>4. \A e \in OwnImports(d) : OnTodo(d, e)' BY <2>3, BlobSets
  <2>5. TracksIn(d, OwnImports(d))'
    BY <2>4, FilesFixed DEF TracksIn, Tracked, SeenQmldir
  <2>6. TracksImports(d)'
    <3>1. OwnImports(d)' = OwnImports(d) /\ OwnImports(d) \in SUBSET Blobs
      BY FilesFixed, BlobSets
    <3> QED BY <2>5, <3>1 DEF TracksImports
  <2>7. TracksTypes(d)' BY <1>1, <2>3 DEF TracksTypes
  <2> QED BY <2>6, <2>7 DEF Tracks
<1>10. DoneInv' /\ TrackInv' /\ CompleteIsWhole'
  BY <1>1, <1>3, <1>5, <1>8, <1>9, Others DEF RestInv
<1> QED BY <1>2, <1>3, <1>4, <1>7, <1>10

LEMMA WaiterFacts ==
  ASSUME TypeOK, stack # <<>>, NEW d
  PROVE  /\ Waiter(d).blob = Top.blob /\ Waiter(d).at = Top.at /\ Waiter(d).todo = Top.todo
         /\ Waiter(d).dep = d
BY TopFacts DEF Waiter, Frames

LEMMA GetUnknownStep ==
  ASSUME TypeOK, TypeOK', UNCHANGED files, RestInv, NEW d \in Blobs, GetUnknown(d)
  PROVE  RestInv'
<1>0. PICK b : b = Top.blob OBVIOUS
<1>1. /\ stack # <<>> /\ d \in Top.todo /\ Top.at \in {"data", "ready", "types"}
  BY GetsFacts DEF GetUnknown
<1>2. /\ status[d] = "null" /\ Untouched(d) /\ ~Queued(d)
      /\ \A x \in Blobs : d \notin waitingFor[x]
  BY DEF GetUnknown, RestInv, LoadInv
<1>3. /\ b \in Blobs /\ FrameOk(Top) /\ ~isDone[b] /\ b # d /\ Top \in Frames
  <2>1. b \in Blobs /\ FrameOk(Top) /\ ~isDone[b] BY <1>0, <1>1, TopBlob
  <2>2. OnStack(b) BY <1>0, <1>1, TopView DEF RestInv
  <2> QED BY <1>1, <1>2, <2>1, <2>2, TopFacts DEF Untouched
<1>4. PICK g \in Frames : /\ g = Waiter(d) /\ g.blob = b /\ g.at = Top.at /\ g.todo = Top.todo
                          /\ g.dep = d
  BY <1>0, <1>1, WaiterFacts, GetUnknownStack
<1>5. /\ OnlyWaits(d)
      /\ \/ /\ Becomes(g) /\ network' = network \cup {d}
            /\ status' = [status EXCEPT ![d] = "loading"]
         \/ /\ \E f \in Frames : FirstFrame(f, d) /\ Pushes(f, g)
            /\ UNCHANGED network
  BY <1>4, GetUnknownStack
<1>6. UNCHANGED <<isDone, typesResolved, skipped, threadList>> BY DEF GetUnknown
<1>7. /\ \A i, j \in DOMAIN threadList' : threadList'[i] = threadList'[j] => i = j
      /\ \A i \in DOMAIN threadList' : threadList'[i] \notin network /\ threadList'[i] # d
  BY <1>2, <1>6 DEF RestInv, LoadInv, Queued
<1>8. CASE /\ Becomes(g) /\ network' = network \cup {d}
           /\ status' = [status EXCEPT ![d] = "loading"]
  <2>1. /\ \A x \in Blobs \ {b} : SameFrame(x)
        /\ HasFrame(g)
    BY <1>0, <1>4, <1>8, BecomesView DEF RestInv
  <2>2. SameFrame(b) BY <1>0, <1>1, <1>4, <2>1, TopView DEF HasFrame, SameFrame, RestInv
  <2>3. \A x \in Blobs \ {d} : SameFrame(x) /\ SameQueue(x)
    BY <1>6, <1>8, <2>1, <2>2 DEF SameQueue, Queued
  <2>4. Fresh(d) BY <1>2, <1>3, <1>8, <2>1 DEF Fresh, Queued, SameFrame, Untouched
  <2>5. \A i \in DOMAIN threadList' : threadList'[i] \notin network' BY <1>7, <1>8
  <2>6. /\ LoadInv' /\ DoneInv' /\ TrackInv' /\ CompleteIsWhole'
        /\ \A x \in Blobs \ {d} : Same(x)
        /\ \A x \in Blobs : waitingFor'[x] = waitingFor[x]
    BY <1>2, <1>5, <1>6, <1>7, <2>3, <2>4, <2>5, Begins
  <2>7. ApartInv' BY <1>0, <1>4, <1>8, <2>6, ApartBecomes DEF RestInv
  <2>8. FrameInv'
    <3>1. Same(b) BY <1>3, <2>6
    <3>2. FrameOk(g)' BY <1>0, <1>1, <1>3, <1>4, <3>1, FilesFixed DEF FrameOk, Same, SameLists
    <3>3. \A x \in Blobs \ {b} : OnStack(x) => Same(x) BY <1>2, <2>6 DEF Untouched
    <3> QED BY <1>0, <1>4, <1>8, <3>2, <3>3, BecomesView DEF RestInv
  <2> QED BY <2>6, <2>7, <2>8 DEF RestInv
<1>9. CASE /\ \E f \in Frames : FirstFrame(f, d) /\ Pushes(f, g)
           /\ UNCHANGED network
  <2>1. PICK f \in Frames : FirstFrame(f, d) /\ Pushes(f, g) BY <1>9
  <2>2. f.blob = d /\ f.dep = NoBlob /\ f.at \in {"data", "settle"}
        /\ (f.at = "settle" => f.todo = {} /\ status' = [status EXCEPT ![d] = "error"])
        /\ (f.at = "data" => status' = [status EXCEPT ![d] = "loading"])
    BY <2>1, FirstFrameType
  <2>3. /\ \A x \in Blobs \ {d} : SameFrame(x)
        /\ HasFrame(f)
    BY <1>0, <1>2, <1>4, <2>1, <2>2, PushesView DEF RestInv, Untouched
  <2>4. /\ \A x \in Blobs : SameQueue(x)
        /\ ~Queued(d)'
    BY <1>2, <1>6, <1>9 DEF SameQueue, Queued
  <2>5. Fresh(d) BY <2>1, <2>3, <2>4 DEF Fresh
  <2>6. \A i \in DOMAIN threadList' : threadList'[i] \notin network' BY <1>7, <1>9
  <2>7. /\ LoadInv' /\ DoneInv' /\ TrackInv' /\ CompleteIsWhole'
        /\ \A x \in Blobs \ {d} : Same(x)
        /\ \A x \in Blobs : waitingFor'[x] = waitingFor[x]
    BY <1>2, <1>5, <1>6, <1>7, <2>3, <2>4, <2>5, <2>6, Begins
  <2>8. ApartInv'
    BY <1>0, <1>2, <1>4, <2>1, <2>2, <2>7, ApartPushes DEF RestInv, Untouched
  <2>9. FrameInv'
    <3>1. status'[d] = (IF f.at = "settle" THEN "error" ELSE "loading") BY <2>2 DEF TypeOK
    <3>2. FrameOk(f)' BY <1>2, <1>6, <2>2, <3>1 DEF FrameOk, Untouched
    <3> QED BY <1>0, <1>1, <1>2, <1>4, <2>1, <2>2, <2>7, <3>2, PushesView DEF RestInv, Untouched
  <2> QED BY <2>7, <2>8, <2>9 DEF RestInv
<1> QED BY <1>5, <1>8, <1>9

\* The first frame on an empty stack.
LEMMA FirstFrameStarts ==
  ASSUME TypeOK, TypeOK', UNCHANGED files, NEW d \in Blobs, NEW f \in Frames,
         FirstFrame(f, d), Starts(f), ~isDone'[d]
  PROVE  ApartInv' /\ FrameInv'
<1>1. /\ f.blob = d /\ f.dep = NoBlob /\ f.at \in {"data", "settle"}
      /\ f.at = "settle" => f.todo = {} /\ status' = [status EXCEPT ![d] = "error"]
      /\ f.at = "data" => status' = [status EXCEPT ![d] = "loading"]
  BY FirstFrameType
<1>2. status'[d] = (IF f.at = "settle" THEN "error" ELSE "loading") BY <1>1 DEF TypeOK
<1>3. FrameOk(f)' BY <1>1, <1>2 DEF FrameOk
<1>4. FrameInv' BY <1>3, StartsView
<1>5. DOMAIN stack' = {1} BY StackDomainNext DEF Starts
<1>6. Apart(1, Blobs)' BY <1>5, ApartAll
<1> QED BY <1>4, <1>5, <1>6 DEF ApartInv

LEMMA TakeMessageStep ==
  ASSUME TypeOK, TypeOK', UNCHANGED files, RestInv, TakeMessage
  PROVE  RestInv'
<1>1. PICK d \in Blobs : d = Head(threadList) BY TakeMessageStack
<1>2. /\ stack = <<>> /\ OnlyWaits(d)
      /\ \/ /\ stack' = <<>> /\ network' = network \cup {d}
            /\ status' = [status EXCEPT ![d] = "loading"]
         \/ /\ \E f \in Frames : FirstFrame(f, d) /\ Starts(f)
            /\ UNCHANGED network
  BY <1>1, TakeMessageStack
<1>3. UNCHANGED <<isDone, typesResolved, skipped>> BY DEF TakeMessage
<1>4. /\ threadList # <<>> /\ threadList \in Seq(Blobs) /\ threadList' = Tail(threadList)
  BY DEF TakeMessage, TypeOK
<1>5. /\ 1 \in DOMAIN threadList /\ threadList[1] = d
      /\ \A i \in DOMAIN threadList' : i + 1 \in DOMAIN threadList /\ i + 1 # 1
                                       /\ threadList'[i] = threadList[i + 1] /\ i \in Nat
      /\ \A i \in DOMAIN threadList : i = 1 \/ (i - 1 \in DOMAIN threadList'
                                               /\ threadList'[i - 1] = threadList[i])
  BY <1>1, <1>4
<1>6. /\ \A i \in DOMAIN threadList' : threadList'[i] # d
      /\ \A i, j \in DOMAIN threadList' : threadList'[i] = threadList'[j] => i = j
      /\ \A i \in DOMAIN threadList' : threadList'[i] \notin network
  BY <1>5 DEF RestInv, LoadInv
<1>7. Queued(d) /\ d \notin network BY <1>5 DEF Queued, RestInv, LoadInv
<1>8. status[d] = "loading" /\ Untouched(d) BY <1>7 DEF RestInv, LoadInv
<1>9. \A x \in Blobs \ {d} : (\E i \in DOMAIN threadList' : threadList'[i] = x)
                             <=> (\E i \in DOMAIN threadList : threadList[i] = x)
  BY <1>5
<1>10. CASE /\ stack' = <<>> /\ network' = network \cup {d}
            /\ status' = [status EXCEPT ![d] = "loading"]
  <2>1. \A x : SameFrame(x) BY <1>2, <1>10 DEF SameFrame, OnStack, OnTodo, InTypes
  <2>2. \A x \in Blobs \ {d} : SameQueue(x) BY <1>9, <1>10 DEF SameQueue, Queued
  <2>3. ~OnStack(d)' BY <1>10 DEF OnStack
  <2>4. Fresh(d) BY <1>10, <2>3 DEF Fresh, Queued
  <2>5. \A i \in DOMAIN threadList' : threadList'[i] \notin network' BY <1>6, <1>10
  <2>6. /\ LoadInv' /\ DoneInv' /\ TrackInv' /\ CompleteIsWhole'
    BY <1>2, <1>3, <1>6, <1>8, <2>1, <2>2, <2>4, <2>5, Begins
  <2>7. ApartInv' /\ FrameInv' BY <1>10 DEF ApartInv, FrameInv
  <2> QED BY <2>6, <2>7 DEF RestInv
<1>11. CASE /\ \E f \in Frames : FirstFrame(f, d) /\ Starts(f)
            /\ UNCHANGED network
  <2>1. PICK f \in Frames : FirstFrame(f, d) /\ Starts(f) BY <1>11
  <2>2. f.blob = d BY <2>1, FirstFrameType
  <2>3. /\ \A x \in Blobs \ {d} : SameFrame(x)
        /\ HasFrame(f)
    BY <2>1, <2>2, StartsView
  <2>4. /\ \A x \in Blobs \ {d} : SameQueue(x)
        /\ ~Queued(d)'
    BY <1>6, <1>7, <1>9, <1>11 DEF SameQueue, Queued
  <2>5. Fresh(d) BY <2>1, <2>3, <2>4 DEF Fresh
  <2>6. \A i \in DOMAIN threadList' : threadList'[i] \notin network' BY <1>6, <1>11
  <2>7. LoadInv' /\ DoneInv' /\ TrackInv' /\ CompleteIsWhole'
    BY <1>2, <1>3, <1>6, <1>8, <2>3, <2>4, <2>5, <2>6, Begins
  <2>8. ApartInv' /\ FrameInv' BY <1>3, <1>8, <2>1, FirstFrameStarts DEF Untouched
  <2> QED BY <2>7, <2>8 DEF RestInv
<1> QED BY <1>2, <1>10, <1>11

LEMMA NetworkStep ==
  ASSUME TypeOK, TypeOK', UNCHANGED files, RestInv, NEW d \in Blobs, NetworkReplyFinished(d)
  PROVE  RestInv'
<1>1. /\ stack = <<>> /\ OnlyWaits(d)
      /\ \E f \in Frames : FirstFrame(f, d) /\ Starts(f)
  BY NetworkStack DEF RestInv
<1>2. /\ UNCHANGED <<isDone, typesResolved, skipped, threadList>>
      /\ d \in network /\ network' = network \ {d}
  BY DEF NetworkReplyFinished
<1>3. status[d] = "loading" /\ Untouched(d) BY <1>2 DEF Queued, RestInv, LoadInv
<1>4. /\ \A i, j \in DOMAIN threadList' : threadList'[i] = threadList'[j] => i = j
      /\ \A i \in DOMAIN threadList' : threadList'[i] \notin network' /\ threadList'[i] # d
  BY <1>2 DEF RestInv, LoadInv
<1>5. PICK f \in Frames : FirstFrame(f, d) /\ Starts(f) BY <1>1
<1>6. f.blob = d BY <1>5, FirstFrameType
<1>7. /\ \A x \in Blobs \ {d} : SameFrame(x)
      /\ HasFrame(f)
  BY <1>5, <1>6, StartsView
<1>8. /\ \A x \in Blobs \ {d} : SameQueue(x)
      /\ ~Queued(d)'
  BY <1>2, <1>4 DEF SameQueue, Queued
<1>9. Fresh(d) BY <1>5, <1>7, <1>8 DEF Fresh
<1>10. LoadInv' /\ DoneInv' /\ TrackInv' /\ CompleteIsWhole'
  BY <1>1, <1>2, <1>3, <1>4, <1>7, <1>8, <1>9, Begins
<1>11. ApartInv' /\ FrameInv' BY <1>2, <1>3, <1>5, FirstFrameStarts DEF Untouched
<1> QED BY <1>10, <1>11 DEF RestInv

LEMMA RequestStep ==
  ASSUME TypeOK, TypeOK', UNCHANGED files, RestInv, NEW d \in Blobs, Request(d)
  PROVE  RestInv'
<1>1. /\ UNCHANGED <<isDone, waitingFor, typesResolved, skipped, stack, network>>
      /\ status[d] = "null" /\ status' = [status EXCEPT ![d] = "loading"]
      /\ threadList' = Append(threadList, d) /\ threadList \in Seq(Blobs)
  BY DEF Request, TypeOK
<1>2. Untouched(d) /\ ~Queued(d) BY <1>1 DEF RestInv, LoadInv
<1>3. /\ DOMAIN threadList = 1 .. Len(threadList) /\ Len(threadList) \in Nat
      /\ DOMAIN threadList' = 1 .. Len(threadList) + 1 /\ threadList'[Len(threadList) + 1] = d
      /\ \A i \in 1 .. Len(threadList) : threadList'[i] = threadList[i]
  BY <1>1
<1>4. \A i \in DOMAIN threadList' : i \in DOMAIN threadList \/ i = Len(threadList) + 1 BY <1>3
<1>5. /\ \A i, j \in DOMAIN threadList' : threadList'[i] = threadList'[j] => i = j
      /\ \A i \in DOMAIN threadList' : threadList'[i] \notin network'
  BY <1>1, <1>2, <1>3, <1>4 DEF RestInv, LoadInv, Queued
<1>6. \A x : SameFrame(x) BY <1>1 DEF SameFrame, OnStack, OnTodo, InTypes
<1>7. \A x \in Blobs \ {d} : SameQueue(x) BY <1>1, <1>3, <1>4 DEF SameQueue, Queued
<1>8. Fresh(d)
  <2>1. Queued(d)' BY <1>3 DEF Queued
  <2>2. ~OnStack(d)' BY <1>2, <1>6 DEF SameFrame, Untouched
  <2> QED BY <1>1, <2>1, <2>2 DEF Fresh
<1>9. /\ LoadInv' /\ DoneInv' /\ TrackInv' /\ CompleteIsWhole'
      /\ \A x \in Blobs \ {d} : Same(x)
  BY <1>1, <1>2, <1>5, <1>6, <1>7, <1>8, Begins
<1>10. ApartInv' BY <1>1 DEF RestInv, ApartInv, Apart, Closed
<1>11. FrameInv'
  <2>1. ASSUME NEW i \in DOMAIN stack PROVE FrameOk(stack[i])'
    <3>1. stack[i].blob \in Blobs /\ OnStack(stack[i].blob) BY StackDomain DEF OnStack
    <3>2. Same(stack[i].blob) BY <1>2, <1>9, <3>1 DEF Untouched
    <3>3. FrameOk(stack[i]) BY DEF RestInv, FrameInv
    <3> QED BY <1>1, <3>2, <3>3, FilesFixed DEF FrameOk, Same, SameLists
  <2> QED BY <1>1, <2>1 DEF FrameInv
<1> QED BY <1>9, <1>10, <1>11 DEF RestInv

LEMMA StutterStep ==
  ASSUME TypeOK, RestInv, Shutdown \/ LoaderQuits \/ UNCHANGED vars
  PROVE  RestInv'
<1>1. UNCHANGED <<files, graphVars, stack, threadList, network>>
  BY DEF Shutdown, LoaderQuits, vars
<1>2. /\ UNCHANGED <<status, isDone, waitingFor, typesResolved, skipped, stack, threadList,
                     network>>
      /\ UNCHANGED files
  BY <1>1 DEF graphVars
<1>3. \A x : /\ SameLists(x) /\ Same(x) /\ SameFrame(x) /\ SameQueue(x)
  BY <1>2 DEF SameLists, Same, SameFrame, SameQueue, OnStack, OnTodo, InTypes, Queued
<1>4. LoadInv' BY <1>2 DEF RestInv, LoadInv, Queued, Untouched, OnStack
<1>5. ApartInv' BY <1>2 DEF RestInv, ApartInv, Apart, Closed
<1>6. FrameInv' BY <1>2, FilesFixed DEF RestInv, FrameInv, FrameOk
<1>7. DoneInv' BY <1>2 DEF RestInv, DoneInv, DoneOk, CompleteOrError
<1>8. TrackInv'
  <2>1. Stable BY <1>2 DEF Stable
  <2>2. \A x \in Blobs : Begun(x)' => Begun(x) BY <1>2, <1>3 DEF Begun, SameQueue
  <2>3. \A x : SameLists(x) /\ (\A d \in Blobs : OnTodo(x, d)' <=> OnTodo(x, d))
               /\ (InTypes(x)' => InTypes(x))
    BY <1>3 DEF SameFrame
  <2> QED BY <1>2, <2>1, <2>2, <2>3, TracksStay DEF RestInv, TrackInv
<1>9. CompleteIsWhole'
  <2>1. \A x : Imports(x)' = Imports(x) /\ Types(x)' = Types(x) /\ OwnImports(x)' = OwnImports(x)
    BY <1>2, FilesFixed
  <2>2. \A x : Provided(x)' = Provided(x) BY <1>2, <2>1 DEF Provided, Seen
  <2>3. \A x : Recorded(x)' = Recorded(x) BY <1>2, <2>1, <2>2 DEF Recorded
  <2> QED BY <1>2, <2>3 DEF RestInv, CompleteIsWhole
<1> QED BY <1>4, <1>5, <1>6, <1>7, <1>8, <1>9 DEF RestInv

LEMMA RestKept ==
  TypeOK /\ TypeOK' /\ ListsInv /\ RestInv /\ [Next]_vars => RestInv'
<1> SUFFICES ASSUME TypeOK, TypeOK', ListsInv, RestInv, [Next]_vars PROVE RestInv'
  OBVIOUS
<1>1. UNCHANGED files BY FilesStay
<1>2. ASSUME NEW d \in Blobs, Request(d) PROVE RestInv' BY <1>1, <1>2, RequestStep
<1>3. CASE Shutdown \/ LoaderQuits \/ UNCHANGED vars BY <1>3, StutterStep
<1>4. CASE TakeMessage BY <1>1, <1>4, TakeMessageStep
<1>5. ASSUME NEW d \in Blobs, NetworkReplyFinished(d) PROVE RestInv' BY <1>1, <1>5, NetworkStep
<1>6. ASSUME NEW d \in Blobs, GetUnknown(d) PROVE RestInv' BY <1>1, <1>6, GetUnknownStep
<1>7. ASSUME NEW d \in Blobs, SkipSingleton(d) PROVE RestInv' BY <1>1, <1>7, SkipSingletonStep
<1>8. ASSUME NEW d \in Blobs, GetKnown(d) PROVE RestInv' BY <1>1, <1>8, GetKnownStep
<1>9. CASE Fail BY <1>1, <1>9, FailStep
<1>10. CASE LoopEnds BY <1>1, <1>10, LoopEndsStep
<1>11. CASE Settle BY <1>1, <1>11, SettleStep
<1>12. CASE NotifyWaiting BY <1>1, <1>12, NotifyStep
<1>13. CASE CallCompleted BY <1>1, <1>13, CallCompletedStep
<1> QED
  BY <1>2, <1>3, <1>4, <1>5, <1>6, <1>7, <1>8, <1>9, <1>10, <1>11, <1>12, <1>13
  DEF Next, CallbackStep

-----------------------------------------------------------------------------
(* The theorems.                                                           *)

LEMMA InvariantParts == IInv <=> TypeOK /\ ListsInv /\ RestInv
BY DEF IInv, RestInv

LEMMA InitHolds == Init => IInv
<1> SUFFICES ASSUME Init PROVE IInv
  OBVIOUS
<1>1. TypeOK
  <2>1. \A b \in Blobs : <<>> \in Seq(Blobs) /\ {} \in SUBSET Blobs /\ {} \in SUBSET Singletons
    OBVIOUS
  <2>2. <<>> \in Seq(Frames) /\ <<>> \in Seq(Blobs) OBVIOUS
  <2>3. /\ imports \subseteq ImportEdges /\ types \subseteq TypeEdges
        /\ status \in [Blobs -> {"null", "loading", "waiting", "complete", "error"}]
        /\ isDone \in [Blobs -> BOOLEAN] /\ typesResolved \in [Blobs -> BOOLEAN]
    BY DEF Init
  <2>4. /\ waitingFor \in [Blobs -> SUBSET Blobs] /\ waitingOnMe \in [Blobs -> Seq(Blobs)]
        /\ skipped \in [Blobs -> SUBSET Singletons]
    BY <2>1 DEF Init
  <2>5. errors \in [Blobs -> Nat] /\ completed \in [Blobs -> Nat] BY DEF Init
  <2>6. /\ stack \in Seq(Frames) /\ threadList \in Seq(Blobs)
        /\ network \subseteq Remote /\ shutdown \in BOOLEAN /\ quit \in BOOLEAN
    BY <2>2 DEF Init
  <2> QED BY <2>3, <2>4, <2>5, <2>6 DEF TypeOK
<1>2. DOMAIN stack = {} /\ DOMAIN threadList = {} /\ network = {} BY DEF Init
<1>3. \A b \in Blobs : /\ waitingOnMe[b] = <<>> /\ waitingFor[b] = {} /\ ~isDone[b]
                       /\ ~typesResolved[b] /\ status[b] = "null" /\ skipped[b] = {}
  BY DEF Init
<1>4. ListsInv
  <2>1. \A d \in Blobs : DOMAIN waitingOnMe[d] = {} BY <1>3
  <2> QED BY <1>3, <2>1 DEF ListsInv, OnList
<1>5. LoadInv BY <1>2, <1>3 DEF LoadInv, Queued, Untouched, OnStack
<1>6. ApartInv /\ FrameInv BY <1>2 DEF ApartInv, FrameInv
<1>7. DoneInv /\ TrackInv /\ CompleteIsWhole
  BY <1>3 DEF DoneInv, DoneOk, TrackInv, Begun, CompleteIsWhole
<1> QED BY <1>1, <1>4, <1>5, <1>6, <1>7 DEF IInv

LEMMA StepKeeps == IInv /\ [Next]_vars => IInv'
<1> SUFFICES ASSUME IInv, [Next]_vars PROVE IInv'
  OBVIOUS
<1>1. TypeOK /\ ListsInv /\ RestInv BY InvariantParts
<1>2. TypeOK' BY <1>1, TypesKept DEF RestInv
<1>3. ListsInv' BY <1>1, ListsKept
<1>4. RestInv' BY <1>1, <1>2, RestKept
<1> QED BY <1>2, <1>3, <1>4 DEF IInv, RestInv

\* The parts of the invariant hold in every state the loader thread can reach.
THEOREM Invariance == Spec => []IInv
BY InitHolds, StepKeeps, PTL DEF Spec

\* A blob that is on no list is found there never, one that waits exactly once.
LEMMA ListedOnce ==
  ASSUME TypeOK, ListsInv
  PROVE  WaitsAreMutual
<1>1. ASSUME NEW b \in Blobs, NEW d \in Blobs
      PROVE  Cardinality({i \in DOMAIN waitingOnMe[d] : waitingOnMe[d][i] = b})
               = IF d \in waitingFor[b] THEN 1 ELSE 0
  <2> DEFINE places == {i \in DOMAIN waitingOnMe[d] : waitingOnMe[d][i] = b}
  <2>1. CASE d \in waitingFor[b]
    <3>1. PICK i \in DOMAIN waitingOnMe[d] : waitingOnMe[d][i] = b
      BY <2>1 DEF ListsInv, OnList
    <3>2. places = {i} BY <3>1 DEF ListsInv
    <3>3. Cardinality({i}) = 1 BY FS_Singleton
    <3> QED BY <2>1, <3>2, <3>3
  <2>2. CASE d \notin waitingFor[b]
    <3>1. places = {} BY <2>2 DEF ListsInv, OnList
    <3>2. Cardinality({}) = 0 BY FS_EmptySet
    <3> QED BY <2>2, <3>1, <3>2
  <2> QED BY <2>1, <2>2
<1> QED BY <1>1 DEF WaitsAreMutual

\* What m_waitingFor says of a blob m_waitingOnMe says of those it waits for, whatever
\* callbacks the error, the dependency or the notification came from.
THEOREM WaitsAgree == Spec => []WaitsAreMutual
<1>1. IInv => WaitsAreMutual BY ListedOnce DEF IInv
<1> QED BY <1>1, Invariance, PTL

\* No blob is called back while it is in a callback: m_inCallback needs no counter.
THEOREM CallbacksDoNotNest == Spec => []NotReentered
<1>1. IInv => NotReentered BY Alone DEF IInv, NotReentered
<1> QED BY <1>1, Invariance, PTL

\* tryDone() completes a blob only when all it recorded is complete, and none of that
\* changes afterwards.
THEOREM CompleteStaysWhole == Spec => []CompleteIsWhole
<1>1. IInv => CompleteIsWhole BY DEF IInv
<1> QED BY <1>1, Invariance, PTL

-----------------------------------------------------------------------------
(* Errors and cycles: why setError() runs only once but in a cycle.        *)

\* b leads to d, by one file or more and not by the use of a late singleton.
Leads(b, d) == \E e \in BlockingEdges : e[1] = b /\ Reaches(BlockingEdges, e[2], d)

\* A file leads to what it waits for and what its imports may make it wait for.
Imported == {e[2] : e \in ImportEdges}
WaitsLead == \A b \in Blobs : \A d \in waitingFor[b] : Leads(b, d)
TodoOk(f) == f.at \in {"data", "ready"} => \A d \in f.todo : d \in Imported /\ Leads(f.blob, d)
TodoLeads == \A i \in DOMAIN stack : TodoOk(stack[i])

\* What has an error and still waits or is in a loop leads to a cycle.
LoopKinds == {"data", "ready", "types"}
InKind(b, kinds) == \E i \in DOMAIN stack : stack[i].blob = b /\ stack[i].at \in kinds
InData(b) == InKind(b, {"data"})
InALoop(b) == InKind(b, LoopKinds)
ErrorInv ==
  \A b \in Blobs : status[b] = "error" /\ (waitingFor[b] # {} \/ InALoop(b)) => LeadsToCycle(b)

\* What is loading is in a queue or its data is looked at.
AskedInv == \A i \in DOMAIN threadList : threadList[i] \in Asked
LoadingInv == \A b \in Blobs : status[b] = "loading" => Queued(b) \/ InData(b)

\* Above a file whose data is looked at is only what it imports, what that imports and so
\* on, all of which has been loaded after it, and none of which uses types.
Sealed(i, A) ==
  /\ \A j \in 1 .. i - 1 : stack[j].blob \in A
  /\ \A b \in Imported : status[b] = "null" => b \in A
  /\ \A a \in A, w \in Blobs : a \in waitingFor[w] => w \in A
AboveInv ==
  \A i \in DOMAIN stack : stack[i].at = "data" /\ status[stack[i].blob] = "loading" =>
    \E A \in SUBSET Imported : Sealed(i, A)

CycleInv == WaitsLead /\ TodoLeads /\ ErrorInv /\ AskedInv /\ LoadingInv /\ AboveInv

LEMMA ReachesOn ==
  ASSUME NEW G, NEW x, NEW y, Reaches(G, x, y)
  PROVE  /\ \A e \in G : e[1] = y => Reaches(G, x, e[2])
         /\ \A z : Reaches(G, y, z) => Reaches(G, x, z)
BY DEF Reaches

LEMMA EdgeLeads ==
  ASSUME NEW b, NEW d, <<b, d>> \in BlockingEdges
  PROVE  Leads(b, d)
<1>1. Reaches(BlockingEdges, d, d) BY DEF Reaches
<1>2. <<b, d>>[1] = b /\ <<b, d>>[2] = d OBVIOUS
<1> QED BY <1>1, <1>2 DEF Leads

LEMMA LeadsOn ==
  ASSUME NEW b, NEW d, NEW x, Leads(b, d), <<d, x>> \in BlockingEdges
  PROVE  Leads(b, x)
<1>1. PICK e \in BlockingEdges : e[1] = b /\ Reaches(BlockingEdges, e[2], d) BY DEF Leads
<1>2. <<d, x>>[1] = d /\ <<d, x>>[2] = x OBVIOUS
<1>3. Reaches(BlockingEdges, e[2], x) BY <1>1, <1>2, ReachesOn
<1> QED BY <1>1, <1>3 DEF Leads

LEMMA LeadsRound ==
  ASSUME NEW b, NEW d, Leads(b, d), d = b \/ Leads(d, b)
  PROVE  LeadsToCycle(b)
<1>1. PICK e \in BlockingEdges : e[1] = b /\ Reaches(BlockingEdges, e[2], d) BY DEF Leads
<1>2. Reaches(BlockingEdges, e[2], b)
  <2>1. CASE d = b BY <1>1, <2>1
  <2>2. CASE Leads(d, b)
    <3>1. PICK f \in BlockingEdges : f[1] = d /\ Reaches(BlockingEdges, f[2], b)
      BY <2>2 DEF Leads
    <3>2. Reaches(BlockingEdges, e[2], f[2]) BY <1>1, <3>1, ReachesOn
    <3> QED BY <3>1, <3>2, ReachesOn
  <2> QED BY <2>1, <2>2
<1>3. Reaches(Edges, b, b) BY DEF Reaches
<1> QED BY <1>1, <1>2, <1>3 DEF LeadsToCycle

LEMMA GraphStays ==
  ASSUME UNCHANGED files
  PROVE  /\ \A b, d : Leads(b, d)' <=> Leads(b, d)
         /\ \A b : LeadsToCycle(b)' <=> LeadsToCycle(b)
<1>1. UNCHANGED <<imports, types>> BY DEF files
<1>2. BlockingEdges' = BlockingEdges /\ Edges' = Edges BY <1>1 DEF BlockingEdges, Edges
<1> QED BY <1>2 DEF Leads, LeadsToCycle

\* What a file imports it leads to.
LEMMA ImportsLead ==
  ASSUME TypeOK, NEW b
  PROVE  /\ \A d \in Imports(b) : d \in Imported /\ Leads(b, d)
         /\ \A a : Leads(a, b) => \A d \in Imports(b) : d \in Imported /\ Leads(a, d)
         /\ OwnImports(b) \subseteq Imports(b)
<1>1. ASSUME NEW d \in Imports(b) PROVE d \in Imported /\ <<b, d>> \in BlockingEdges
  <2>1. <<b, d>> \in ImportEdges /\ <<b, d>> \in imports BY <1>1 DEF Imports, TypeOK
  <2>2. <<b, d>>[2] = d OBVIOUS
  <2> QED BY <2>1, <2>2 DEF Imported, BlockingEdges
<1> QED BY <1>1, EdgeLeads, LeadsOn DEF OwnImports

\* What is imported uses no types.
LEMMA ImportedUsesNone ==
  ASSUME TypeOK, NEW b \in Imported
  PROVE  Types(b) = {}
<1>1. ASSUME NEW d \in Types(b) PROVE FALSE
  <2>1. <<b, d>> \in TypeEdges BY <1>1 DEF Types, TypeOK
  <2>2. PICK e \in ImportEdges : e[2] = b BY DEF Imported
  <2>3. e[2] # <<b, d>>[1] BY <2>1, BlobAssumption
  <2> QED BY <2>2, <2>3
<1> QED BY <1>1

-----------------------------------------------------------------------------
(* The kind of frame that a blob has after a step.                         *)

SameKinds(x) == \A kinds \in SUBSET FrameKinds : InKind(x, kinds)' <=> InKind(x, kinds)
HasKind(f) == \A kinds \in SUBSET FrameKinds : InKind(f.blob, kinds)' <=> f.at \in kinds

LEMMA Kinds ==
  /\ {"data"} \in SUBSET FrameKinds /\ LoopKinds \in SUBSET FrameKinds
  /\ \A x : SameKinds(x) => (InData(x)' <=> InData(x)) /\ (InALoop(x)' <=> InALoop(x))
  /\ \A f : HasKind(f) => /\ InData(f.blob)' <=> f.at = "data"
                          /\ InALoop(f.blob)' <=> f.at \in LoopKinds
<1>1. {"data"} \in SUBSET FrameKinds /\ LoopKinds \in SUBSET FrameKinds
  BY DEF FrameKinds, LoopKinds
<1> QED BY <1>1 DEF SameKinds, HasKind, InData, InALoop

LEMMA KindOfTop ==
  ASSUME TypeOK, ApartInv, stack # <<>>
  PROVE  /\ \A kinds : InKind(Top.blob, kinds) <=> Top.at \in kinds
         /\ InData(Top.blob) <=> Top.at = "data"
         /\ InALoop(Top.blob) <=> Top.at \in LoopKinds
<1>1. 1 \in DOMAIN stack /\ Top = stack[1] BY TopFacts
<1>2. \A i \in DOMAIN stack : stack[i].blob = Top.blob => i = 1 BY <1>1, Alone
<1> QED BY <1>1, <1>2 DEF InKind, InData, InALoop

LEMMA KindBecomes ==
  ASSUME TypeOK, TypeOK', ApartInv, NEW f \in Frames, Becomes(f), f.blob = Top.blob
  PROVE  (\A x \in Blobs \ {f.blob} : SameKinds(x)) /\ HasKind(f)
<1>1. /\ stack # <<>> /\ Len(stack') = Len(stack) /\ stack'[1] = f /\ stack[1].blob = f.blob
      /\ \A i \in 2 .. Len(stack) : stack'[i] = stack[i]
      /\ 1 \in DOMAIN stack /\ DOMAIN stack = 1 .. Len(stack) /\ DOMAIN stack' = 1 .. Len(stack)
      /\ Len(stack) \in Nat
  BY TopFacts, StackDomain, StackDomainNext DEF Becomes
<1>2. \A i \in 2 .. Len(stack) : stack[i].blob # f.blob
  <2>1. \A i \in DOMAIN stack : stack[i].blob = stack[1].blob => i = 1 BY <1>1, Alone
  <2> QED BY <1>1, <2>1
<1>3. \A i \in 1 .. Len(stack) : i = 1 \/ i \in 2 .. Len(stack) BY <1>1
<1>4. ASSUME NEW x \in Blobs, x # f.blob PROVE SameKinds(x)
  <2>1. \A i \in 1 .. Len(stack) : stack[i].blob = x <=> stack'[i].blob = x BY <1>1, <1>3, <1>4
  <2>2. \A i \in 1 .. Len(stack) : stack[i].blob = x => stack'[i] = stack[i] BY <1>1, <1>3, <1>4
  <2> QED BY <1>1, <2>1, <2>2 DEF SameKinds, InKind
<1>5. HasKind(f) BY <1>1, <1>2, <1>3 DEF HasKind, InKind
<1> QED BY <1>4, <1>5

LEMMA KindPops ==
  ASSUME TypeOK, TypeOK', ApartInv, Pops, NEW b \in Blobs, b = Top.blob
  PROVE  (\A x \in Blobs \ {b} : SameKinds(x)) /\ ~InData(b)' /\ ~InALoop(b)'
<1>1. /\ stack # <<>> /\ Len(stack') = Len(stack) - 1 /\ stack[1].blob = b
      /\ \A i \in 1 .. Len(stack') : stack'[i] = stack[i + 1]
      /\ 1 \in DOMAIN stack /\ DOMAIN stack = 1 .. Len(stack) /\ DOMAIN stack' = 1 .. Len(stack')
      /\ Len(stack) \in Nat
  BY TopFacts, StackDomain, StackDomainNext DEF Pops
<1>2. \A i \in 2 .. Len(stack) : stack[i].blob # b
  <2>1. \A i \in DOMAIN stack : stack[i].blob = stack[1].blob => i = 1 BY <1>1, Alone
  <2> QED BY <1>1, <2>1
<1>3. \A i \in 1 .. Len(stack') : stack'[i] = stack[i + 1] /\ i + 1 \in 2 .. Len(stack) BY <1>1
<1>4. \A i \in 2 .. Len(stack) : i - 1 \in 1 .. Len(stack') /\ stack'[i - 1] = stack[i]
  BY <1>1
<1>5. \A i \in 1 .. Len(stack) : i = 1 \/ i \in 2 .. Len(stack) BY <1>1
<1>6. ASSUME NEW x \in Blobs, x # b PROVE SameKinds(x)
  <2>1. \A i \in DOMAIN stack : stack[i].blob = x =>
          \E k \in DOMAIN stack' : stack'[k] = stack[i]
    BY <1>1, <1>4, <1>5, <1>6
  <2>2. ASSUME NEW k \in DOMAIN stack' PROVE \E i \in DOMAIN stack : stack'[k] = stack[i]
    <3>1. k + 1 \in DOMAIN stack /\ stack'[k] = stack[k + 1] BY <1>1, <1>3
    <3> QED BY <3>1
  <2> QED BY <2>1, <2>2 DEF SameKinds, InKind
<1>7. \A kinds : ~InKind(b, kinds)' BY <1>1, <1>2, <1>3 DEF InKind
<1> QED BY <1>6, <1>7 DEF InData, InALoop

LEMMA KindPushes ==
  ASSUME TypeOK, TypeOK', NEW f \in Frames, NEW g, Pushes(f, g),
         g.blob = Top.blob, g.at = Top.at, ~OnStack(f.blob)
  PROVE  (\A x \in Blobs \ {f.blob} : SameKinds(x)) /\ HasKind(f)
<1>1. /\ stack # <<>> /\ Len(stack') = Len(stack) + 1 /\ stack'[1] = f /\ stack'[2] = g
      /\ \A i \in 3 .. Len(stack') : stack'[i] = stack[i - 1]
      /\ 1 \in DOMAIN stack /\ DOMAIN stack = 1 .. Len(stack) /\ DOMAIN stack' = 1 .. Len(stack')
      /\ Len(stack) \in Nat \ {0} /\ stack[1] = Top
  BY TopFacts, StackDomain, StackDomainNext DEF Pushes
<1>2. \A i \in 1 .. Len(stack) : stack[i].blob # f.blob BY <1>1 DEF OnStack
<1>4. ASSUME NEW i \in 2 .. Len(stack')
      PROVE  /\ i - 1 \in 1 .. Len(stack) /\ stack'[i].blob = stack[i - 1].blob
             /\ stack'[i].at = stack[i - 1].at
  <2>1. CASE i = 2 BY <1>1, <2>1
  <2>2. CASE i # 2 BY <1>1, <2>2
  <2> QED BY <2>1, <2>2
<1>5. ASSUME NEW i \in 1 .. Len(stack)
      PROVE  /\ i + 1 \in 2 .. Len(stack') /\ stack'[i + 1].blob = stack[i].blob
             /\ stack'[i + 1].at = stack[i].at
  <2>1. i + 1 \in 2 .. Len(stack') /\ i + 1 - 1 = i BY <1>1
  <2> QED BY <1>4, <2>1
<1>6. ASSUME NEW x \in Blobs, x # f.blob PROVE SameKinds(x)
  <2>1. \A i \in DOMAIN stack : \E k \in DOMAIN stack' :
          stack'[k].blob = stack[i].blob /\ stack'[k].at = stack[i].at
    BY <1>1, <1>5
  <2>2. \A k \in DOMAIN stack' : stack'[k].blob = x => \E i \in DOMAIN stack :
          stack'[k].blob = stack[i].blob /\ stack'[k].at = stack[i].at
    <3>1. \A k \in DOMAIN stack' : stack'[k].blob = x => k \in 2 .. Len(stack')
      BY <1>1, <1>6
    <3> QED BY <1>1, <1>4, <3>1
  <2> QED BY <2>1, <2>2 DEF SameKinds, InKind
<1>7. HasKind(f)
  <2>1. \A k \in DOMAIN stack' : stack'[k].blob = f.blob => k = 1
    <3>1. \A k \in 2 .. Len(stack') : stack'[k].blob # f.blob BY <1>2, <1>4
    <3> QED BY <1>1, <3>1
  <2>2. 1 \in DOMAIN stack' BY <1>1
  <2> QED BY <1>1, <2>1, <2>2 DEF HasKind, InKind
<1> QED BY <1>6, <1>7

LEMMA KindStarts ==
  ASSUME TypeOK, TypeOK', NEW f \in Frames, Starts(f)
  PROVE  (\A x \in Blobs \ {f.blob} : SameKinds(x)) /\ HasKind(f)
<1>1. stack = <<>> /\ DOMAIN stack = {} /\ DOMAIN stack' = {1} /\ stack'[1] = f
  BY StackDomain, StackDomainNext DEF Starts
<1> QED BY <1>1 DEF SameKinds, HasKind, InKind

-----------------------------------------------------------------------------
(* What keeps the parts of CycleInv when one blob changes.                 *)

\* b changes, and has a frame of this kind afterwards; the others wait for no more.
Changes(b, kind) ==
  /\ \A x \in Blobs \ {b} :
       status'[x] = status[x] /\ waitingFor'[x] \subseteq waitingFor[x] /\ SameQueue(x)
  /\ \A d \in waitingFor'[b] : Leads(b, d)
  /\ status'[b] = "error" /\ (waitingFor'[b] # {} \/ kind \in LoopKinds) => LeadsToCycle(b)
  /\ status'[b] = "loading" => Queued(b)' \/ kind = "data"
  /\ status'[b] = "null" => status[b] = "null"
  /\ AskedInv'

LEMMA ChangesOne ==
  ASSUME TypeOK, TypeOK', UNCHANGED files, CycleInv, NEW b \in Blobs, NEW kind,
         Changes(b, kind), \A x \in Blobs \ {b} : SameKinds(x),
         InData(b)' <=> kind = "data", InALoop(b)' <=> kind \in LoopKinds,
         TodoLeads', AboveInv'
  PROVE  CycleInv'
<1>1. \A x \in Blobs \ {b} : (InData(x)' <=> InData(x)) /\ (InALoop(x)' <=> InALoop(x))
  BY Kinds
<1>2. WaitsLead'
  <2>1. \A x, d \in Blobs : Leads(x, d)' <=> Leads(x, d) BY GraphStays
  <2>2. ASSUME NEW x \in Blobs, NEW d \in waitingFor'[x] PROVE Leads(x, d)'
    <3>1. d \in Blobs BY DEF TypeOK
    <3>2. Leads(x, d) BY DEF Changes, CycleInv, WaitsLead
    <3> QED BY <2>1, <3>1, <3>2
  <2> QED BY <2>2 DEF WaitsLead
<1>3. ErrorInv'
  <2>1. \A x \in Blobs : LeadsToCycle(x)' <=> LeadsToCycle(x) BY GraphStays
  <2>2. ASSUME NEW x \in Blobs, status'[x] = "error", waitingFor'[x] # {} \/ InALoop(x)'
        PROVE  LeadsToCycle(x)
    <3>1. CASE x = b BY <2>2, <3>1 DEF Changes
    <3>2. CASE x # b BY <1>1, <2>2, <3>2 DEF Changes, CycleInv, ErrorInv
    <3> QED BY <3>1, <3>2
  <2> QED BY <2>1, <2>2 DEF ErrorInv
<1>4. LoadingInv'
  <2>1. ASSUME NEW x \in Blobs, status'[x] = "loading" PROVE Queued(x)' \/ InData(x)'
    <3>1. CASE x = b BY <2>1, <3>1 DEF Changes
    <3>2. CASE x # b BY <1>1, <2>1, <3>2 DEF Changes, CycleInv, LoadingInv, SameQueue
    <3> QED BY <3>1, <3>2
  <2> QED BY <2>1 DEF LoadingInv
<1> QED BY <1>2, <1>3, <1>4 DEF CycleInv, Changes

\* The sets that seal a file's data stay, and there is one for the file on top.
LEMMA AboveKept ==
  ASSUME TypeOK', LoadInv', AboveInv,
         \A x \in Blobs : status'[x] = "null" => status[x] = "null",
         \A k \in DOMAIN stack' :
           k # 1 /\ stack'[k].at = "data" /\ status'[stack'[k].blob] = "loading" =>
             \E i \in DOMAIN stack :
               /\ stack[i].at = "data" /\ status[stack[i].blob] = "loading"
               /\ \A A \in SUBSET Imported : Sealed(i, A) =>
                    /\ \A j \in 1 .. k - 1 : stack'[j].blob \in A
                    /\ \A a \in A, w \in Blobs :
                         a \in waitingFor'[w] => a \in waitingFor[w] \/ w \in A
  PROVE  AboveInv'
<1>1. Imported \subseteq Blobs BY BlobAssumption DEF Imported
<1> SUFFICES ASSUME NEW k \in DOMAIN stack', stack'[k].at = "data",
                    status'[stack'[k].blob] = "loading"
             PROVE  \E A \in SUBSET Imported : Sealed(k, A)'
  BY DEF AboveInv, Imported
<1>2. CASE k = 1
  <2>0. PICK A \in SUBSET Imported :
          \A x : x \in A <=> x \in Imported /\ status'[x] = "null"
    <3>1. {x \in Imported : status'[x] = "null"} \in SUBSET Imported OBVIOUS
    <3> QED BY <3>1
  <2>1. \A j \in 1 .. k - 1 : FALSE BY <1>2
  <2>2. \A a \in A, w \in Blobs : a \notin waitingFor'[w] BY <1>1, <2>0 DEF LoadInv
  <2>3. Sealed(k, A)' BY <2>0, <2>1, <2>2 DEF Sealed, Imported
  <2> QED BY <2>3
<1>3. CASE k # 1
  <2>1. PICK i \in DOMAIN stack :
          /\ stack[i].at = "data" /\ status[stack[i].blob] = "loading"
          /\ \A A \in SUBSET Imported : Sealed(i, A) =>
               /\ \A j \in 1 .. k - 1 : stack'[j].blob \in A
               /\ \A a \in A, w \in Blobs :
                    a \in waitingFor'[w] => a \in waitingFor[w] \/ w \in A
    BY <1>3
  <2>2. PICK A \in SUBSET Imported : Sealed(i, A) BY <2>1 DEF AboveInv
  <2>3. Sealed(k, A)'
    <3>1. \A j \in 1 .. k - 1 : stack'[j].blob \in A BY <2>1, <2>2
    <3>2. \A x \in Imported : status'[x] = "null" => x \in A BY <1>1, <2>2 DEF Sealed
    <3>3. \A a \in A, w \in Blobs : a \in waitingFor'[w] => w \in A BY <2>1, <2>2 DEF Sealed
    <3> QED BY <3>1, <3>2, <3>3 DEF Sealed, Imported
  <2> QED BY <2>3
<1> QED BY <1>2, <1>3

\* What each change of the stack has to give for it.
Calms ==
  /\ \A x \in Blobs : status'[x] = "null" => status[x] = "null"
  /\ \A i \in DOMAIN stack :
       status'[stack[i].blob] = "loading" => status[stack[i].blob] = "loading"

LEMMA AboveBecomes ==
  ASSUME TypeOK, TypeOK', LoadInv', AboveInv, Calms, NEW f, Becomes(f), f.blob = Top.blob,
         \A x \in Blobs : waitingFor'[x] \subseteq waitingFor[x] \/ x = Top.blob
  PROVE  AboveInv'
<1>1. /\ Len(stack') = Len(stack) /\ stack'[1].blob = stack[1].blob
      /\ \A i \in 2 .. Len(stack) : stack'[i] = stack[i]
      /\ DOMAIN stack = 1 .. Len(stack) /\ DOMAIN stack' = 1 .. Len(stack)
      /\ Len(stack) \in Nat /\ stack[1] = Top
  BY TopFacts, StackDomain, StackDomainNext DEF Becomes
<1>2. ASSUME NEW k \in DOMAIN stack', k # 1, stack'[k].at = "data",
             status'[stack'[k].blob] = "loading"
      PROVE  /\ k \in DOMAIN stack /\ stack[k].at = "data" /\ status[stack[k].blob] = "loading"
             /\ \A A \in SUBSET Imported : Sealed(k, A) =>
                  /\ \A j \in 1 .. k - 1 : stack'[j].blob \in A
                  /\ \A a \in A, w \in Blobs :
                       a \in waitingFor'[w] => a \in waitingFor[w] \/ w \in A
  <2>1. k \in 2 .. Len(stack) /\ k \in DOMAIN stack /\ stack'[k] = stack[k] /\ 1 \in 1 .. k - 1
    BY <1>1, <1>2
  <2>2. \A j \in 1 .. k - 1 : stack'[j].blob = stack[j].blob
    <3>1. \A j \in 1 .. k - 1 : j = 1 \/ j \in 2 .. Len(stack) BY <1>1, <2>1
    <3> QED BY <1>1, <3>1
  <2>3. \A A : Sealed(k, A) => Top.blob \in A BY <1>1, <2>1 DEF Sealed
  <2> QED BY <1>2, <2>1, <2>2, <2>3 DEF Sealed, Calms
<1> QED BY <1>2, AboveKept DEF Calms

LEMMA AbovePops ==
  ASSUME TypeOK, TypeOK', LoadInv', AboveInv, Calms, Pops,
         \A x \in Blobs : waitingFor'[x] \subseteq waitingFor[x]
  PROVE  AboveInv'
<1>1. /\ Len(stack') = Len(stack) - 1
      /\ \A i \in 1 .. Len(stack') : stack'[i] = stack[i + 1]
      /\ DOMAIN stack = 1 .. Len(stack) /\ DOMAIN stack' = 1 .. Len(stack')
      /\ Len(stack) \in Nat
  BY TopFacts, StackDomain, StackDomainNext DEF Pops
<1>2. ASSUME NEW k \in DOMAIN stack', k # 1, stack'[k].at = "data",
             status'[stack'[k].blob] = "loading"
      PROVE  \E i \in DOMAIN stack :
               /\ stack[i].at = "data" /\ status[stack[i].blob] = "loading"
               /\ \A A \in SUBSET Imported : Sealed(i, A) =>
                    /\ \A j \in 1 .. k - 1 : stack'[j].blob \in A
                    /\ \A a \in A, w \in Blobs :
                         a \in waitingFor'[w] => a \in waitingFor[w] \/ w \in A
  <2>1. k \in 1 .. Len(stack') /\ k + 1 \in DOMAIN stack /\ stack'[k] = stack[k + 1]
    BY <1>1
  <2>2. \A j \in 1 .. k - 1 :
          /\ j + 1 \in 1 .. k + 1 - 1 /\ j \in 1 .. Len(stack')
          /\ stack'[j] = stack[j + 1]
    BY <1>1, <2>1
  <2>3. \A A : Sealed(k + 1, A) => \A j \in 1 .. k - 1 : stack'[j].blob \in A
    BY <2>2 DEF Sealed
  <2> QED BY <1>2, <2>1, <2>3 DEF Calms
<1> QED BY <1>2, AboveKept DEF Calms

LEMMA AbovePushes ==
  ASSUME TypeOK, TypeOK', LoadInv', AboveInv, Calms, NEW f, NEW g, Pushes(f, g),
         g.blob = Top.blob, g.at = Top.at,
         \A x \in Blobs : waitingFor'[x] \subseteq waitingFor[x],
         \A i \in DOMAIN stack, A \in SUBSET Imported :
           stack[i].at = "data" /\ Sealed(i, A) => f.blob \in A
  PROVE  AboveInv'
<1>1. /\ Len(stack') = Len(stack) + 1 /\ stack'[1] = f /\ stack'[2] = g
      /\ \A i \in 3 .. Len(stack') : stack'[i] = stack[i - 1]
      /\ DOMAIN stack = 1 .. Len(stack) /\ DOMAIN stack' = 1 .. Len(stack')
      /\ Len(stack) \in Nat \ {0} /\ stack[1] = Top
  BY TopFacts, StackDomain, StackDomainNext DEF Pushes
<1>2. ASSUME NEW k \in DOMAIN stack', k # 1
      PROVE  /\ k - 1 \in DOMAIN stack /\ stack'[k].blob = stack[k - 1].blob
             /\ stack'[k].at = stack[k - 1].at
  <2>1. CASE k = 2 BY <1>1, <2>1
  <2>2. CASE k # 2
    <3>1. k \in 3 .. Len(stack') /\ k - 1 \in DOMAIN stack BY <1>1, <1>2, <2>2
    <3> QED BY <1>1, <3>1
  <2> QED BY <2>1, <2>2
<1>3. ASSUME NEW k \in DOMAIN stack', k # 1, stack'[k].at = "data",
             status'[stack'[k].blob] = "loading"
      PROVE  \E i \in DOMAIN stack :
               /\ stack[i].at = "data" /\ status[stack[i].blob] = "loading"
               /\ \A A \in SUBSET Imported : Sealed(i, A) =>
                    /\ \A j \in 1 .. k - 1 : stack'[j].blob \in A
                    /\ \A a \in A, w \in Blobs :
                         a \in waitingFor'[w] => a \in waitingFor[w] \/ w \in A
  <2>1. /\ k - 1 \in DOMAIN stack /\ stack[k - 1].at = "data"
        /\ status[stack[k - 1].blob] = "loading"
    BY <1>2, <1>3 DEF Calms
  <2>2. ASSUME NEW A \in SUBSET Imported, Sealed(k - 1, A), NEW j \in 1 .. k - 1
        PROVE  stack'[j].blob \in A
    <3>1. CASE j = 1 BY <1>1, <2>1, <2>2, <3>1
    <3>2. CASE j # 1
      <4>1. j \in DOMAIN stack' /\ j - 1 \in 1 .. k - 1 - 1 BY <1>1, <3>2
      <4>2. stack'[j].blob = stack[j - 1].blob BY <1>2, <3>2, <4>1
      <4> QED BY <2>2, <4>1, <4>2 DEF Sealed
    <3> QED BY <3>1, <3>2
  <2> QED BY <2>1, <2>2
<1> QED BY <1>3, AboveKept DEF Calms

LEMMA TodoKept ==
  ASSUME UNCHANGED files, TodoLeads,
         \A k \in DOMAIN stack' :
           \/ TodoOk(stack'[k])
           \/ \E i \in DOMAIN stack : /\ stack'[k].blob = stack[i].blob
                                      /\ stack'[k].at = stack[i].at
                                      /\ stack'[k].todo = stack[i].todo
  PROVE  TodoLeads'
<1>1. \A k \in DOMAIN stack' : TodoOk(stack'[k]) BY DEF TodoLeads, TodoOk
<1>2. \A x, d : Leads(x, d)' <=> Leads(x, d) BY GraphStays
<1> QED BY <1>1, <1>2 DEF TodoLeads, TodoOk, Imported

LEMMA CycleBecomes ==
  ASSUME TypeOK, TypeOK', ApartInv, LoadInv', UNCHANGED files, CycleInv,
         NEW f \in Frames, Becomes(f), f.blob = Top.blob, TodoOk(f), Changes(f.blob, f.at),
         status'[f.blob] = "loading" => status[f.blob] = "loading"
  PROVE  CycleInv'
<1>1. f.blob \in Blobs BY FrameFields
<1>2. TodoLeads'
  <2>1. /\ Len(stack') = Len(stack) /\ stack'[1] = f /\ Len(stack) \in Nat
        /\ \A i \in 2 .. Len(stack) : stack'[i] = stack[i]
        /\ DOMAIN stack = 1 .. Len(stack) /\ DOMAIN stack' = 1 .. Len(stack)
    BY StackDomain, StackDomainNext DEF Becomes
  <2>2. \A k \in 1 .. Len(stack) : k = 1 \/ k \in 2 .. Len(stack) BY <2>1
  <2>3. \A k \in DOMAIN stack' :
          TodoOk(stack'[k]) \/ \E i \in DOMAIN stack : stack'[k] = stack[i]
    BY <2>1, <2>2
  <2> QED BY <2>3, TodoKept DEF CycleInv
<1>3. Calms
  <2>1. \A i \in DOMAIN stack : stack[i].blob \in Blobs BY FrameFields DEF TypeOK
  <2> QED BY <1>1, <2>1 DEF Calms, Changes
<1>4. AboveInv' BY <1>3, AboveBecomes DEF Changes, CycleInv
<1> QED BY <1>1, <1>2, <1>4, KindBecomes, ChangesOne, Kinds

LEMMA CyclePops ==
  ASSUME TypeOK, TypeOK', ApartInv, LoadInv', UNCHANGED files, CycleInv, Pops,
         NEW b \in Blobs, b = Top.blob, Changes(b, "none"), waitingFor'[b] \subseteq waitingFor[b],
         status'[b] = "loading" => status[b] = "loading"
  PROVE  CycleInv'
<1>1. TodoLeads'
  <2>1. /\ Len(stack') = Len(stack) - 1 /\ Len(stack) \in Nat
        /\ \A i \in 1 .. Len(stack') : stack'[i] = stack[i + 1]
        /\ DOMAIN stack = 1 .. Len(stack) /\ DOMAIN stack' = 1 .. Len(stack')
    BY StackDomain, StackDomainNext DEF Pops
  <2>2. \A k \in DOMAIN stack' : k + 1 \in DOMAIN stack /\ stack'[k] = stack[k + 1] BY <2>1
  <2>3. \A k \in DOMAIN stack' : \E i \in DOMAIN stack : stack'[k] = stack[i] BY <2>2
  <2> QED BY <2>3, TodoKept DEF CycleInv
<1>2. Calms
  <2>1. \A i \in DOMAIN stack : stack[i].blob \in Blobs BY FrameFields DEF TypeOK
  <2> QED BY <2>1 DEF Calms, Changes
<1>3. AboveInv' BY <1>2, AbovePops DEF Changes, CycleInv
<1>4. /\ \A x \in Blobs \ {b} : SameKinds(x)
      /\ InData(b)' <=> "none" = "data"
      /\ InALoop(b)' <=> "none" \in LoopKinds
  BY KindPops DEF LoopKinds
<1> QED BY <1>1, <1>3, <1>4, ChangesOne

LEMMA CyclePushes ==
  ASSUME TypeOK, TypeOK', LoadInv', UNCHANGED files, CycleInv,
         NEW f \in Frames, NEW g, Pushes(f, g), ~OnStack(f.blob),
         g.blob = Top.blob, g.at = Top.at, g.todo = Top.todo, TodoOk(f), Changes(f.blob, f.at),
         waitingFor'[f.blob] \subseteq waitingFor[f.blob],
         \A i \in DOMAIN stack, A \in SUBSET Imported :
           stack[i].at = "data" /\ Sealed(i, A) => f.blob \in A
  PROVE  CycleInv'
<1>1. f.blob \in Blobs BY FrameFields
<1>2. TodoLeads'
  <2>1. /\ Len(stack') = Len(stack) + 1 /\ stack'[1] = f /\ stack'[2] = g /\ Len(stack) \in Nat
        /\ \A i \in 3 .. Len(stack') : stack'[i] = stack[i - 1]
        /\ DOMAIN stack = 1 .. Len(stack) /\ DOMAIN stack' = 1 .. Len(stack')
        /\ 1 \in DOMAIN stack /\ stack[1] = Top
    BY TopFacts, StackDomain, StackDomainNext DEF Pushes
  <2>2. ASSUME NEW k \in DOMAIN stack', k # 1
        PROVE  \E i \in DOMAIN stack : /\ stack'[k].blob = stack[i].blob
                                       /\ stack'[k].at = stack[i].at
                                       /\ stack'[k].todo = stack[i].todo
    <3>1. CASE k = 2 BY <2>1, <3>1
    <3>2. CASE k # 2
      <4>1. k \in 3 .. Len(stack') /\ k - 1 \in DOMAIN stack BY <2>1, <2>2, <3>2
      <4> QED BY <2>1, <4>1
    <3> QED BY <3>1, <3>2
  <2>3. \A k \in DOMAIN stack' :
          \/ TodoOk(stack'[k])
          \/ \E i \in DOMAIN stack : /\ stack'[k].blob = stack[i].blob
                                     /\ stack'[k].at = stack[i].at
                                     /\ stack'[k].todo = stack[i].todo
    BY <2>1, <2>2
  <2> QED BY <2>3, TodoKept DEF CycleInv
<1>3. Calms
  <2>1. \A i \in DOMAIN stack : stack[i].blob \in Blobs /\ stack[i].blob # f.blob
    BY FrameFields DEF TypeOK, OnStack
  <2> QED BY <1>1, <2>1 DEF Calms, Changes
<1>4. AboveInv'
  <2>1. \A x \in Blobs : waitingFor'[x] \subseteq waitingFor[x] BY DEF Changes
  <2> QED BY <1>3, <2>1, AbovePushes DEF CycleInv
<1> QED BY <1>1, <1>2, <1>4, KindPushes, ChangesOne, Kinds

LEMMA CycleStarts ==
  ASSUME TypeOK, TypeOK', LoadInv', UNCHANGED files, CycleInv,
         NEW f \in Frames, Starts(f), TodoOk(f), Changes(f.blob, f.at)
  PROVE  CycleInv'
<1>1. f.blob \in Blobs BY FrameFields
<1>2. stack = <<>> /\ DOMAIN stack = {} /\ DOMAIN stack' = {1} /\ stack'[1] = f
  BY StackDomain, StackDomainNext DEF Starts
<1>3. TodoLeads' BY <1>2, TodoKept DEF CycleInv
<1>4. AboveInv'
  <2>1. \A x \in Blobs : status'[x] = "null" => status[x] = "null" BY <1>1 DEF Changes
  <2> QED BY <1>2, <2>1, AboveKept DEF CycleInv
<1> QED BY <1>1, <1>3, <1>4, KindStarts, ChangesOne, Kinds

-----------------------------------------------------------------------------
(* Each step keeps CycleInv.                                               *)

\* What CycleInv says of the blob on top.
LEMMA TopCycle ==
  ASSUME TypeOK, RestInv, CycleInv, stack # <<>>, NEW b, b = Top.blob
  PROVE  /\ b \in Blobs /\ TodoOk(Top)
         /\ \A d \in waitingFor[b] : Leads(b, d)
         /\ status[b] = "loading" => Top.at = "data"
         /\ status[b] = "error" /\ (waitingFor[b] # {} \/ Top.at \in LoopKinds) => LeadsToCycle(b)
<1>1. b \in Blobs /\ ~Queued(b) BY TopBlob
<1>2. TodoOk(Top) BY TopFacts DEF CycleInv, TodoLeads
<1>3. /\ InData(b) <=> Top.at = "data"
      /\ InALoop(b) <=> Top.at \in LoopKinds
  BY KindOfTop DEF RestInv
<1> QED BY <1>1, <1>2, <1>3 DEF CycleInv, WaitsLead, LoadingInv, ErrorInv

LEMMA CallCompletedCycle ==
  ASSUME TypeOK, TypeOK', UNCHANGED files, RestInv, LoadInv', CycleInv, CallCompleted
  PROVE  CycleInv'
<1>1. PICK b \in Blobs : b = Top.blob /\ stack # <<>> /\ Top.at = "notify"
  BY TopFacts DEF CallCompleted, At
<1>2. Pops BY <1>1, PopsIt DEF CallCompleted
<1>3. UNCHANGED <<status, waitingFor, threadList, network>> BY DEF CallCompleted
<1>4. /\ \A d \in waitingFor[b] : Leads(b, d)
      /\ status[b] # "loading" /\ status[b] # "null"
      /\ status[b] = "error" /\ waitingFor[b] # {} => LeadsToCycle(b)
  BY <1>1, TopCycle, TopBlob
<1>5. "none" \notin LoopKinds BY DEF LoopKinds
<1>6. Changes(b, "none")
  BY <1>3, <1>4, <1>5 DEF Changes, SameQueue, Queued, CycleInv, AskedInv
<1> QED BY <1>1, <1>2, <1>3, <1>6, CyclePops DEF RestInv

LEMMA SkipSingletonCycle ==
  ASSUME TypeOK, TypeOK', UNCHANGED files, RestInv, LoadInv', CycleInv,
         NEW d \in Blobs, SkipSingleton(d)
  PROVE  CycleInv'
<1>0. PICK b : b = Top.blob OBVIOUS
<1>1. stack # <<>> /\ Top.at = "types" /\ Gets(d) /\ Got(d)
  BY GetsFacts DEF SkipSingleton, IsCyclicSingleton
<1>2. PICK f \in Frames : Becomes(f) /\ f.blob = b /\ f.at = "types"
  BY <1>0, <1>1, GotStack
<1>3. UNCHANGED <<status, waitingFor, threadList, network>> BY DEF SkipSingleton
<1>4. /\ \A e \in waitingFor[b] : Leads(b, e)
      /\ status[b] # "loading" /\ status[b] # "null"
      /\ status[b] = "error" => LeadsToCycle(b)
  BY <1>0, <1>1, TopCycle, TopBlob DEF LoopKinds
<1>5. Changes(b, "types")
  BY <1>3, <1>4 DEF Changes, SameQueue, Queued, CycleInv, AskedInv
<1>6. TodoOk(f) BY <1>2 DEF TodoOk
<1> QED BY <1>0, <1>2, <1>3, <1>5, <1>6, CycleBecomes DEF RestInv

LEMMA FailCycle ==
  ASSUME TypeOK, TypeOK', UNCHANGED files, RestInv, LoadInv', CycleInv, Fail
  PROVE  CycleInv'
<1>0. PICK b : b = Top.blob OBVIOUS
<1>1. stack # <<>> BY FailStack
<1>2. b \in Blobs BY <1>0, <1>1, TopBlob
<1>3. PICK f \in Frames : Becomes(f) /\ f.blob = b /\ f.at = "settle"
  <2>1. "settle" \in FrameKinds /\ {} \in SUBSET Blobs BY DEF FrameKinds
  <2> QED BY <1>0, <1>2, <2>1, FailStack, FrameType
<1>4. /\ status' = [status EXCEPT ![b] = "error"]
      /\ waitingFor' = [waitingFor EXCEPT ![b] = {}]
      /\ UNCHANGED <<threadList, network>>
  BY <1>0 DEF Fail, SetError
<1>5. /\ status'[b] = "error" /\ waitingFor'[b] = {}
      /\ \A x \in Blobs \ {b} : status'[x] = status[x] /\ waitingFor'[x] = waitingFor[x]
  BY <1>2, <1>4 DEF TypeOK
<1>6. Changes(b, "settle")
  BY <1>4, <1>5 DEF Changes, SameQueue, Queued, CycleInv, AskedInv, LoopKinds
<1>7. TodoOk(f) BY <1>3 DEF TodoOk
<1> QED BY <1>0, <1>3, <1>5, <1>6, <1>7, CycleBecomes DEF RestInv

LEMMA LoopEndsCycle ==
  ASSUME TypeOK, TypeOK', UNCHANGED files, RestInv, LoadInv', CycleInv, LoopEnds
  PROVE  CycleInv'
<1>0. PICK b : b = Top.blob OBVIOUS
<1>1. stack # <<>> /\ Top.at \in LoopKinds BY LoopEndsStack DEF LoopEnds, InLoop, LoopKinds
<1>2. /\ b \in Blobs /\ \A d \in waitingFor[b] : Leads(b, d)
      /\ status[b] = "loading" => Top.at = "data"
      /\ status[b] = "error" => LeadsToCycle(b)
      /\ status[b] # "null"
  BY <1>0, <1>1, TopCycle, TopBlob
<1>3. PICK f \in Frames : /\ Becomes(f) /\ f.blob = b /\ f.at \in {"settle", "types"}
                          /\ \/ status' = [status EXCEPT ![b] = "waiting"]
                             \/ status' = status /\ status[b] # "loading"
  <2>1. /\ Frame(b, "settle", {}).blob = b /\ Frame(b, "settle", {}).at = "settle"
        /\ Frame(b, "types", Types(b)).blob = b /\ Frame(b, "types", Types(b)).at = "types"
    BY DEF Frame
  <2>2. ~ReadyForTypes(b) /\ Top.at # "types" => status[b] # "loading"
    BY <1>2 DEF ReadyForTypes
  <2> QED BY <1>0, <1>2, <2>1, <2>2, LoopEndsStack
<1>4. /\ status'[b] = status[b] \/ status'[b] = "waiting"
      /\ status'[b] # "loading" /\ status'[b] # "null"
      /\ \A x \in Blobs \ {b} : status'[x] = status[x]
  BY <1>2, <1>3 DEF TypeOK
<1>5. UNCHANGED <<waitingFor, threadList, network>> BY DEF LoopEnds
<1>6. Changes(b, f.at)
  BY <1>2, <1>4, <1>5 DEF Changes, SameQueue, Queued, CycleInv, AskedInv
<1>7. TodoOk(f) BY <1>3 DEF TodoOk
<1> QED BY <1>0, <1>3, <1>4, <1>6, <1>7, CycleBecomes DEF RestInv

LEMMA SettleCycle ==
  ASSUME TypeOK, TypeOK', UNCHANGED files, RestInv, LoadInv', CycleInv, Settle
  PROVE  CycleInv'
<1>0. PICK b : b = Top.blob OBVIOUS
<1>1. stack # <<>> /\ Top.at = "settle" BY SettleStack DEF Settle, At
<1>2. /\ b \in Blobs /\ \A d \in waitingFor[b] : Leads(b, d)
      /\ status[b] # "loading" /\ status[b] # "null"
      /\ status[b] = "error" /\ waitingFor[b] # {} => LeadsToCycle(b)
  BY <1>0, <1>1, TopCycle, TopBlob
<1>3. UNCHANGED <<waitingFor, threadList, network>> BY DEF Settle
<1>4. CASE /\ waitingFor[b] = {} /\ Done(b)
           /\ Frame(b, "notify", {}) \in Frames /\ Becomes(Frame(b, "notify", {}))
  <2>1. PICK f \in Frames : Becomes(f) /\ f.blob = b /\ f.at = "notify"
    <3>1. Frame(b, "notify", {}).blob = b /\ Frame(b, "notify", {}).at = "notify" BY DEF Frame
    <3> QED BY <1>4, <3>1
  <2>2. /\ status'[b] \in {"error", "complete"}
        /\ \A x \in Blobs \ {b} : status'[x] = status[x]
    BY <1>2, <1>4 DEF Done, TypeOK
  <2>3. Changes(b, "notify")
    BY <1>3, <1>4, <2>2 DEF Changes, SameQueue, Queued, CycleInv, AskedInv, LoopKinds
  <2>4. TodoOk(f) BY <2>1 DEF TodoOk
  <2> QED BY <1>0, <2>1, <2>2, <2>3, <2>4, CycleBecomes DEF RestInv
<1>5. CASE /\ status' = IF status[b] = "error" THEN status ELSE [status EXCEPT ![b] = "waiting"]
           /\ Pops
  <2>1. /\ status'[b] = status[b] \/ status'[b] = "waiting"
        /\ \A x \in Blobs \ {b} : status'[x] = status[x]
    BY <1>2, <1>5 DEF TypeOK
  <2>2. "none" \notin LoopKinds BY DEF LoopKinds
  <2>3. Changes(b, "none")
    BY <1>2, <1>3, <2>1, <2>2 DEF Changes, SameQueue, Queued, CycleInv, AskedInv
  <2> QED BY <1>0, <1>2, <1>3, <1>5, <2>1, <2>3, CyclePops DEF RestInv
<1> QED BY <1>0, <1>4, <1>5, SettleStack

LEMMA NotifyCycle ==
  ASSUME TypeOK, TypeOK', UNCHANGED files, ListsInv, RestInv, LoadInv', CycleInv, NotifyWaiting
  PROVE  CycleInv'
<1>0. PICK b : b = Top.blob OBVIOUS
<1> DEFINE todo == IF b \in Qmldirs /\ status[b] = "complete" THEN Imports(b) ELSE {}
<1>1. PICK w : w = waitingOnMe[b][Len(waitingOnMe[b])] OBVIOUS
<1>2. PICK f \in Frames : f = Frame(w, "ready", todo) /\ Pushes(f, Top)
  BY <1>0, <1>1, NotifyStack
<1>3. /\ stack # <<>> /\ Top.at = "notify" /\ b \in Blobs /\ w \in Blobs
      /\ Len(waitingOnMe[b]) \in DOMAIN waitingOnMe[b]
  <2>1. /\ stack # <<>> /\ b \in Blobs /\ waitingOnMe[b] \in Seq(Blobs) /\ w \in Blobs
        /\ Len(waitingOnMe[b]) \in 1 .. Len(waitingOnMe[b])
    BY <1>0, <1>1, NotifyStack
  <2>2. DOMAIN waitingOnMe[b] = 1 .. Len(waitingOnMe[b]) BY <2>1
  <2> QED BY <2>1, <2>2 DEF NotifyWaiting, At
<1>4. f.blob = w /\ f.at = "ready" /\ f.todo = todo BY <1>2 DEF Frame
<1>5. b \in waitingFor[w] BY <1>1, <1>3 DEF ListsInv, OnList
<1>6. /\ UNCHANGED <<status, threadList, network>>
      /\ waitingFor' = [waitingFor EXCEPT ![w] = @ \ {b}]
  BY <1>0, <1>1 DEF NotifyWaiting
<1>7. /\ waitingFor'[w] = waitingFor[w] \ {b}
      /\ \A x \in Blobs \ {w} : waitingFor'[x] = waitingFor[x]
  BY <1>3, <1>6 DEF TypeOK
<1>8. ~OnStack(w)
  <2>1. waitingFor[b] = {} BY <1>0, <1>3, TopBlob
  <2> QED BY <1>0, <1>2, <1>3, <1>4, <1>5, <1>7, <2>1, ApartNotifies DEF RestInv
<1>9. Leads(w, b) BY <1>3, <1>5 DEF CycleInv, WaitsLead
<1>10. TodoOk(f) BY <1>4, <1>9, ImportsLead DEF TodoOk
<1>11. Changes(w, "ready")
  <2>1. \A d \in waitingFor'[w] : Leads(w, d) BY <1>3, <1>7 DEF CycleInv, WaitsLead
  <2>2. status[w] = "error" => LeadsToCycle(w) BY <1>3, <1>5 DEF CycleInv, ErrorInv
  <2>3. status[w] # "loading" /\ status[w] # "null"
    <3>1. ~Queued(w) /\ status[w] # "null" BY <1>3, <1>5 DEF RestInv, LoadInv, Untouched
    <3>2. ~InData(w) BY <1>8 DEF OnStack, InData, InKind
    <3> QED BY <1>3, <3>1, <3>2 DEF CycleInv, LoadingInv
  <2> QED BY <1>6, <1>7, <2>1, <2>2, <2>3 DEF Changes, SameQueue, Queued, CycleInv, AskedInv
<1>12. ASSUME NEW i \in DOMAIN stack, NEW A \in SUBSET Imported, stack[i].at = "data", Sealed(i, A)
       PROVE  f.blob \in A
  <2>1. /\ stack[1] = Top /\ DOMAIN stack = 1 .. Len(stack) /\ Len(stack) \in Nat
    BY <1>3, TopFacts
  <2>2. 1 \in 1 .. i - 1 BY <1>3, <1>12, <2>1
  <2>3. b \in A BY <1>0, <1>12, <2>1, <2>2 DEF Sealed
  <2> QED BY <1>3, <1>4, <1>5, <1>12, <2>3 DEF Sealed
<1> QED BY <1>2, <1>4, <1>7, <1>8, <1>10, <1>11, <1>12, CyclePushes

\* When resolveTypes() gets a late singleton that is there and does not wait, it is done:
\* its data is not being looked at, for what loads above that uses no types.
LEMMA LateIsDone ==
  ASSUME TypeOK, RestInv, CycleInv, NEW d \in LateSingletons, Gets(d), Top.at = "types",
         status[d] \notin {"null", "waiting"}
  PROVE  CompleteOrError(d)
<1>1. d \in Blobs /\ d \notin Remote /\ d \notin Asked
  BY BlobAssumption DEF LateSingletons
<1>2. stack # <<>> /\ d \in Types(Top.blob) BY <1>1, GetsFacts
<1>3. ASSUME status[d] = "loading" PROVE FALSE
  <2>1. ~Queued(d) BY <1>1 DEF Queued, TypeOK, CycleInv, AskedInv
  <2>2. InData(d) BY <1>1, <1>3, <2>1 DEF CycleInv, LoadingInv
  <2>3. PICK i \in DOMAIN stack : stack[i].blob = d /\ stack[i].at = "data"
    BY <2>2 DEF InData, InKind
  <2>4. 1 \in 1 .. i - 1 /\ stack[1] = Top
    <3>1. stack[1] = Top /\ DOMAIN stack = 1 .. Len(stack) /\ Len(stack) \in Nat
      BY <1>2, TopFacts
    <3> QED BY <2>3, <3>1
  <2>5. PICK A \in SUBSET Imported : Sealed(i, A) BY <1>3, <2>3 DEF CycleInv, AboveInv
  <2>6. Top.blob \in Imported BY <2>4, <2>5 DEF Sealed
  <2> QED BY <1>2, <2>6, ImportedUsesNone
<1>4. status[d] \in {"null", "loading", "waiting", "complete", "error"} BY <1>1 DEF TypeOK
<1> QED BY <1>3, <1>4 DEF CompleteOrError

\* addDependency() makes a file wait only for what it leads to.
LEMMA DependsOnLead ==
  ASSUME TypeOK, RestInv, CycleInv, NEW d \in Blobs, GetKnown(d)
  PROVE  CompleteOrError(d) \/ Leads(Top.blob, d)
<1>1. /\ stack # <<>> /\ d \in Top.todo /\ Top.at \in {"data", "ready", "types"} /\ Gets(d)
      /\ Top.at = "types" => d \in Types(Top.blob)
      /\ status[d] # "null" /\ ~IsCyclicSingleton(Top.blob, d)
  BY GetsFacts DEF GetKnown
<1>2. CASE Top.at # "types"
  <2>1. TodoOk(Top) BY <1>1, TopCycle
  <2> QED BY <1>1, <1>2, <2>1 DEF TodoOk
<1>3. CASE Top.at = "types" /\ d \in LateSingletons
  <2>1. status[d] # "waiting" BY <1>1, <1>3 DEF IsCyclicSingleton, LateSingletons
  <2> QED BY <1>1, <1>3, <2>1, LateIsDone
<1>4. CASE Top.at = "types" /\ d \notin LateSingletons
  <2>1. <<Top.blob, d>> \in types BY <1>1, <1>4 DEF Types
  <2>2. <<Top.blob, d>>[2] = d OBVIOUS
  <2>3. <<Top.blob, d>> \in BlockingEdges BY <1>4, <2>1, <2>2 DEF BlockingEdges
  <2> QED BY <2>3, EdgeLeads
<1> QED BY <1>2, <1>3, <1>4

\* ... and sets an error only in a cycle.
LEMMA DependsOnCycle ==
  ASSUME TypeOK, ListsInv, CycleInv, NEW b \in Blobs, NEW d \in Blobs, AddDependency(b, d),
         CompleteOrError(d) \/ Leads(b, d)
  PROVE  /\ \A x \in Blobs \ {b} : status'[x] = status[x] /\ waitingFor'[x] = waitingFor[x]
         /\ \A e \in waitingFor'[b] : Leads(b, e)
         /\ \/ status'[b] = status[b] /\ waitingFor'[b] = waitingFor[b]
            \/ status'[b] = "waiting"
            \/ status'[b] = "error" /\ LeadsToCycle(b)
<1>1. \A e \in waitingFor[b] : Leads(b, e) BY DEF CycleInv, WaitsLead
<1>2. CASE UNCHANGED <<status, waitingFor, waitingOnMe>>
  BY <1>1, <1>2
<1>3. CASE /\ Leads(b, d)
           /\ waitingFor' = [waitingFor EXCEPT ![b] = @ \cup {d}]
           /\ waitingOnMe' = [waitingOnMe EXCEPT ![d] = Append(@, b)]
           /\ status' = [status EXCEPT ![b] =
                IF \E i \in DOMAIN waitingOnMe'[b] : waitingOnMe'[b][i] = d
                THEN "error" ELSE "waiting"]
  <2>1. /\ waitingFor'[b] = waitingFor[b] \cup {d}
        /\ \A x \in Blobs \ {b} : status'[x] = status[x] /\ waitingFor'[x] = waitingFor[x]
    BY <1>3 DEF TypeOK
  <2>2. \/ status'[b] = "waiting"
        \/ status'[b] = "error" /\ \E i \in DOMAIN waitingOnMe'[b] : waitingOnMe'[b][i] = d
    BY <1>3 DEF TypeOK
  <2>3. ASSUME \E i \in DOMAIN waitingOnMe'[b] : waitingOnMe'[b][i] = d PROVE LeadsToCycle(b)
    <3>1. CASE d = b BY <1>3, <3>1, LeadsRound
    <3>2. CASE d # b
      <4>1. waitingOnMe'[b] = waitingOnMe[b] BY <1>3, <3>2 DEF TypeOK
      <4>2. b \in waitingFor[d] BY <2>3, <4>1 DEF ListsInv, OnList
      <4>3. Leads(d, b) BY <4>2 DEF CycleInv, WaitsLead
      <4> QED BY <1>3, <4>3, LeadsRound
    <3> QED BY <3>1, <3>2
  <2> QED BY <1>1, <1>3, <2>1, <2>2, <2>3
<1> QED BY <1>2, <1>3 DEF AddDependency

LEMMA GetKnownCycle ==
  ASSUME TypeOK, TypeOK', UNCHANGED files, ListsInv, RestInv, LoadInv', CycleInv,
         NEW d \in Blobs, GetKnown(d)
  PROVE  CycleInv'
<1>0. PICK b : b = Top.blob OBVIOUS
<1>1. /\ stack # <<>> /\ d \in Top.todo /\ Top.at \in LoopKinds
  BY GetsFacts DEF GetKnown, LoopKinds
<1>2. PICK f \in Frames :
        /\ Becomes(f) /\ f.blob = b /\ f.at = Top.at
        /\ f.todo = (Top.todo \ {d}) \cup IF d \in Qmldirs /\ status[d] = "complete"
                                         THEN Imports(d) ELSE {}
  BY <1>0, GotStack DEF GetKnown
<1>3. /\ b \in Blobs /\ TodoOk(Top) /\ status[b] # "null"
      /\ status[b] = "loading" => Top.at = "data"
      /\ status[b] = "error" => LeadsToCycle(b)
  BY <1>0, <1>1, TopCycle, TopBlob
<1>4. /\ \A x \in Blobs \ {b} : status'[x] = status[x] /\ waitingFor'[x] = waitingFor[x]
      /\ \A e \in waitingFor'[b] : Leads(b, e)
      /\ \/ status'[b] = status[b] /\ waitingFor'[b] = waitingFor[b]
         \/ status'[b] = "waiting"
         \/ status'[b] = "error" /\ LeadsToCycle(b)
  <2>1. AddDependency(b, d) BY <1>0 DEF GetKnown
  <2>2. CompleteOrError(d) \/ Leads(b, d) BY <1>0, DependsOnLead
  <2> QED BY <1>3, <2>1, <2>2, DependsOnCycle
<1>5. UNCHANGED <<threadList, network>> BY DEF GetKnown
<1>6. Changes(b, f.at)
  BY <1>2, <1>3, <1>4, <1>5 DEF Changes, SameQueue, Queued, CycleInv, AskedInv
<1>7. TodoOk(f)
  <2>1. Top.blob = b /\ d \in Top.todo BY <1>0, <1>1
  <2> QED BY <1>2, <1>3, <2>1, ImportsLead DEF TodoOk
<1>8. status'[b] = "loading" => status[b] = "loading" BY <1>4
<1> QED BY <1>0, <1>2, <1>6, <1>7, <1>8, CycleBecomes DEF RestInv

\* The first frame of a file that was in no callback and waited for nothing.
LEMMA FirstFrameCycle ==
  ASSUME TypeOK, NEW d \in Blobs, Untouched(d), OnlyWaits(d), NEW f \in Frames, FirstFrame(f, d),
         AskedInv', \A x \in Blobs \ {d} : SameQueue(x)
  PROVE  TodoOk(f) /\ Changes(f.blob, f.at) /\ f.blob = d /\ waitingFor'[d] = waitingFor[d]
<1>1. /\ f.blob = d
      /\ \/ f.at = "settle" /\ status' = [status EXCEPT ![d] = "error"]
         \/ /\ f.at = "data" /\ f.todo = OwnImports(d)
            /\ status' = [status EXCEPT ![d] = "loading"]
  BY FirstFrameType
<1>2. waitingFor[d] = {} /\ \A x \in Blobs : waitingFor'[x] = waitingFor[x]
  BY DEF Untouched, OnlyWaits, TypeOK
<1>3. /\ \/ f.at = "settle" /\ status'[d] = "error"
         \/ f.at = "data" /\ status'[d] = "loading"
      /\ \A x \in Blobs \ {d} : status'[x] = status[x]
  BY <1>1 DEF TypeOK
<1>4. Changes(d, f.at) BY <1>2, <1>3 DEF Changes, LoopKinds
<1>5. TodoOk(f) BY <1>1, <1>3, ImportsLead DEF TodoOk
<1> QED BY <1>1, <1>2, <1>4, <1>5

\* A file that is queued and in no callback, on a stack that looks the same.
LEMMA QueuedCycle ==
  ASSUME TypeOK, TypeOK', LoadInv', UNCHANGED files, CycleInv, NEW d \in Blobs,
         Untouched(d), waitingFor' = waitingFor \/ OnlyWaits(d),
         status' = [status EXCEPT ![d] = "loading"], Queued(d)', AskedInv',
         \A x \in Blobs \ {d} : SameQueue(x), \A x \in Blobs : SameKinds(x),
         TodoLeads', AboveInv'
  PROVE  CycleInv'
<1>1. waitingFor[d] = {} /\ \A x \in Blobs : waitingFor'[x] = waitingFor[x]
  BY DEF Untouched, OnlyWaits, TypeOK
<1>2. status'[d] = "loading" /\ \A x \in Blobs \ {d} : status'[x] = status[x] BY DEF TypeOK
<1>3. Changes(d, "none") BY <1>1, <1>2 DEF Changes
<1>4. ~InData(d)' /\ ~InALoop(d)'
  <2>1. ~InData(d) /\ ~InALoop(d) BY DEF Untouched, OnStack, InData, InALoop, InKind
  <2> QED BY <2>1, Kinds
<1>5. "none" \notin LoopKinds BY DEF LoopKinds
<1> QED BY <1>3, <1>4, <1>5, ChangesOne

LEMMA GetUnknownCycle ==
  ASSUME TypeOK, TypeOK', UNCHANGED files, RestInv, LoadInv', CycleInv,
         NEW d \in Blobs, GetUnknown(d)
  PROVE  CycleInv'
<1>0. PICK b : b = Top.blob OBVIOUS
<1>1. /\ stack # <<>> /\ d \in Top.todo /\ Top.at \in {"data", "ready", "types"}
      /\ Top.at = "types" => d \in Types(b)
  BY <1>0, GetsFacts DEF GetUnknown
<1>2. /\ status[d] = "null" /\ Untouched(d) /\ ~Queued(d) /\ ~OnStack(d)
      /\ b \in Blobs /\ b # d /\ TodoOk(Top)
  <2>1. status[d] = "null" /\ Untouched(d) /\ ~Queued(d)
    BY DEF GetUnknown, RestInv, LoadInv
  <2>2. b \in Blobs /\ status[b] # "null" /\ TodoOk(Top) BY <1>0, <1>1, TopBlob, TopCycle
  <2> QED BY <2>1, <2>2 DEF Untouched
<1>3. PICK g \in Frames : g = Waiter(d) /\ g.blob = b /\ g.at = Top.at /\ g.todo = Top.todo
  BY <1>0, <1>1, WaiterFacts, GetUnknownStack
<1>4. /\ OnlyWaits(d)
      /\ \/ /\ Becomes(g) /\ network' = network \cup {d}
            /\ status' = [status EXCEPT ![d] = "loading"]
         \/ /\ \E f \in Frames : FirstFrame(f, d) /\ Pushes(f, g)
            /\ UNCHANGED network
  BY <1>3, GetUnknownStack
<1>5. UNCHANGED threadList /\ AskedInv' BY DEF GetUnknown, CycleInv, AskedInv
<1>6. \A x \in Blobs : waitingFor'[x] = waitingFor[x]
  BY <1>2, <1>4 DEF Untouched, OnlyWaits, TypeOK
<1>7. CASE /\ Becomes(g) /\ network' = network \cup {d}
           /\ status' = [status EXCEPT ![d] = "loading"]
  <2>1. Queued(d)' /\ \A x \in Blobs \ {d} : SameQueue(x)
    BY <1>5, <1>7 DEF SameQueue, Queued
  <2>2. \A x \in Blobs : SameKinds(x)
    <3>1. (\A x \in Blobs \ {b} : SameKinds(x)) /\ HasKind(g)
      BY <1>0, <1>3, <1>7, KindBecomes DEF RestInv
    <3>2. SameKinds(b)
      BY <1>0, <1>1, <1>3, <3>1, KindOfTop DEF HasKind, SameKinds, RestInv
    <3> QED BY <3>1, <3>2
  <2>3. TodoLeads'
    <3>1. /\ DOMAIN stack' = 1 .. Len(stack) /\ DOMAIN stack = 1 .. Len(stack)
          /\ stack'[1] = g /\ stack[1] = Top /\ 1 \in DOMAIN stack /\ Len(stack) \in Nat
          /\ \A i \in 2 .. Len(stack) : stack'[i] = stack[i]
      BY <1>1, <1>7, TopFacts, StackDomainNext DEF Becomes
    <3>2. \A k \in 1 .. Len(stack) : k = 1 \/ k \in 2 .. Len(stack) BY <3>1
    <3>3. \A k \in DOMAIN stack' : /\ k \in DOMAIN stack /\ stack'[k].blob = stack[k].blob
                                   /\ stack'[k].at = stack[k].at
                                   /\ stack'[k].todo = stack[k].todo
      BY <1>0, <1>3, <3>1, <3>2
    <3> QED BY <3>3, TodoKept DEF CycleInv
  <2>4. AboveInv'
    <3>1. \A i \in DOMAIN stack : stack[i].blob \in Blobs /\ stack[i].blob # d
      BY <1>2, FrameFields DEF TypeOK, OnStack
    <3>2. Calms BY <1>7, <3>1 DEF Calms, TypeOK
    <3> QED BY <1>0, <1>3, <1>6, <1>7, <3>2, AboveBecomes DEF CycleInv
  <2> QED BY <1>2, <1>4, <1>5, <1>7, <2>1, <2>2, <2>3, <2>4, QueuedCycle
<1>8. CASE /\ \E f \in Frames : FirstFrame(f, d) /\ Pushes(f, g)
           /\ UNCHANGED network
  <2>1. PICK f \in Frames : FirstFrame(f, d) /\ Pushes(f, g) BY <1>8
  <2>2. \A x : SameQueue(x) BY <1>5, <1>8 DEF SameQueue, Queued
  <2>3. TodoOk(f) /\ Changes(f.blob, f.at) /\ f.blob = d
    BY <1>2, <1>4, <1>5, <2>1, <2>2, FirstFrameCycle
  <2>4. ASSUME NEW i \in DOMAIN stack, NEW A \in SUBSET Imported,
               stack[i].at = "data", Sealed(i, A)
        PROVE  d \in A
    <3>1. d \in Imported
      <4>1. CASE Top.at # "types" BY <1>1, <1>2, <4>1 DEF TodoOk
      <4>2. CASE Top.at = "types"
        <5>1. stack[1] = Top /\ DOMAIN stack = 1 .. Len(stack) /\ Len(stack) \in Nat
          BY <1>1, TopFacts
        <5>2. 1 \in 1 .. i - 1 BY <2>4, <4>2, <5>1
        <5>3. b \in Imported BY <1>0, <2>4, <5>1, <5>2 DEF Sealed
        <5> QED BY <1>1, <4>2, <5>3, ImportedUsesNone
      <4> QED BY <4>1, <4>2
    <3> QED BY <1>2, <2>4, <3>1 DEF Sealed
  <2> QED BY <1>0, <1>2, <1>3, <1>6, <2>1, <2>3, <2>4, CyclePushes
<1> QED BY <1>4, <1>7, <1>8

LEMMA TakeMessageCycle ==
  ASSUME TypeOK, TypeOK', UNCHANGED files, RestInv, LoadInv', CycleInv, TakeMessage
  PROVE  CycleInv'
<1>1. PICK d \in Blobs : d = Head(threadList) BY TakeMessageStack
<1>2. /\ stack = <<>> /\ OnlyWaits(d)
      /\ \/ /\ stack' = <<>> /\ network' = network \cup {d}
            /\ status' = [status EXCEPT ![d] = "loading"]
         \/ /\ \E f \in Frames : FirstFrame(f, d) /\ Starts(f)
            /\ UNCHANGED network
  BY <1>1, TakeMessageStack
<1>3. /\ threadList # <<>> /\ threadList \in Seq(Blobs) /\ threadList' = Tail(threadList)
  BY DEF TakeMessage, TypeOK
<1>4. /\ 1 \in DOMAIN threadList /\ threadList[1] = d
      /\ \A i \in DOMAIN threadList' : /\ i + 1 \in DOMAIN threadList
                                       /\ threadList'[i] = threadList[i + 1] /\ i \in Nat
      /\ \A i \in DOMAIN threadList : i = 1 \/ (i - 1 \in DOMAIN threadList'
                                               /\ threadList'[i - 1] = threadList[i])
  BY <1>1, <1>3
<1>5. Untouched(d)
  <2>1. Queued(d) BY <1>4 DEF Queued
  <2> QED BY <2>1 DEF RestInv, LoadInv
<1>6. AskedInv' BY <1>4 DEF CycleInv, AskedInv
<1>7. \A x \in Blobs \ {d} : (\E i \in DOMAIN threadList' : threadList'[i] = x)
                             <=> (\E i \in DOMAIN threadList : threadList[i] = x)
  BY <1>4
<1>8. CASE /\ stack' = <<>> /\ network' = network \cup {d}
           /\ status' = [status EXCEPT ![d] = "loading"]
  <2>1. \A x : SameKinds(x) BY <1>2, <1>8 DEF SameKinds, InKind
  <2>2. Queued(d)' /\ \A x \in Blobs \ {d} : SameQueue(x)
    BY <1>7, <1>8 DEF SameQueue, Queued
  <2>3. TodoLeads' /\ AboveInv' BY <1>8 DEF TodoLeads, AboveInv
  <2> QED BY <1>2, <1>5, <1>6, <1>8, <2>1, <2>2, <2>3, QueuedCycle
<1>9. CASE /\ \E f \in Frames : FirstFrame(f, d) /\ Starts(f)
           /\ UNCHANGED network
  <2>1. PICK f \in Frames : FirstFrame(f, d) /\ Starts(f) BY <1>9
  <2>2. \A x \in Blobs \ {d} : SameQueue(x) BY <1>7, <1>9 DEF SameQueue, Queued
  <2>3. TodoOk(f) /\ Changes(f.blob, f.at)
    BY <1>2, <1>5, <1>6, <2>1, <2>2, FirstFrameCycle
  <2> QED BY <2>1, <2>3, CycleStarts
<1> QED BY <1>2, <1>8, <1>9

LEMMA NetworkCycle ==
  ASSUME TypeOK, TypeOK', UNCHANGED files, RestInv, LoadInv', CycleInv,
         NEW d \in Blobs, NetworkReplyFinished(d)
  PROVE  CycleInv'
<1>1. PICK f \in Frames : FirstFrame(f, d) /\ Starts(f) /\ OnlyWaits(d)
  BY NetworkStack DEF RestInv
<1>2. UNCHANGED threadList /\ d \in network /\ network' = network \ {d}
  BY DEF NetworkReplyFinished
<1>3. Untouched(d) BY <1>2 DEF Queued, RestInv, LoadInv
<1>4. AskedInv' BY <1>2 DEF CycleInv, AskedInv
<1>5. \A x \in Blobs \ {d} : SameQueue(x) BY <1>2 DEF SameQueue, Queued
<1>6. TodoOk(f) /\ Changes(f.blob, f.at)
  BY <1>1, <1>3, <1>4, <1>5, FirstFrameCycle
<1> QED BY <1>1, <1>6, CycleStarts

LEMMA RequestCycle ==
  ASSUME TypeOK, TypeOK', UNCHANGED files, RestInv, LoadInv', CycleInv,
         NEW d \in Blobs, Request(d)
  PROVE  CycleInv'
<1>1. /\ UNCHANGED <<waitingFor, stack, network>> /\ d \in Asked
      /\ status[d] = "null" /\ status' = [status EXCEPT ![d] = "loading"]
      /\ threadList' = Append(threadList, d) /\ threadList \in Seq(Blobs)
  BY DEF Request, TypeOK
<1>2. Untouched(d) BY <1>1 DEF RestInv, LoadInv
<1>3. /\ DOMAIN threadList = 1 .. Len(threadList) /\ Len(threadList) \in Nat
      /\ DOMAIN threadList' = 1 .. Len(threadList) + 1 /\ threadList'[Len(threadList) + 1] = d
      /\ \A i \in 1 .. Len(threadList) : threadList'[i] = threadList[i]
  BY <1>1
<1>4. \A i \in DOMAIN threadList' : i \in DOMAIN threadList \/ i = Len(threadList) + 1 BY <1>3
<1>5. AskedInv' BY <1>1, <1>3, <1>4 DEF CycleInv, AskedInv
<1>6. Queued(d)' /\ \A x \in Blobs \ {d} : SameQueue(x)
  BY <1>1, <1>3, <1>4 DEF SameQueue, Queued
<1>7. \A x : SameKinds(x) BY <1>1 DEF SameKinds, InKind
<1>8. TodoLeads' BY <1>1, TodoKept DEF CycleInv
<1>9. AboveInv'
  <2>1. \A i \in DOMAIN stack : stack[i].blob \in Blobs /\ stack[i].blob # d
    BY <1>2, FrameFields DEF TypeOK, Untouched, OnStack
  <2>2. \A x \in Blobs \ {d} : status'[x] = status[x] BY <1>1 DEF TypeOK
  <2>3. \A x \in Blobs : status'[x] = "null" => status[x] = "null" BY <1>1 DEF TypeOK
  <2>4. ASSUME NEW k \in DOMAIN stack', stack'[k].at = "data",
               status'[stack'[k].blob] = "loading"
        PROVE  /\ k \in DOMAIN stack /\ stack[k].at = "data" /\ status[stack[k].blob] = "loading"
               /\ \A A \in SUBSET Imported : Sealed(k, A) =>
                    /\ \A j \in 1 .. k - 1 : stack'[j].blob \in A
                    /\ \A a \in A, w \in Blobs :
                         a \in waitingFor'[w] => a \in waitingFor[w] \/ w \in A
    BY <1>1, <2>1, <2>2, <2>4 DEF Sealed
  <2> QED BY <2>3, <2>4, AboveKept DEF CycleInv
<1> QED BY <1>1, <1>2, <1>5, <1>6, <1>7, <1>8, <1>9, QueuedCycle

LEMMA StutterCycle ==
  ASSUME CycleInv, Shutdown \/ LoaderQuits \/ UNCHANGED vars
  PROVE  CycleInv'
<1>1. /\ UNCHANGED <<status, waitingFor, stack, threadList, network>>
      /\ UNCHANGED files
  BY DEF Shutdown, LoaderQuits, vars, graphVars
<1>2. /\ \A x, d : Leads(x, d)' <=> Leads(x, d)
      /\ \A x : LeadsToCycle(x)' <=> LeadsToCycle(x)
  BY <1>1, GraphStays
<1>3. WaitsLead' BY <1>1, <1>2 DEF CycleInv, WaitsLead
<1>4. TodoLeads' BY <1>1, TodoKept DEF CycleInv
<1>5. ErrorInv' BY <1>1, <1>2 DEF CycleInv, ErrorInv, InALoop, InKind
<1>6. AskedInv' /\ LoadingInv' BY <1>1 DEF CycleInv, AskedInv, LoadingInv, Queued, InData, InKind
<1>7. AboveInv' BY <1>1 DEF CycleInv, AboveInv, Sealed, Imported
<1> QED BY <1>3, <1>4, <1>5, <1>6, <1>7 DEF CycleInv

LEMMA CycleKept == IInv /\ CycleInv /\ [Next]_vars => CycleInv'
<1> SUFFICES ASSUME IInv, CycleInv, [Next]_vars PROVE CycleInv'
  OBVIOUS
<1>1. /\ UNCHANGED files /\ TypeOK /\ ListsInv /\ RestInv
      /\ TypeOK' /\ LoadInv'
  BY FilesStay, InvariantParts, StepKeeps DEF IInv
<1>2. ASSUME NEW d \in Blobs, Request(d) PROVE CycleInv' BY <1>1, <1>2, RequestCycle
<1>3. CASE Shutdown \/ LoaderQuits \/ UNCHANGED vars BY <1>3, StutterCycle
<1>4. CASE TakeMessage BY <1>1, <1>4, TakeMessageCycle
<1>5. ASSUME NEW d \in Blobs, NetworkReplyFinished(d) PROVE CycleInv'
  BY <1>1, <1>5, NetworkCycle
<1>6. ASSUME NEW d \in Blobs, GetUnknown(d) PROVE CycleInv' BY <1>1, <1>6, GetUnknownCycle
<1>7. ASSUME NEW d \in Blobs, SkipSingleton(d) PROVE CycleInv' BY <1>1, <1>7, SkipSingletonCycle
<1>8. ASSUME NEW d \in Blobs, GetKnown(d) PROVE CycleInv' BY <1>1, <1>8, GetKnownCycle
<1>9. CASE Fail BY <1>1, <1>9, FailCycle
<1>10. CASE LoopEnds BY <1>1, <1>10, LoopEndsCycle
<1>11. CASE Settle BY <1>1, <1>11, SettleCycle
<1>12. CASE NotifyWaiting BY <1>1, <1>12, NotifyCycle
<1>13. CASE CallCompleted BY <1>1, <1>13, CallCompletedCycle
<1> QED
  BY <1>2, <1>3, <1>4, <1>5, <1>6, <1>7, <1>8, <1>9, <1>10, <1>11, <1>12, <1>13
  DEF Next, CallbackStep

LEMMA InitCycle == Init => CycleInv
<1> SUFFICES ASSUME Init PROVE CycleInv
  OBVIOUS
<1>1. DOMAIN stack = {} /\ DOMAIN threadList = {} BY DEF Init
<1>2. \A b \in Blobs : waitingFor[b] = {} /\ status[b] = "null" BY DEF Init
<1> QED
  BY <1>1, <1>2
  DEF CycleInv, WaitsLead, TodoLeads, ErrorInv, AskedInv, LoadingInv, AboveInv

\* setError() is called for a blob that is in error only by a callback that goes on after
\* addDependency() found a cycle.
LEMMA ErrorStep ==
  ASSUME IInv, CycleInv, [Next]_vars,
         NEW b \in Blobs, errors'[b] # errors[b], status[b] = "error"
  PROVE  LeadsToCycle(b)
<1>1. TypeOK /\ RestInv BY InvariantParts
<1>2. ASSUME NEW d \in Blobs, status[d] # "error",
             errors' = [errors EXCEPT ![d] = @ + 1] \/ UNCHANGED errors
      PROVE  FALSE
  BY <1>1, <1>2 DEF TypeOK
<1>3. ASSUME NEW d \in Blobs, NEW rest, LoadThread(d, rest), status[d] # "error" PROVE FALSE
  BY <1>2, <1>3 DEF LoadThread, SetError
<1>4. ASSUME NEW d \in Blobs, Queued(d) PROVE status[d] # "error"
  BY <1>1, <1>4 DEF RestInv, LoadInv
<1>5. ASSUME NEW d \in Blobs, GetUnknown(d) PROVE FALSE BY <1>3, <1>5 DEF GetUnknown
<1>6. CASE TakeMessage
  <2>1. Head(threadList) \in Blobs BY <1>1, <1>6, TakeMessageStack
  <2>2. Queued(Head(threadList))
    <3>1. threadList # <<>> /\ threadList \in Seq(Blobs) BY <1>1, <1>6 DEF TakeMessage, TypeOK
    <3>2. 1 \in DOMAIN threadList /\ threadList[1] = Head(threadList) BY <3>1
    <3> QED BY <3>2 DEF Queued
  <2> QED BY <1>3, <1>4, <1>6, <2>1, <2>2 DEF TakeMessage
<1>7. ASSUME NEW d \in Blobs, NetworkReplyFinished(d) PROVE FALSE
  <2>1. Queued(d) BY <1>7 DEF NetworkReplyFinished, Queued
  <2> QED BY <1>2, <1>4, <1>7, <2>1 DEF NetworkReplyFinished, SetError
<1>8. CASE Fail
  <2>1. stack # <<>> /\ Top.at \in LoopKinds BY <1>8 DEF Fail, InLoop, LoopKinds
  <2>2. errors' = [errors EXCEPT ![Top.blob] = @ + 1] BY <1>8 DEF Fail, SetError
  <2>3. b = Top.blob BY <1>1, <2>2 DEF TypeOK
  <2> QED BY <1>1, <2>1, <2>3, TopCycle
<1>9. CASE Settle
  <2>1. stack # <<>> BY <1>1, <1>9, SettleStack
  <2>2. Top.blob \in Blobs BY <1>1, <2>1, TopFacts
  <2>3. \/ UNCHANGED errors
        \/ status[Top.blob] # "error" /\ errors' = [errors EXCEPT ![Top.blob] = @ + 1]
    BY <1>9 DEF Settle, Done
  <2> QED BY <1>2, <2>2, <2>3
<1>10. ASSUME UNCHANGED errors PROVE FALSE BY <1>10
<1>11. CASE \/ Shutdown \/ LoaderQuits \/ UNCHANGED vars \/ LoopEnds \/ NotifyWaiting \/ CallCompleted
            \/ \E d \in Blobs : Request(d) \/ SkipSingleton(d) \/ GetKnown(d)
  BY <1>10, <1>11
  DEF Shutdown, LoaderQuits, vars, graphVars, LoopEnds, NotifyWaiting, CallCompleted, Request, SkipSingleton,
      GetKnown
<1> QED BY <1>5, <1>6, <1>7, <1>8, <1>9, <1>11 DEF Next, CallbackStep

\* A late singleton is never waited for, and a file that waits leads to what it waits for.
THEOREM CyclesHold == Spec => []CycleInv
BY InitCycle, CycleKept, Invariance, PTL DEF Spec

\* setError() finds its blob free of errors, as it asserts, whatever fails and however the
\* loads nest, unless the blob leads to a cycle that no late singleton breaks.
THEOREM ErrorsAreSetOnce == Spec => SetErrorOnceUnlessCyclic
<1>1. IInv /\ CycleInv /\ [Next]_vars =>
        [\A b \in Blobs : errors'[b] # errors[b] /\ status[b] = "error" => LeadsToCycle(b)]_vars
  BY ErrorStep
<1> QED BY <1>1, Invariance, CyclesHold, PTL DEF Spec, SetErrorOnceUnlessCyclic
=============================================================================
